----------------------------- MODULE Office_proofs -----------------------------
(*******************************************************************************)
(* Reviewed: what is approved was within the ceiling that was checked, the     *)
(* target margin is the one of the last audit row, and the queue leads on.     *)
(* Asked for: what leaves a form is what it showed, an estimate whose form     *)
(* heard of it is whole, and the draft saved last is the one draft there is.   *)
(* Companies: what a panel was told is stored, is stored, each contact once.   *)
(*******************************************************************************)
EXTENDS MCOffice, FiniteSetTheorems, SequenceTheorems, WellFoundedInduction, TLAPS

-----------------------------------------------------------------------------
(* The ladder.                                                              *)

LEMMA Least == ASSUME NEW T, T \subseteq Nat, T # {} PROVE \E m \in T : \A k \in T : m <= k
<1>1. \E m \in T : \A k \in T : ~(<<k, m>> \in OpToRel(<, Nat))
  BY NatLessThanWellFounded, WFMin
<1>2. PICK m \in T : \A k \in T : ~(k < m)
  BY <1>1 DEF OpToRel
<1> QED BY <1>2

LEMMA LastOrderType == LastOrder \in Nat
  BY DEF LastOrder

LEMMA RankType == ASSUME NEW r \in Roles PROVE Rank(r) \in Nat /\ Canonical[Rank(r)] = r
<1>1. \E i \in DOMAIN Canonical : Canonical[i] = r
  BY DEF Roles
<1>2. DOMAIN Canonical \subseteq Nat
  BY ApprovalAssumption
<1> QED BY <1>1, <1>2 DEF Rank

\* Some tier comes first.
LEMMA First ==
  ASSUME NEW S, S \subseteq Roles, S # {}
  PROVE  \E r \in S : \A q \in S : Before(r, q)
<1>1. \A r \in S : Order[r] \in Nat /\ Rank(r) \in Nat
  BY RankType, LadderAssumption, LastOrderType
<1>2. PICK a \in S : \A q \in S : Order[a] <= Order[q]
  <2> DEFINE T == {Order[r] : r \in S}
  <2>1. T \subseteq Nat /\ T # {}
    BY <1>1
  <2>2. PICK m \in T : \A k \in T : m <= k
    BY <2>1, Least
  <2> QED BY <2>2
<1> DEFINE B == {r \in S : Order[r] = Order[a]}
<1>3. PICK r \in B : \A q \in B : Rank(r) <= Rank(q)
  <2> DEFINE T == {Rank(q) : q \in B}
  <2>1. T \subseteq Nat /\ T # {}
    BY <1>1
  <2>2. PICK m \in T : \A k \in T : m <= k
    BY <2>1, Least
  <2> QED BY <2>2
<1>4. ASSUME NEW q \in S PROVE Before(r, q)
  <2>1. CASE Order[q] = Order[a]
    BY <1>3, <2>1 DEF Before
  <2>2. CASE Order[q] # Order[a]
    BY <1>1, <1>2, <2>2 DEF Before
  <2> QED BY <2>1, <2>2
<1> QED BY <1>4

\* tierForValue finds a band of the value, before every other, where there is one.
LEMMA TierFound ==
  ASSUME NEW v, NEW tiers, NEW q \in Roles, InBand(v, tiers, q)
  PROVE  /\ TierForValue(v, tiers) \in Roles /\ TierForValue(v, tiers) # None
         /\ InBand(v, tiers, TierForValue(v, tiers)) /\ Before(TierForValue(v, tiers), q)
<1> DEFINE fit == {r \in Roles : InBand(v, tiers, r)}
<1>1. \E r \in fit : \A p \in fit : Before(r, p)
  BY First
<1>2. TierForValue(v, tiers) = CHOOSE r \in fit : \A p \in fit : Before(r, p)
  BY DEF TierForValue
<1>3. TierForValue(v, tiers) \in fit /\ \A p \in fit : Before(TierForValue(v, tiers), p)
  BY <1>1, <1>2
<1> QED BY <1>3, ApprovalAssumption DEF None

LEMMA TierIsOne ==
  ASSUME NEW v, NEW tiers, TierForValue(v, tiers) # None
  PROVE  /\ TierForValue(v, tiers) \in Roles
         /\ InBand(v, tiers, TierForValue(v, tiers))
         /\ \A q \in Roles : InBand(v, tiers, q) => Before(TierForValue(v, tiers), q)
<1>1. PICK q \in Roles : InBand(v, tiers, q)
  BY DEF TierForValue
<1>2. \A p \in Roles : InBand(v, tiers, p) => Before(TierForValue(v, tiers), p)
  BY TierFound
<1> QED BY <1>1, <1>2, TierFound

\* Without a gap, a value above the floor of a tab is in the band of that tab or a higher one.
LEMMA Climb ==
  ASSUME NEW v \in Nat, NEW tiers \in Tiers, NoGap(tiers), NEW r \in Tabs, Floor[r] <= v
  PROVE  \E q \in Tabs : InBand(v, tiers, q)
<1> DEFINE T == {LastOrder - Order[q] : q \in {p \in Tabs : Floor[p] <= v}}
<1>1. \A q \in Tabs : q \in Roles /\ Order[q] \in 0..LastOrder /\ Floor[q] \in Nat /\ tiers[q] \in Ceilings
  BY ApprovalAssumption, LadderAssumption DEF Tiers
<1>2. T \subseteq Nat /\ T # {}
  BY <1>1, LastOrderType
<1>3. PICK m \in T : \A k \in T : m <= k
  BY <1>2, Least
<1>4. PICK q \in Tabs : Floor[q] <= v /\ m = LastOrder - Order[q]
  BY <1>3
<1>5. \A p \in Tabs : Floor[p] <= v => Order[p] <= Order[q]
  <2> SUFFICES ASSUME NEW p \in Tabs, Floor[p] <= v PROVE Order[p] <= Order[q]
    OBVIOUS
  <2>1. LastOrder - Order[p] \in T
    OBVIOUS
  <2>2. m <= LastOrder - Order[p]
    BY <1>3, <2>1
  <2>3. Order[p] \in Nat /\ Order[q] \in Nat
    BY <1>1, LastOrderType
  <2> QED BY <1>4, <2>2, <2>3, LastOrderType
<1>6. CASE tiers[q] = Unbounded
  BY <1>4, <1>6 DEF InBand
<1>7. CASE tiers[q] # Unbounded
  <2>1. tiers[q] \in Nat
    BY <1>1, <1>7 DEF Ceilings
  <2>2. PICK p \in Tabs : Order[p] = Order[q] + 1 /\ Floor[p] <= tiers[q]
    BY <1>7 DEF NoGap
  <2>3. ~(tiers[q] <= v)
    BY <1>1, <1>5, <2>1, <2>2
  <2> QED BY <1>4, <2>1, <2>3, <1>7 DEF InBand
<1> QED BY <1>6, <1>7

\* Then some tab shows it.
LEMMA SomeTab ==
  ASSUME NEW v \in Nat, NEW tiers \in Tiers, NoGap(tiers)
  PROVE  TierForValue(v, tiers) \in Tabs
<1>1. PICK r \in Tabs : Floor[r] = 0
  BY LadderAssumption
<1>2. PICK q \in Tabs : InBand(v, tiers, q)
  BY <1>1, Climb
<1>3. TierForValue(v, tiers) \in Roles /\ Before(TierForValue(v, tiers), q) /\ q \in Roles
  BY <1>2, TierFound, ApprovalAssumption
<1>4. Order[TierForValue(v, tiers)] <= Order[q]
  BY <1>3, LadderAssumption DEF Before
<1> QED BY <1>3, <1>4, LadderAssumption

\* What is not over the ceiling of a tab that shows the estimate is within its band.
LEMMA WithinBand ==
  ASSUME NEW tiers \in Tiers, NEW own \in Tabs, NEW w \in Nat, TierForValue(w, tiers) = own,
         NEW v \in Nat, ~IsOverCeiling(TierForValue(v, tiers), own), EveryValueHasTier(tiers)
  PROVE  tiers[own] = Unbounded \/ v <= tiers[own]
<1> DEFINE live == TierForValue(v, tiers)
<1> SUFFICES ASSUME tiers[own] # Unbounded, ~(v <= tiers[own]) PROVE FALSE
  OBVIOUS
<1>1. /\ own \in Roles /\ own # None
      /\ \A r \in Roles : Order[r] \in Nat /\ Floor[r] \in Nat /\ tiers[r] \in Ceilings
      /\ tiers[own] \in Nat
  BY ApprovalAssumption, LadderAssumption, LastOrderType DEF Tiers, Ceilings, None
<1>2. Floor[own] <= w /\ w < tiers[own] /\ \A q \in Roles : InBand(w, tiers, q) => Before(own, q)
  BY <1>1, TierIsOne DEF InBand
<1>3. \E r \in Roles : InBand(v, tiers, r)
  <2>1. CASE NoGap(tiers)
    BY <1>1, <1>2, <2>1, Climb, ApprovalAssumption
  <2>2. CASE \E r \in Roles : Floor[r] = 0 /\ tiers[r] = Unbounded
    BY <2>2 DEF InBand
  <2> QED BY <2>1, <2>2 DEF EveryValueHasTier
<1>4. live \in Roles /\ live # None /\ InBand(v, tiers, live)
  BY <1>3, TierFound
<1>5. Order[live] <= Order[own]
  BY <1>1, <1>4 DEF IsOverCeiling
<1>6. live \in Tabs /\ Floor[live] <= Floor[own]
  BY <1>4, <1>5, LadderAssumption
<1>7. InBand(w, tiers, live)
  <2>1. CASE tiers[live] = Unbounded
    BY <1>1, <1>2, <1>4, <1>6, <2>1 DEF InBand
  <2>2. CASE tiers[live] # Unbounded
    <3>1. tiers[live] \in Nat /\ v < tiers[live]
      BY <1>1, <1>4, <2>2 DEF InBand, Ceilings
    <3> QED BY <1>1, <1>2, <1>4, <1>6, <2>2, <3>1 DEF InBand
  <2> QED BY <2>1, <2>2
<1>8. Before(own, live)
  BY <1>2, <1>4, <1>7
<1>9. Order[own] = Order[live]
  BY <1>1, <1>4, <1>5, <1>8 DEF Before
<1>10. live = own
  BY <1>6, <1>9, LadderAssumption
<1> QED BY <1>1, <1>4, <1>10 DEF InBand

LEMMA Greater ==
  ASSUME NEW a \in Nat, NEW b \in Nat
  PROVE  \E c \in {a, b} : \A d \in {a, b} : d <= c
<1>1. CASE a <= b
  BY <1>1
<1>2. CASE b <= a
  BY <1>2
<1> QED BY <1>1, <1>2

\* The server's ceiling of a role is no lower than that of its row for the type.
LEMMA Ceiling ==
  ASSUME ladder \in [Types -> Tiers], NEW r \in Roles
  PROVE  /\ ServerCeiling(r) \in Ceilings
         /\ ServerCeiling(r) # Unbounded => ladder[Type][r] \in Nat /\ ladder[Type][r] <= ServerCeiling(r)
<1>1. PICK other \in Types : Types = {Type, other}
  BY ApprovalAssumption
<1> DEFINE tops == {ladder[t][r] : t \in Types}
           a == ladder[Type][r]
           b == ladder[other][r]
<1>2. tops = {a, b} /\ a \in Ceilings /\ b \in Ceilings
  BY <1>1 DEF Tiers
<1>3. CASE Unbounded \in tops
  BY <1>3 DEF ServerCeiling, Ceilings
<1>4. CASE Unbounded \notin tops
  <2>1. a \in Nat /\ b \in Nat
    BY <1>2, <1>4 DEF Ceilings
  <2>2. \E c \in tops : \A d \in tops : d <= c
    <3> HIDE DEF a, b, tops
    <3> QED BY <1>2, <2>1, Greater
  <2>3. ServerCeiling(r) = CHOOSE c \in tops : \A d \in tops : d <= c
    BY <1>4 DEF ServerCeiling
  <2> QED BY <1>2, <2>1, <2>2, <2>3
<1> QED BY <1>3, <1>4

LEMMA ServerAllows ==
  ASSUME ladder \in [Types -> Tiers], NEW r \in Roles, NEW v \in Nat,
         ladder[Type][r] = Unbounded \/ v <= ladder[Type][r]
  PROVE  Covers(ServerCeiling(r), v)
<1>1. CASE ServerCeiling(r) = Unbounded
  BY <1>1 DEF Covers
<1>2. CASE ServerCeiling(r) # Unbounded
  <2>1. ladder[Type][r] \in Nat /\ ladder[Type][r] <= ServerCeiling(r) /\ ServerCeiling(r) \in Nat
    BY <1>2, Ceiling DEF Ceilings
  <2>2. v <= ladder[Type][r]
    BY <2>1, ApprovalAssumption
  <2> QED BY <2>1, <2>2 DEF Covers
<1> QED BY <1>1, <1>2

-----------------------------------------------------------------------------
(* The levers.                                                              *)

LEMMA RoundType == ASSUME NEW a \in Nat, NEW b \in Nat \ {0} PROVE Round(a, b) \in Nat
<1>1. 2 * a + b \in Nat /\ 2 * b \in Nat \ {0}
  OBVIOUS
<1> DEFINE m == 2 * a + b  n == 2 * b
<1>2. m \in Nat /\ n \in Nat \ {0}
  BY <1>1
<1>3. m \div n \in Nat
  <2> HIDE DEF m, n
  <2> QED BY <1>2
<1> QED BY <1>3 DEF Round

LEMMA Times == ASSUME NEW a \in Nat, NEW b \in Nat PROVE a * b \in Nat
  OBVIOUS

LEMMA LiveType ==
  ASSUME NEW e \in EstimateType, NEW comp \in 0..100, NEW margin \in 0..99
  PROVE  LiveValue(e, comp, margin) \in Nat
<1>1. e.value \in Nat /\ 100 - e.margin \in Nat /\ 100 + comp - e.comp \in Nat /\ 100 - margin \in Nat \ {0}
  BY DEF EstimateType
<1>2. CostOf(e) \in Nat
  BY <1>1, Times, RoundType DEF CostOf
<1> DEFINE ratio == 100 + comp - e.comp
<1>3. CostOf(e) * ratio \in Nat
  <2> HIDE DEF ratio
  <2>1. ratio \in Nat
    BY <1>1 DEF ratio
  <2> QED BY <1>2, <2>1, Times
<1>4. Round(CostOf(e) * ratio, 100) \in Nat
  <2> HIDE DEF ratio
  <2> QED BY <1>3, RoundType
<1>5. Round(CostOf(e) * ratio, 100) * 100 \in Nat
  <2> HIDE DEF ratio
  <2> QED BY <1>4, Times
<1>6. Round(Round(CostOf(e) * ratio, 100) * 100, 100 - margin) \in Nat
  <2> HIDE DEF ratio
  <2> QED BY <1>1, <1>5, RoundType
<1> QED BY <1>6 DEF LiveValue

-----------------------------------------------------------------------------
(* The invariant.                                                           *)

Lines == Seq([from : 0..99, to : 0..99])

Call == [do : {"patch"}, value : Nat, margin : 0..99]
          \cup [do : {"adjust"}, from : 0..99, to : 0..99]
          \cup [do : {"approve", "handback", "back"}]

At == {"away", "queue", "handoff", "drawer", "panel"}
DeskType ==
  [at : At, tab : Tabs, tiers : Tiers,
   item : EstimateType \cup {Nothing}, comp : 0..100, margin : 0..99,
   fresh : EstimateType \cup {Nothing}, offer : SUBSET Tiers]

ReviewTypeOK ==
  /\ est \in EstimateType /\ ladder \in [Types -> Tiers] /\ trail \in Lines
  /\ desk \in [Desks -> DeskType] /\ calls \in [Desks -> Seq(Call)]
  /\ form \subseteq Types \X Roles \X Nat /\ covered \in Ceilings
  /\ mishap \in {None, "cut", "lost"}

\* The value and margin first, then their row, then the approval; the others stand alone.
Series(c) ==
  \A i \in 1..Len(c) :
    /\ c[i].do \in {"approve", "handback", "back"} => i = Len(c)
    /\ c[i].do \in {"patch", "handback", "back"} => i = 1
    /\ c[i].do = "adjust" => i = 1 \/ (i = 2 /\ c[1].do = "patch" /\ c[i].to = c[1].margin)

Does(s, what) == Busy(s) /\ Head(calls[s]).do = what

Resting(s) == desk[s].at = "away" /\ ~Busy(s) /\ desk[s].fresh = Nothing

\* A series is answered where it was sent from.
InTurn(s) ==
  /\ Series(calls[s])
  /\ Busy(s) => desk[s].at # "away"
  /\ desk[s].fresh # Nothing => Busy(s) /\ desk[s].item.status = "pending_approval"
  /\ Does(s, "adjust") => desk[s].fresh # Nothing
  /\ Does(s, "back") => desk[s].fresh = Nothing
  /\ Does(s, "patch") => desk[s].fresh = Nothing /\ desk[s].item.status = "pending_approval"

\* An estimate handed back is not patched any more.
Timely(s) ==
  /\ mishap # "lost" /\ desk[s].at # "away" /\ desk[s].item.status = "pending_approval"
       => est.status = "pending_approval"
  /\ Checked(s) => Covers(covered, est.value)

\* A copy has the margin of the estimate, and a PATCH that moves it is followed by its row.
Follows(s) ==
  mishap = None =>
    /\ desk[s].at # "away" /\ desk[s].fresh = Nothing /\ desk[s].item # Nothing
         => desk[s].item.margin = est.margin
    /\ desk[s].fresh # Nothing => desk[s].fresh.margin = est.margin
    /\ Does(s, "adjust") => Head(calls[s]).to = est.margin
    /\ Does(s, "patch") /\ Head(calls[s]).margin # est.margin
         => Len(calls[s]) > 1 /\ calls[s][2].do = "adjust"

Accepts(tiers, r, v) ==
  r \in Tabs /\ (EveryValueHasTier(tiers) => tiers[r] = Unbounded \/ v <= tiers[r])

\* What was offered as an approval is within the approver's band, or will be.
Within(s) ==
  Busy(s) /\ calls[s][Len(calls[s])].do = "approve" /\ desk[s].offer # {} =>
    /\ est.status = "pending_approval"
    /\ \A tiers \in desk[s].offer :
         Accepts(tiers, RoleOf[s], IF Does(s, "patch") THEN Head(calls[s]).value ELSE est.value)

DeskInv(s) == InTurn(s) /\ Timely(s) /\ Follows(s) /\ Within(s)

OneAtWork == \A s, t \in Desks : s = t \/ Resting(s) \/ Resting(t)

\* What was handed back was covered when it was checked.
CoverInv == mishap # "lost" /\ est.status = "handed_back" => Covers(covered, est.value)

\* The last row is the margin's, or the row that is comes next.
AuditInv ==
  mishap = None /\ trail # <<>> =>
    trail[Len(trail)].to = est.margin \/ \E s \in Desks : Does(s, "adjust")

ReviewInv ==
  ReviewTypeOK /\ OneAtWork /\ (\A s \in Desks : DeskInv(s)) /\ CoverInv /\ AuditInv

-----------------------------------------------------------------------------
(* What is sent.                                                            *)

Patching(d) == [do |-> "patch", value |-> LiveValue(d.item, d.comp, d.margin), margin |-> d.margin]

LEMMA ShownType ==
  ASSUME NEW d \in DeskType, Shown(d)
  PROVE  d.item \in EstimateType /\ d.item.status = "pending_approval" /\ Patching(d) \in Call
<1>1. d.item \in EstimateType /\ d.item.status = "pending_approval"
  BY DEF Shown, DeskType, Nothing, None
<1>2. d.comp \in 0..100 /\ d.margin \in 0..99
  BY DEF DeskType
<1>3. LiveValue(d.item, d.comp, d.margin) \in Nat
  BY <1>1, <1>2, LiveType
<1> QED BY <1>1, <1>2, <1>3 DEF Patching, Call

LEMMA Pair ==
  ASSUME NEW x \in Call, NEW y \in Call
  PROVE  /\ <<x>> \o <<y>> \in Seq(Call) /\ Len(<<x>> \o <<y>>) = 2
         /\ (<<x>> \o <<y>>)[1] = x /\ (<<x>> \o <<y>>)[2] = y
<1> DEFINE p == <<x>>  q == <<y>>
<1>1. p \in Seq(Call) /\ q \in Seq(Call) /\ Len(p) = 1 /\ Len(q) = 1 /\ p[1] = x /\ q[1] = y
  OBVIOUS
<1> HIDE DEF p, q
<1>2. p \o q \in Seq(Call) /\ Len(p \o q) = 2 /\ (p \o q)[1] = x /\ (p \o q)[2] = y
  BY <1>1, ConcatProperties
<1> QED BY <1>2 DEF p, q

\* Saving the levers is a PATCH, and a row if the margin moved.
LEMMA Adjusting ==
  ASSUME NEW d \in DeskType, Shown(d)
  PROVE  /\ Adjustments(d) \in Seq(Call) /\ Len(Adjustments(d)) \in {1, 2}
         /\ Adjustments(d)[1] = Patching(d)
         /\ Len(Adjustments(d)) = 2 => Adjustments(d)[2] = [do |-> "adjust", from |-> d.item.margin, to |-> d.margin]
         /\ d.margin # d.item.margin => Len(Adjustments(d)) = 2
<1> DEFINE a == [do |-> "adjust", from |-> d.item.margin, to |-> d.margin]
<1>1. Patching(d) \in Call /\ a \in Call
  BY ShownType DEF Call, DeskType, EstimateType
<1>2. Adjustments(d) = <<Patching(d)>> \o (IF d.margin # d.item.margin THEN <<a>> ELSE <<>>)
  BY DEF Adjustments, Records, Patching
<1>3. CASE d.margin # d.item.margin
  <2> HIDE DEF a
  <2>1. Adjustments(d) = <<Patching(d)>> \o <<a>>
    BY <1>2, <1>3
  <2>2. Adjustments(d) \in Seq(Call) /\ Len(Adjustments(d)) = 2 /\ Adjustments(d)[1] = Patching(d) /\ Adjustments(d)[2] = a
    BY <1>1, <2>1, Pair
  <2> QED BY <2>2 DEF a
<1>4. CASE d.margin = d.item.margin
  <2>1. Adjustments(d) = <<Patching(d)>>
    BY <1>2, <1>4
  <2> QED BY <1>1, <1>4, <2>1
<1> QED BY <1>3, <1>4

LEMMA Approving ==
  ASSUME NEW c \in Seq(Call)
  PROVE  /\ c \o Approval \in Seq(Call) /\ Len(c \o Approval) = Len(c) + 1
         /\ \A i \in 1..Len(c) : (c \o Approval)[i] = c[i]
         /\ (c \o Approval)[Len(c) + 1] = [do |-> "approve"]
<1>1. Approval \in Seq(Call) /\ Len(Approval) = 1 /\ Approval[1] = [do |-> "approve"]
  BY DEF Approval, Call
<1> QED BY <1>1, ConcatProperties

\* A handler that starts sends a whole series; one that approves under the ceiling of the tab.
NewSeries(s, c) ==
  /\ c \in Seq(Call) /\ c # <<>> /\ Series(c) /\ c[1].do \in {"patch", "approve", "back"}
  /\ desk[s].at # "away"
  /\ c[1].do = "patch" =>
       /\ Shown(desk[s])
       /\ c[1].margin # desk[s].item.margin => Len(c) > 1 /\ c[2].do = "adjust"
       /\ c[Len(c)].do = "approve" => ~IsOverCeiling(TierForValue(c[1].value, desk[s].tiers), desk[s].tab)

LEMMA Sending ==
  ASSUME ReviewTypeOK, NEW s \in Desks,
         ApproveCard(s) \/ Primary(s) \/ SendBack(s) \/ ApproveHandoff(s)
  PROVE  \E c : NewSeries(s, c) /\ Send(s, c)
<1> DEFINE d == desk[s]
<1>1. d \in DeskType
  BY DEF ReviewTypeOK
<1>2. NewSeries(s, Approval) \/ d.at = "away"
  BY DEF NewSeries, Approval, Call, Series
<1>3. NewSeries(s, <<[do |-> "back"]>>) \/ d.at = "away"
  BY DEF NewSeries, Call, Series
<1>4. CASE ApproveCard(s) \/ ApproveHandoff(s)
  BY <1>2, <1>4 DEF ApproveCard, ApproveHandoff
<1>5. CASE SendBack(s)
  BY <1>3, <1>5 DEF SendBack
<1>6. CASE Primary(s)
  <2>1. d.at = "drawer" /\ Shown(d)
    BY <1>6 DEF Primary
  <2> DEFINE a == Adjustments(d)
  <2>2. /\ a \in Seq(Call) /\ Len(a) \in {1, 2} /\ a[1] = Patching(d)
        /\ Len(a) = 2 => a[2] = [do |-> "adjust", from |-> d.item.margin, to |-> d.margin]
        /\ d.margin # d.item.margin => Len(a) = 2
    BY <1>1, <2>1, Adjusting
  <2>3. Patching(d).do = "patch" /\ Patching(d).margin = d.margin
        /\ Patching(d).value = LiveValue(d.item, d.comp, d.margin)
    BY DEF Patching
  <2> HIDE DEF a, d
  <2>4. NewSeries(s, a)
    BY <2>1, <2>2, <2>3 DEF NewSeries, Series, d
  <2>5. CASE ~OverCeiling(d)
    <3>1. /\ a \o Approval \in Seq(Call) /\ Len(a \o Approval) = Len(a) + 1
          /\ \A i \in 1..Len(a) : (a \o Approval)[i] = a[i]
          /\ (a \o Approval)[Len(a) + 1] = [do |-> "approve"]
      BY <2>2, Approving
    <3>2. ~IsOverCeiling(TierForValue(Patching(d).value, d.tiers), d.tab)
      BY <2>3, <2>5 DEF OverCeiling
    <3> DEFINE b == a \o Approval
    <3> HIDE DEF b
    <3>3. /\ b \in Seq(Call) /\ Len(b) = Len(a) + 1 /\ b[1] = a[1] /\ b[Len(b)].do = "approve"
          /\ Len(a) = 2 => b[2] = a[2]
      BY <2>2, <3>1 DEF b
    <3>4. Series(b)
      <4>1. b[1].do = "patch" /\ b[1].margin = d.margin
        BY <2>2, <2>3, <3>3
      <4>2. CASE Len(a) = 1
        <5>1. b[2].do = "approve" /\ Len(b) = 2
          BY <3>3, <4>2
        <5> QED BY <4>1, <5>1 DEF Series
      <4>3. CASE Len(a) = 2
        <5>1. b[3].do = "approve" /\ Len(b) = 3 /\ b[2].do = "adjust" /\ b[2].to = d.margin
          BY <2>2, <3>3, <4>3
        <5> QED BY <4>1, <5>1 DEF Series
      <4> QED BY <2>2, <4>2, <4>3
    <3>5. NewSeries(s, b)
      BY <2>1, <2>2, <2>3, <3>2, <3>3, <3>4 DEF NewSeries, d
    <3>6. Approval = <<>> \o Approval
      BY DEF Approval
    <3>7. Send(s, b) \/ Send(s, Approval)
      BY <1>6, <2>5, <3>6 DEF Primary, a, b, d
    <3> QED BY <1>2, <2>1, <3>5, <3>7
  <2>6. CASE OverCeiling(d)
    BY <1>6, <2>4, <2>6 DEF Primary, a, d
  <2> QED BY <2>5, <2>6
<1> QED BY <1>4, <1>5, <1>6
-----------------------------------------------------------------------------
(* Steps.                                                                   *)

\* While one approver is at work the others are away.
LEMMA OthersRest ==
  ASSUME ReviewInv, NEW s \in Desks, ~Resting(s)
  PROVE  \A t \in Desks \ {s} : Resting(t)
  BY DEF ReviewInv, OneAtWork

LEMMA AtWork ==
  ASSUME ReviewInv, NEW s \in Desks, desk[s].at = "away"
  PROVE  Resting(s)
  BY DEF ReviewInv, DeskInv, InTurn, Resting

LEMMA RestIsFine ==
  ASSUME NEW t \in Desks, Resting(t)'
  PROVE  DeskInv(t)'
<1>1. desk'[t].at = "away" /\ calls'[t] = <<>> /\ desk'[t].fresh = Nothing
  BY DEF Resting, Busy
<1>2. Series(calls'[t])
  BY <1>1 DEF Series
<1> QED BY <1>1, <1>2 DEF DeskInv, InTurn, Timely, Follows, Within, Does, Busy, Checked

\* A step of one approver moves that desk.
LEMMA OneDesk ==
  ASSUME NEW s \in Desks, \A t \in Desks \ {s} : Resting(t) /\ desk'[t] = desk[t] /\ calls'[t] = calls[t],
         DeskInv(s)'
  PROVE  OneAtWork' /\ \A t \in Desks : DeskInv(t)'
<1>1. \A t \in Desks \ {s} : Resting(t)'
  BY DEF Resting, Busy
<1>2. OneAtWork'
  BY <1>1 DEF OneAtWork
<1>3. \A t \in Desks : DeskInv(t)'
  <2>1. ASSUME NEW t \in Desks PROVE DeskInv(t)'
    BY <1>1, RestIsFine
  <2> QED BY <2>1
<1> QED BY <1>2, <1>3

\* The fields a screen sets.
LEMMA Turned == ASSUME NEW d \in DeskType, NEW at \in At PROVE [d EXCEPT !.at = at] \in DeskType
  BY DEF DeskType
LEMMA Opened ==
  ASSUME NEW d \in DeskType, NEW at \in At, NEW item \in EstimateType \cup {Nothing}
  PROVE  [d EXCEPT !.at = at, !.item = item] \in DeskType
  BY DEF DeskType
LEMMA Levered ==
  ASSUME NEW d \in DeskType, NEW at \in At, NEW comp \in 0..100, NEW margin \in 0..99
  PROVE  [d EXCEPT !.at = at, !.comp = comp, !.margin = margin] \in DeskType
  BY DEF DeskType
LEMMA Tabbed ==
  ASSUME NEW d \in DeskType, NEW tab \in Tabs, NEW at \in At, NEW comp \in 0..100, NEW margin \in 0..99
  PROVE  [d EXCEPT !.tab = tab, !.at = at, !.comp = comp, !.margin = margin] \in DeskType
  BY DEF DeskType

View(s) ==
  \/ OpenQueue(s) \/ OpenHandoff(s) \/ Leave(s) \/ FetchConfig(s)
  \/ \E r \in Tabs : ViewAs(s, r)
  \/ Review(s, "drawer") \/ Review(s, "panel") \/ Close(s) \/ TogglePanel(s)
  \/ \E c \in Complexities, m \in Margins : MoveLevers(s, c, m)

\* What an approver does on the screen: a series that runs keeps its copy.
Looks(s, d) ==
  /\ d \in DeskType /\ desk' = [desk EXCEPT ![s] = d]
  /\ d.fresh = desk[s].fresh /\ d.offer \subseteq desk[s].offer
  /\ Busy(s) => d.at # "away" /\ d.item = desk[s].item
  /\ \A t \in Desks \ {s} : Resting(t)
  /\ d.at # "away" => (d.item = desk[s].item /\ desk[s].at # "away") \/ d.item \in {est, Nothing}

LEMMA AwayType == Away \in DeskType /\ Away.at = "away" /\ Away.fresh = Nothing /\ Away.offer = {}
<1>1. \E r \in Tabs : \A q \in Tabs : Before(r, q)
  BY First, LadderAssumption, ApprovalAssumption
<1>2. (CHOOSE r \in Tabs : \A q \in Tabs : Before(r, q)) \in Tabs
  BY <1>1
<1> QED BY <1>2, ApprovalAssumption DEF Away, DeskType, At

LEMMA Viewing ==
  ASSUME ~Overlap, ReviewInv, NEW s \in Desks, View(s)
  PROVE  (\E d : Looks(s, d)) /\ UNCHANGED <<database, calls, form, bounds>>
<1>1. /\ desk \in [Desks -> DeskType] /\ desk[s] \in DeskType /\ est \in EstimateType
      /\ ladder \in [Types -> Tiers] /\ ladder[Type] \in Tiers
  BY ApprovalAssumption DEF ReviewInv, ReviewTypeOK
<1>2. \A t \in Desks \ {s} : Resting(t)
  <2>1. CASE desk[s].at = "away"
    <3>1. OpenQueue(s) \/ OpenHandoff(s)
      BY <2>1 DEF View, Leave, FetchConfig, ViewAs, Review, Close, TogglePanel, MoveLevers
    <3>2. \A t \in Desks \ {s} : desk[t].at = "away"
      BY <3>1 DEF OpenQueue, OpenHandoff, Alone
    <3> QED BY <3>2, AtWork
  <2>2. CASE desk[s].at # "away"
    BY <2>2, OthersRest DEF Resting
  <2> QED BY <2>1, <2>2
<1>3. CASE OpenQueue(s) \/ OpenHandoff(s)
  <2> DEFINE at == IF OpenQueue(s) THEN "queue" ELSE "handoff"
             i == IF OpenQueue(s) /\ est.status # "pending_approval" THEN Nothing ELSE est
             d == [desk[s] EXCEPT !.at = at, !.item = i]
  <2>1. /\ d \in DeskType
        /\ d.fresh = desk[s].fresh /\ d.offer = desk[s].offer /\ d.item \in {est, Nothing}
    <3>1. at \in At /\ i \in EstimateType \cup {Nothing} /\ i \in {est, Nothing}
      BY <1>1 DEF At
    <3> HIDE DEF at, i
    <3>2. d \in DeskType
      BY <1>1, <3>1, Opened
    <3>3. d.fresh = desk[s].fresh /\ d.offer = desk[s].offer /\ d.item = i
      BY <1>1 DEF DeskType
    <3> QED BY <3>1, <3>2, <3>3
  <2>2. desk' = [desk EXCEPT ![s] = d] /\ ~Busy(s)
    BY <1>1, <1>3 DEF OpenQueue, OpenHandoff, DeskType
  <2> QED BY <1>2, <1>3, <2>1, <2>2 DEF Looks, OpenQueue, OpenHandoff
<1>4. CASE Leave(s)
  <2> DEFINE d == [Away EXCEPT !.tiers = desk[s].tiers]
  <2>1. ~Busy(s) /\ desk[s].fresh = Nothing
    BY <1>4 DEF Leave, ReviewInv, DeskInv, InTurn
  <2>2. d \in DeskType /\ d.fresh = Nothing /\ d.offer = {} /\ d.at = "away"
    BY <1>1, AwayType DEF DeskType
  <2> QED BY <1>2, <1>4, <2>1, <2>2 DEF Looks, Leave
<1>5. CASE FetchConfig(s)
  <2> DEFINE d == [desk[s] EXCEPT !.tiers = ladder[Type]]
  <2>1. d \in DeskType /\ d.fresh = desk[s].fresh /\ d.offer = desk[s].offer /\ d.item = desk[s].item /\ d.at = desk[s].at
    BY <1>1 DEF DeskType
  <2> QED BY <1>1, <1>2, <1>5, <2>1 DEF Looks, FetchConfig
<1>6. CASE Close(s) \/ TogglePanel(s) \/ \E r \in Tabs : ViewAs(s, r)
  <2>0. 0 \in 0..100 /\ 0 \in 0..99 /\ "queue" \in At
    BY DEF At
  <2>1. ASSUME NEW r \in Tabs, ViewAs(s, r) PROVE \E d : Looks(s, d)
    <3> DEFINE d == [desk[s] EXCEPT !.tab = r, !.at = "queue", !.comp = 0, !.margin = 0]
    <3>1. d \in DeskType
      BY <1>1, <2>0, Tabbed
    <3>2. d.fresh = desk[s].fresh /\ d.offer = desk[s].offer /\ d.item = desk[s].item /\ d.at = "queue"
      BY <1>1 DEF DeskType
    <3> QED BY <1>1, <1>2, <2>1, <3>1, <3>2 DEF Looks, ViewAs
  <2>2. CASE Close(s)
    <3> DEFINE d == [desk[s] EXCEPT !.at = "queue", !.comp = 0, !.margin = 0]
    <3>1. d \in DeskType
      BY <1>1, <2>0, Levered
    <3>2. d.fresh = desk[s].fresh /\ d.offer = desk[s].offer /\ d.item = desk[s].item /\ d.at = "queue"
      BY <1>1 DEF DeskType
    <3> QED BY <1>1, <1>2, <2>2, <3>1, <3>2 DEF Looks, Close
  <2>3. CASE TogglePanel(s)
    <3> DEFINE at == IF desk[s].at = "drawer" THEN "panel" ELSE "drawer"
               d == [desk[s] EXCEPT !.at = at]
    <3>1. d \in DeskType
      BY <1>1, Turned DEF At
    <3>2. d.fresh = desk[s].fresh /\ d.offer = desk[s].offer /\ d.item = desk[s].item /\ d.at # "away"
      BY <1>1 DEF DeskType
    <3> QED BY <1>1, <1>2, <2>3, <3>1, <3>2 DEF Looks, TogglePanel
  <2>4. UNCHANGED <<database, calls, form, bounds>>
    BY <1>6 DEF Close, TogglePanel, ViewAs
  <2> QED BY <1>6, <2>1, <2>2, <2>3, <2>4
<1>7. CASE Review(s, "drawer") \/ Review(s, "panel")
  <2> DEFINE at == IF Review(s, "drawer") THEN "drawer" ELSE "panel"
             d == [desk[s] EXCEPT !.at = at, !.comp = desk[s].item.comp, !.margin = desk[s].item.margin]
  <2>1. desk[s].item.comp \in 0..100 /\ desk[s].item.margin \in 0..99
    BY <1>1, <1>7, ShownType DEF Review, EstimateType
  <2>2. /\ d \in DeskType
        /\ d.fresh = desk[s].fresh /\ d.offer = desk[s].offer /\ d.item = desk[s].item /\ d.at # "away"
    <3>1. at \in At /\ at # "away"
      BY DEF At
    <3> HIDE DEF at
    <3>2. d \in DeskType
      BY <1>1, <2>1, <3>1, Levered
    <3>3. d.fresh = desk[s].fresh /\ d.offer = desk[s].offer /\ d.item = desk[s].item /\ d.at = at
      BY <1>1 DEF DeskType
    <3> QED BY <3>1, <3>2, <3>3
  <2>3. desk' = [desk EXCEPT ![s] = d] /\ desk[s].at # "away"
    BY <1>1, <1>7 DEF Review
  <2> QED BY <1>2, <1>7, <2>2, <2>3 DEF Looks, Review
<1>8. ASSUME NEW c \in Complexities, NEW m \in Margins, MoveLevers(s, c, m)
      PROVE  (\E d : Looks(s, d)) /\ UNCHANGED <<database, calls, form, bounds>>
  <2> DEFINE d == [desk[s] EXCEPT !.comp = c, !.margin = m]
  <2>1. c \in 0..100 /\ m \in 0..99
    BY ApprovalAssumption
  <2>2. d \in DeskType /\ d.fresh = desk[s].fresh /\ d.offer = desk[s].offer /\ d.item = desk[s].item /\ d.at = desk[s].at
    BY <1>1, <2>1 DEF DeskType
  <2> QED BY <1>1, <1>2, <1>8, <2>2 DEF Looks, MoveLevers
<1> QED BY <1>3, <1>4, <1>5, <1>6, <1>7, <1>8 DEF View, OpenQueue, OpenHandoff, Leave, FetchConfig, Review

LEMMA ViewKeeps ==
  ASSUME ReviewInv, NEW s \in Desks, NEW d, Looks(s, d), UNCHANGED <<database, calls, form, bounds>>
  PROVE  ReviewInv'
<1>1. ReviewTypeOK'
  BY DEF ReviewInv, ReviewTypeOK, Looks, database, bounds
<1>2. /\ UNCHANGED <<est, ladder, trail, covered, calls, mishap>> /\ desk'[s] = d
      /\ \A t \in Desks \ {s} : Resting(t) /\ desk'[t] = desk[t] /\ calls'[t] = calls[t]
  BY DEF ReviewInv, ReviewTypeOK, Looks, database, bounds
<1>3. DeskInv(s)
  BY DEF ReviewInv
<1>4. InTurn(s)'
  BY <1>2, <1>3 DEF DeskInv, InTurn, Looks, Busy, Does
<1>5. Timely(s)'
  <2>1. Nothing.status # "pending_approval"
    BY DEF Nothing, None
  <2> QED BY <1>2, <1>3, <2>1 DEF DeskInv, Timely, Looks, Checked, Busy
<1>6. Follows(s)'
  BY <1>2, <1>3 DEF DeskInv, Follows, Looks, Does, Busy
<1>7. Within(s)'
  BY <1>2, <1>3 DEF DeskInv, Within, Looks, Does, Busy
<1>8. CoverInv' /\ AuditInv'
  BY <1>2 DEF ReviewInv, CoverInv, AuditInv, Does, Busy
<1> QED BY <1>1, <1>2, <1>4, <1>5, <1>6, <1>7, <1>8, OneDesk DEF ReviewInv, DeskInv

\* A handler starts: the queue shows a pending estimate, so what is sent is about one.
LEMMA SendKeeps ==
  ASSUME ReviewInv, NEW s \in Desks, NEW c, NewSeries(s, c), Send(s, c)
  PROVE  ReviewInv'
<1> DEFINE offer == IF Shown(desk[s]) /\ desk[s].tab = RoleOf[s] /\ desk[s].item = est
                      THEN {desk[s].tiers} ELSE {}
<1>1. /\ UNCHANGED <<est, ladder, trail, covered, form, mishap>> /\ ~Busy(s)
      /\ desk' = [desk EXCEPT ![s].offer = offer] /\ calls' = [calls EXCEPT ![s] = c]
  BY DEF Send, database
<1>2. desk[s] \in DeskType /\ est \in EstimateType /\ desk[s].tiers \in Tiers /\ desk[s].tab \in Tabs
  BY DEF ReviewInv, ReviewTypeOK, DeskType
<1>3. ReviewTypeOK'
  <2>1. offer \in SUBSET Tiers
    BY <1>2
  <2> HIDE DEF offer
  <2>2. desk' \in [Desks -> DeskType]
    BY <1>1, <1>2, <2>1 DEF ReviewInv, ReviewTypeOK, DeskType
  <2>3. calls' \in [Desks -> Seq(Call)]
    BY <1>1 DEF ReviewInv, ReviewTypeOK, NewSeries
  <2> QED BY <1>1, <2>2, <2>3 DEF ReviewInv, ReviewTypeOK
<1>4. desk[s].at # "away" /\ \A t \in Desks \ {s} : Resting(t) /\ desk'[t] = desk[t] /\ calls'[t] = calls[t]
  BY <1>1, OthersRest DEF NewSeries, Resting, ReviewInv, ReviewTypeOK
<1>5. /\ calls'[s] = c /\ Busy(s)' /\ Head(c) = c[1] /\ Len(c) \in Nat \ {0}
      /\ desk'[s].at = desk[s].at /\ desk'[s].item = desk[s].item /\ desk'[s].fresh = desk[s].fresh
      /\ desk'[s].tiers = desk[s].tiers /\ desk'[s].offer = offer /\ desk[s].fresh = Nothing
  <2>1. desk[s].fresh = Nothing
    BY <1>1 DEF ReviewInv, DeskInv, InTurn
  <2>2. calls'[s] = c /\ c \in Seq(Call) /\ c # <<>>
    BY <1>1 DEF ReviewInv, ReviewTypeOK, NewSeries
  <2>3. desk'[s] = [desk[s] EXCEPT !.offer = offer]
    BY <1>1 DEF ReviewInv, ReviewTypeOK
  <2> HIDE DEF offer
  <2>4. /\ desk'[s].at = desk[s].at /\ desk'[s].item = desk[s].item /\ desk'[s].fresh = desk[s].fresh
        /\ desk'[s].tiers = desk[s].tiers /\ desk'[s].offer = offer
    BY <1>2, <2>3 DEF DeskType
  <2> QED BY <2>1, <2>2, <2>4 DEF Busy
<1>6. c[1].do = "patch" => desk[s].item \in EstimateType /\ desk[s].item.status = "pending_approval"
  BY <1>2, ShownType DEF NewSeries
<1>7. DeskInv(s)
  BY DEF ReviewInv
<1> HIDE DEF offer
<1>8. InTurn(s)'
  BY <1>4, <1>5, <1>6 DEF InTurn, NewSeries, Does
<1>9. Timely(s)'
  BY <1>1, <1>5, <1>7 DEF DeskInv, Timely, NewSeries, Checked
<1>10. Follows(s)'
  <2>1. c[1].do = "patch" => desk[s].item # Nothing
    BY <1>6 DEF Nothing, None
  <2> QED BY <1>1, <1>4, <1>5, <1>7, <2>1 DEF DeskInv, Follows, NewSeries, Does
<1>11. Within(s)'
  <2> SUFFICES ASSUME c[Len(c)].do = "approve", offer # {} PROVE Within(s)'
    BY <1>5 DEF Within
  <2>1. /\ Shown(desk[s]) /\ desk[s].tab = RoleOf[s] /\ desk[s].item = est /\ offer = {desk[s].tiers}
    BY DEF offer
  <2>2. est.status = "pending_approval" /\ est.value \in Nat /\ TierForValue(est.value, desk[s].tiers) = desk[s].tab
    BY <1>2, <2>1 DEF Shown, EstimateType
  <2>3. CASE c[1].do = "patch"
    <3>1. c[1] \in Call /\ c[1].value \in Nat
      <4>1. c[1] \in Call
        BY <1>5 DEF NewSeries
      <4> QED BY <2>3, <4>1 DEF Call
    <3>2. ~IsOverCeiling(TierForValue(c[1].value, desk[s].tiers), desk[s].tab)
      BY <2>3 DEF NewSeries
    <3>3. Accepts(desk[s].tiers, RoleOf[s], c[1].value)
      BY <1>2, <2>1, <2>2, <3>1, <3>2, WithinBand DEF Accepts
    <3> QED BY <1>1, <1>5, <2>1, <2>2, <2>3, <3>3 DEF Within, Does
  <2>4. CASE c[1].do # "patch"
    <3>1. ~IsOverCeiling(TierForValue(est.value, desk[s].tiers), desk[s].tab)
      BY <1>2, <2>2, LadderAssumption, ApprovalAssumption, LastOrderType DEF IsOverCeiling
    <3>2. Accepts(desk[s].tiers, RoleOf[s], est.value)
      BY <1>2, <2>1, <2>2, <3>1, WithinBand DEF Accepts
    <3> QED BY <1>1, <1>5, <2>1, <2>2, <2>4, <3>2 DEF Within, Does
  <2> QED BY <2>3, <2>4
<1>12. CoverInv'
  BY <1>1 DEF ReviewInv, CoverInv
<1>13. AuditInv'
  <2>1. \A t \in Desks : Does(t, "adjust") => Does(t, "adjust")'
    BY <1>1, <1>4 DEF Does, Resting, Busy
  <2> QED BY <1>1, <2>1 DEF ReviewInv, AuditInv
<1> QED BY <1>3, <1>4, <1>8, <1>9, <1>10, <1>11, <1>12, <1>13, OneDesk DEF ReviewInv, DeskInv

\* What is left of a series when its head is answered.
LEMMA Remainder ==
  ASSUME NEW c \in Seq(Call), c # <<>>, Series(c)
  PROVE  /\ Head(c) = c[1] /\ c[1] \in Call /\ Len(c) \in Nat \ {0}
         /\ Tail(c) \in Seq(Call) /\ Series(Tail(c))
         /\ c[1].do \in {"approve", "handback", "back"} => Tail(c) = <<>> /\ Len(c) = 1
         /\ Tail(c) # <<>> =>
              /\ Len(c) > 1 /\ Len(Tail(c)) \in Nat \ {0}
              /\ Head(Tail(c)) = c[2] /\ Tail(c)[Len(Tail(c))] = c[Len(c)]
              /\ c[2].do \in {"adjust", "approve"}
              /\ c[2].do = "adjust" => c[2].to = c[1].margin
         /\ Len(c) > 1 => Tail(c) # <<>>
<1> DEFINE t == Tail(c)
<1>1. /\ t \in Seq(Call) /\ Len(t) = Len(c) - 1 /\ \A i \in 1..Len(t) : t[i] = c[i + 1]
      /\ Len(c) \in Nat \ {0} /\ Head(c) = c[1] /\ c[1] \in Call
  BY HeadTailProperties
<1> HIDE DEF t
<1>2. Series(t)
  <2> SUFFICES ASSUME NEW i \in 1..Len(t)
               PROVE  /\ t[i].do \in {"approve", "handback", "back"} => i = Len(t)
                      /\ t[i].do \in {"patch", "handback", "back"} => i = 1
                      /\ t[i].do = "adjust" => i = 1
    <3> QED BY DEF Series
  <2>1. t[i] = c[i + 1] /\ i + 1 \in 1..Len(c) /\ i + 1 # 1
    BY <1>1
  <2> QED BY <1>1, <2>1 DEF Series
<1>3. c[1].do \in {"approve", "handback", "back"} => t = <<>> /\ Len(c) = 1
  BY <1>1 DEF Series
<1>4. ASSUME t # <<>>
      PROVE  /\ Len(c) > 1 /\ Len(t) \in Nat \ {0} /\ Head(t) = c[2] /\ t[Len(t)] = c[Len(c)]
             /\ c[2].do \in {"adjust", "approve"}
             /\ c[2].do = "adjust" => c[2].to = c[1].margin
  <2>1. Len(t) \in Nat \ {0} /\ Len(c) > 1 /\ 2 \in 1..Len(c)
    BY <1>1, <1>4
  <2>2. c[2] \in Call
    BY <2>1
  <2>3. c[2].do \in {"patch", "adjust", "approve", "handback", "back"}
    BY <2>2 DEF Call
  <2> QED BY <1>1, <2>1, <2>3 DEF Series
<1>5. Len(c) > 1 => t # <<>>
  BY <1>1
<1> QED BY <1>1, <1>2, <1>3, <1>4, <1>5 DEF t

\* An approver whose request is being served.
LEMMA Working ==
  ASSUME ReviewInv, NEW s \in Desks, Busy(s)
  PROVE  /\ desk[s] \in DeskType /\ desk[s].at # "away" /\ est \in EstimateType /\ est.margin \in 0..99
         /\ calls[s] \in Seq(Call) /\ calls[s] # <<>> /\ Series(calls[s]) /\ DeskInv(s)
         /\ \A t \in Desks \ {s} : Resting(t)
  BY OthersRest DEF ReviewInv, ReviewTypeOK, DeskInv, InTurn, Resting, Busy, EstimateType

LEMMA Replied ==
  ASSUME ReviewInv, NEW s \in Desks, Busy(s), NEW e \in EstimateType, Answered(s, e)
  PROVE  /\ desk' \in [Desks -> DeskType] /\ calls' \in [Desks -> Seq(Call)]
         /\ calls'[s] = Tail(calls[s]) /\ UNCHANGED <<form, mishap>>
         /\ \A t \in Desks \ {s} : Resting(t) /\ desk'[t] = desk[t] /\ calls'[t] = calls[t]
         /\ desk'[s].at # "away"
         /\ Tail(calls[s]) # <<>> =>
              desk'[s].item = desk[s].item /\ desk'[s].fresh = e /\ desk'[s].offer = desk[s].offer
         /\ Tail(calls[s]) = <<>> => desk'[s].item = e /\ desk'[s].fresh = Nothing
<1> DEFINE d == desk[s]
           k == IF Tail(calls[s]) # <<>> THEN [d EXCEPT !.fresh = e]
                ELSE [d EXCEPT !.item = e, !.fresh = Nothing, !.offer = {},
                               !.at = IF d.at = "handoff" THEN "handoff" ELSE "queue", !.comp = 0, !.margin = 0]
<1>1. d \in DeskType /\ d.at # "away" /\ \A t \in Desks \ {s} : Resting(t)
  BY Working
<1> DEFINE new == IF Tail(calls[s]) # <<>> THEN [d EXCEPT !.fresh = e]
                  ELSE IF d.at = "away" THEN [d EXCEPT !.fresh = Nothing, !.offer = {}]
                  ELSE [d EXCEPT !.item = e, !.fresh = Nothing, !.offer = {},
                                 !.at = IF d.at = "handoff" THEN "handoff" ELSE "queue", !.comp = 0, !.margin = 0]
<1>2. desk' = [desk EXCEPT ![s] = k] /\ calls' = [calls EXCEPT ![s] = Tail(calls[s])] /\ UNCHANGED <<form, mishap>>
  <2>1. calls' = [calls EXCEPT ![s] = Tail(calls[s])] /\ UNCHANGED <<form, mishap>>
    BY DEF Answered, bounds
  <2>2. desk' = [desk EXCEPT ![s] = new]
    BY DEF Answered
  <2>3. new = k
    BY <1>1
  <2> QED BY <2>1, <2>2, <2>3
<1>3. CASE Tail(calls[s]) # <<>>
  <2>1. k = [d EXCEPT !.fresh = e]
    BY <1>3
  <2> HIDE DEF d, k
  <2>2. k \in DeskType /\ k.at = d.at /\ k.item = d.item /\ k.fresh = e /\ k.offer = d.offer
    BY <1>1, <2>1 DEF DeskType
  <2>3. desk' \in [Desks -> DeskType] /\ calls' \in [Desks -> Seq(Call)]
    BY <1>2, <2>2, Remainder, Working DEF ReviewInv, ReviewTypeOK
  <2> QED BY <1>1, <1>2, <1>3, <2>2, <2>3 DEF ReviewInv, ReviewTypeOK, d
<1>4. CASE Tail(calls[s]) = <<>>
  <2> DEFINE at == IF d.at = "handoff" THEN "handoff" ELSE "queue"
  <2>1. at \in At \ {"away"} /\ 0 \in 0..100 /\ 0 \in 0..99
    BY DEF At
  <2>2. k = [d EXCEPT !.item = e, !.fresh = Nothing, !.offer = {}, !.at = at, !.comp = 0, !.margin = 0]
    BY <1>4
  <2> HIDE DEF d, k, at
  <2>3. k \in DeskType /\ k.at # "away" /\ k.item = e /\ k.fresh = Nothing
    BY <1>1, <2>1, <2>2 DEF DeskType
  <2>4. desk' \in [Desks -> DeskType] /\ calls' \in [Desks -> Seq(Call)]
    BY <1>2, <2>3, Remainder, Working DEF ReviewInv, ReviewTypeOK
  <2> QED BY <1>1, <1>2, <1>4, <2>3, <2>4 DEF ReviewInv, ReviewTypeOK, d
<1> QED BY <1>3, <1>4

LEMMA Dropped ==
  ASSUME ReviewInv, NEW s \in Desks, Busy(s), Thrown(s)
  PROVE  /\ desk' \in [Desks -> DeskType] /\ calls' \in [Desks -> Seq(Call)]
         /\ calls'[s] = <<>> /\ desk'[s].fresh = Nothing
         /\ desk'[s].at = desk[s].at /\ desk'[s].item = desk[s].item
         /\ \A t \in Desks \ {s} : Resting(t) /\ desk'[t] = desk[t] /\ calls'[t] = calls[t]
<1> DEFINE k == [desk[s] EXCEPT !.fresh = Nothing, !.offer = {}]
<1>1. desk[s] \in DeskType /\ \A t \in Desks \ {s} : Resting(t)
  BY Working
<1>2. desk' = [desk EXCEPT ![s] = k] /\ calls' = [calls EXCEPT ![s] = <<>>]
  BY <1>1 DEF Thrown, ReviewInv, ReviewTypeOK
<1>3. k \in DeskType /\ k.fresh = Nothing /\ k.at = desk[s].at /\ k.item = desk[s].item
  BY <1>1 DEF DeskType
<1> HIDE DEF k
<1>4. <<>> \in Seq(Call)
  OBVIOUS
<1> QED BY <1>1, <1>2, <1>3, <1>4 DEF ReviewInv, ReviewTypeOK

\* The value and the margin are stored: what was offered is now what the estimate is worth,
\* and the row of a margin that moved is the next request.
LEMMA PatchKeeps ==
  ASSUME ReviewInv, NEW s \in Desks, ServePatch(s)
  PROVE  ReviewInv'
<1> DEFINE c == calls[s]
<1>1. Busy(s) /\ Does(s, "patch") /\ c[1].do = "patch" /\ Head(c) = c[1]
  BY Working, Remainder DEF ServePatch, Does
<1>2. /\ desk[s] \in DeskType /\ desk[s].at # "away" /\ est \in EstimateType /\ DeskInv(s)
      /\ \A t \in Desks \ {s} : Resting(t)
  BY <1>1, Working
<1>3. /\ c[1] \in Call
      /\ Tail(c) # <<>> =>
           /\ Len(c) > 1 /\ Head(Tail(c)) = c[2] /\ Tail(c)[Len(Tail(c))] = c[Len(c)]
           /\ c[2].do \in {"adjust", "approve"}
           /\ c[2].do = "adjust" => c[2].to = c[1].margin
      /\ Len(c) > 1 => Tail(c) # <<>>
      /\ Series(Tail(c))
  BY <1>1, Working, Remainder
<1>4. c[1].value \in Nat /\ c[1].margin \in 0..99
  BY <1>1, <1>3 DEF Call
<1>5. /\ est' = [est EXCEPT !.value = c[1].value, !.margin = c[1].margin]
      /\ UNCHANGED <<ladder, trail, covered>>
  BY <1>1 DEF ServePatch
<1>6. est' \in EstimateType /\ est'.status = est.status /\ est'.value = c[1].value /\ est'.margin = c[1].margin
  BY <1>2, <1>4, <1>5 DEF EstimateType
<1>7. /\ desk' \in [Desks -> DeskType] /\ calls' \in [Desks -> Seq(Call)]
      /\ calls'[s] = Tail(c) /\ UNCHANGED <<form, mishap>>
      /\ \A t \in Desks \ {s} : Resting(t) /\ desk'[t] = desk[t] /\ calls'[t] = calls[t]
      /\ desk'[s].at # "away"
      /\ Tail(c) # <<>> =>
           desk'[s].item = desk[s].item /\ desk'[s].fresh = est' /\ desk'[s].offer = desk[s].offer
      /\ Tail(c) = <<>> => desk'[s].item = est' /\ desk'[s].fresh = Nothing
  BY <1>1, <1>6, Replied DEF ServePatch
<1>8. est' # Nothing
  BY <1>6 DEF EstimateType, Nothing, None
<1>9. desk[s].item.status = "pending_approval" /\ mishap # "lost" => est.status = "pending_approval"
  BY <1>2 DEF DeskInv, Timely
<1>10. desk[s].item.status = "pending_approval"
  BY <1>1, <1>2 DEF DeskInv, InTurn
<1> HIDE DEF c
<1>11. ReviewTypeOK'
  BY <1>5, <1>6, <1>7 DEF ReviewInv, ReviewTypeOK
<1>12. InTurn(s)'
  BY <1>3, <1>7, <1>8, <1>10 DEF InTurn, Does, Busy
<1>13. Timely(s)'
  BY <1>3, <1>6, <1>7, <1>9 DEF Timely, Checked, Busy
<1>14. Follows(s)'
  BY <1>3, <1>6, <1>7, <1>8 DEF Follows, Does, Busy
<1>15. Within(s)'
  <2> SUFFICES ASSUME Tail(c) # <<>>, c[Len(c)].do = "approve", desk[s].offer # {} PROVE Within(s)'
    BY <1>3, <1>7 DEF Within, Busy
  <2>1. /\ est.status = "pending_approval"
        /\ \A tiers \in desk[s].offer : Accepts(tiers, RoleOf[s], c[1].value)
    BY <1>1, <1>2 DEF DeskInv, Within, c
  <2>2. ~Does(s, "patch")'
    BY <1>3, <1>7 DEF Does, Busy
  <2>3. est'.status = "pending_approval" /\ \A tiers \in desk'[s].offer : Accepts(tiers, RoleOf[s], est'.value)
    BY <1>6, <1>7, <2>1
  <2> QED BY <2>2, <2>3 DEF Within
<1>16. CoverInv'
  BY <1>6, <1>7, <1>9, <1>10 DEF CoverInv
<1>17. AuditInv'
  <2> SUFFICES ASSUME mishap = None, trail # <<>> PROVE AuditInv'
    BY <1>5, <1>7 DEF AuditInv
  <2>1. \A t \in Desks : ~Does(t, "adjust")
    BY <1>1, <1>2 DEF Does, Resting
  <2>2. trail[Len(trail)].to = est.margin
    BY <2>1 DEF ReviewInv, AuditInv
  <2>3. CASE est'.margin = est.margin
    BY <1>5, <2>2, <2>3 DEF AuditInv
  <2>4. CASE est'.margin # est.margin
    <3>1. Len(c) > 1 /\ c[2].do = "adjust"
      BY <1>1, <1>2, <1>6, <2>4 DEF DeskInv, Follows, c
    <3>2. Does(s, "adjust")'
      BY <1>3, <1>7, <3>1 DEF Does, Busy
    <3> QED BY <3>2 DEF AuditInv
  <2> QED BY <2>3, <2>4
<1> QED BY <1>7, <1>11, <1>12, <1>13, <1>14, <1>15, <1>16, <1>17, OneDesk DEF ReviewInv, DeskInv

\* The row of the margin.
LEMMA AdjustKeeps ==
  ASSUME ReviewInv, NEW s \in Desks, ServeAdjust(s)
  PROVE  ReviewInv'
<1> DEFINE c == calls[s]
<1>1. Busy(s) /\ Does(s, "adjust") /\ c[1].do = "adjust" /\ Head(c) = c[1]
  BY Working, Remainder DEF ServeAdjust, Does
<1>2. /\ desk[s] \in DeskType /\ desk[s].at # "away" /\ est \in EstimateType /\ DeskInv(s)
      /\ \A t \in Desks \ {s} : Resting(t)
  BY <1>1, Working
<1>3. /\ c[1] \in Call
      /\ Tail(c) # <<>> =>
           Head(Tail(c)) = c[2] /\ Tail(c)[Len(Tail(c))] = c[Len(c)] /\ c[2].do \in {"adjust", "approve"}
      /\ Series(c) /\ Series(Tail(c))
  BY <1>1, Working, Remainder
<1>4. c[1].from \in 0..99 /\ c[1].to \in 0..99
  BY <1>1, <1>3 DEF Call
<1>5. desk[s].fresh \in EstimateType /\ desk[s].fresh # Nothing /\ desk[s].item.status = "pending_approval"
  BY <1>1, <1>2 DEF DeskInv, InTurn, DeskType
<1>6. /\ UNCHANGED <<est, ladder, covered>>
      /\ trail' = Append(trail, [from |-> c[1].from, to |-> c[1].to])
  BY <1>1 DEF ServeAdjust
<1>7. trail' \in Lines /\ trail'[Len(trail')].to = c[1].to
  BY <1>4, <1>6, AppendProperties DEF ReviewInv, ReviewTypeOK, Lines
<1>8. /\ desk' \in [Desks -> DeskType] /\ calls' \in [Desks -> Seq(Call)]
      /\ calls'[s] = Tail(c) /\ UNCHANGED <<form, mishap>>
      /\ \A t \in Desks \ {s} : Resting(t) /\ desk'[t] = desk[t] /\ calls'[t] = calls[t]
      /\ desk'[s].at # "away"
      /\ Tail(c) # <<>> =>
           desk'[s].item = desk[s].item /\ desk'[s].fresh = desk[s].fresh /\ desk'[s].offer = desk[s].offer
      /\ Tail(c) = <<>> => desk'[s].item = desk[s].fresh /\ desk'[s].fresh = Nothing
  BY <1>1, <1>5, Replied DEF ServeAdjust
<1>9. Tail(c) # <<>> => c[2].do = "approve"
  <2>1. ASSUME Tail(c) # <<>>, c[2].do = "adjust" PROVE FALSE
    BY <1>1, <1>3, <2>1, Working, Remainder DEF Series
  <2> QED BY <1>3, <2>1
<1>10. mishap # "lost" => est.status = "pending_approval"
  BY <1>2, <1>5 DEF DeskInv, Timely
<1>11. mishap = None => desk[s].fresh.margin = est.margin /\ c[1].to = est.margin
  BY <1>1, <1>2, <1>5 DEF DeskInv, Follows
<1>12. c[Len(c)].do = "approve" /\ desk[s].offer # {} =>
         est.status = "pending_approval" /\ \A tiers \in desk[s].offer : Accepts(tiers, RoleOf[s], est.value)
  BY <1>1, <1>2 DEF DeskInv, Within, Does
<1> HIDE DEF c
<1>13. ReviewTypeOK'
  BY <1>6, <1>7, <1>8 DEF ReviewInv, ReviewTypeOK
<1>14. InTurn(s)'
  BY <1>3, <1>5, <1>8, <1>9 DEF InTurn, Does, Busy
<1>15. Timely(s)'
  BY <1>3, <1>6, <1>8, <1>9, <1>10 DEF Timely, Checked, Busy
<1>16. Follows(s)'
  BY <1>3, <1>5, <1>6, <1>8, <1>9, <1>11 DEF Follows, Does, Busy
<1>17. Within(s)'
  BY <1>3, <1>6, <1>8, <1>9, <1>12 DEF Within, Does, Busy
<1>18. CoverInv'
  BY <1>6, <1>8 DEF ReviewInv, CoverInv
<1>19. AuditInv'
  BY <1>6, <1>7, <1>8, <1>11 DEF AuditInv
<1> QED BY <1>8, <1>13, <1>14, <1>15, <1>16, <1>17, <1>18, <1>19, OneDesk DEF ReviewInv, DeskInv

\* The authority is checked: what is handed back next is covered.
LEMMA CheckKeeps ==
  ASSUME ReviewInv, NEW s \in Desks, CheckAuthority(s)
  PROVE  ReviewInv'
<1> DEFINE c == calls[s]
           b == <<[do |-> "handback"]>>
<1>1. Busy(s) /\ c[1].do = "approve" /\ Tail(c) = <<>>
  BY Working, Remainder DEF CheckAuthority
<1>2. /\ desk[s] \in DeskType /\ desk[s].at # "away" /\ DeskInv(s)
      /\ \A t \in Desks \ {s} : Resting(t)
  BY <1>1, Working
<1>3. /\ UNCHANGED <<est, ladder, trail, desk, form, mishap>> /\ covered' = ServerCeiling(RoleOf[s])
      /\ Covers(covered', est.value) /\ est.status \in Approvable
  BY DEF CheckAuthority, Permitted, bounds
<1>4. b \in Seq(Call) /\ Len(b) = 1 /\ Head(b).do = "handback" /\ b[1].do = "handback"
  BY DEF Call
<1>5. calls' = [calls EXCEPT ![s] = b]
  <2>1. calls' = [calls EXCEPT ![s] = b \o Tail(c)]
    BY DEF CheckAuthority
  <2>2. b \o <<>> = b
    <3> HIDE DEF b
    <3> QED BY <1>4, ConcatEmptySeq
  <2> QED BY <1>1, <2>1, <2>2
<1> HIDE DEF b, c
<1>6. calls'[s] = b /\ \A t \in Desks \ {s} : Resting(t) /\ desk'[t] = desk[t] /\ calls'[t] = calls[t]
  BY <1>2, <1>3, <1>5 DEF ReviewInv, ReviewTypeOK
<1>7. ReviewTypeOK'
  <2>1. covered' \in Ceilings
    BY <1>3, Ceiling, ApprovalAssumption DEF ReviewInv, ReviewTypeOK
  <2> QED BY <1>3, <1>4, <1>5, <2>1 DEF ReviewInv, ReviewTypeOK
<1>8. Series(b) /\ b # <<>>
  BY <1>4 DEF Series
<1>9. DeskInv(s)'
  BY <1>1, <1>2, <1>3, <1>4, <1>6, <1>8 DEF DeskInv, InTurn, Timely, Follows, Within, Does, Busy, Checked
<1>10. CoverInv'
  BY <1>3 DEF CoverInv, Approvable
<1>11. AuditInv'
  <2>1. \A t \in Desks : Does(t, "adjust") => Does(t, "adjust")'
    BY <1>1, <1>2, Working, Remainder DEF Does, Resting, c
  <2> QED BY <1>3, <2>1 DEF ReviewInv, AuditInv
<1> QED BY <1>6, <1>7, <1>9, <1>10, <1>11, OneDesk DEF ReviewInv

\* The status is written, or the estimate is sent back: the last request of a series.
LEMMA StatusKeeps ==
  ASSUME ReviewInv, NEW s \in Desks, HandBack(s) \/ ServeBack(s)
  PROVE  ReviewInv'
<1> DEFINE c == calls[s]
<1>1. Busy(s) /\ Head(c).do \in {"handback", "back"} /\ Head(c) = c[1] /\ Tail(c) = <<>>
  <2>1. Busy(s) /\ Head(c).do \in {"handback", "back"}
    BY DEF HandBack, ServeBack
  <2> QED BY <2>1, Working, Remainder
<1>2. /\ est \in EstimateType /\ DeskInv(s) /\ \A t \in Desks \ {s} : Resting(t)
  BY <1>1, Working
<1>3. /\ UNCHANGED <<ladder, trail, covered>> /\ Answered(s, est')
      /\ est' \in EstimateType /\ est'.value = est.value /\ est'.margin = est.margin
      /\ est'.status = IF Head(c).do = "handback" THEN "handed_back" ELSE "in_progress"
  BY <1>2 DEF HandBack, ServeBack, EstimateType
<1>4. /\ desk' \in [Desks -> DeskType] /\ calls' \in [Desks -> Seq(Call)]
      /\ calls'[s] = <<>> /\ UNCHANGED <<form, mishap>>
      /\ \A t \in Desks \ {s} : Resting(t) /\ desk'[t] = desk[t] /\ calls'[t] = calls[t]
      /\ desk'[s].at # "away" /\ desk'[s].item = est' /\ desk'[s].fresh = Nothing
  BY <1>1, <1>3, Replied
<1> HIDE DEF c
<1>5. ReviewTypeOK'
  BY <1>3, <1>4 DEF ReviewInv, ReviewTypeOK
<1>6. DeskInv(s)'
  <2>1. Series(calls'[s])
    BY <1>4 DEF Series
  <2> QED BY <1>4, <2>1 DEF DeskInv, InTurn, Timely, Follows, Within, Does, Busy, Checked
<1>7. CoverInv'
  BY <1>1, <1>2, <1>3, <1>4 DEF CoverInv, DeskInv, Timely, Checked, c
<1>8. AuditInv'
  <2>1. \A t \in Desks : ~Does(t, "adjust")
    BY <1>1, <1>2 DEF Does, Resting, c
  <2> QED BY <1>3, <1>4, <2>1 DEF ReviewInv, AuditInv
<1> QED BY <1>4, <1>5, <1>6, <1>7, <1>8, OneDesk DEF ReviewInv

\* A handler stops: refused, cut off, or its answer lost.
LEMMA ThrownKeeps ==
  ASSUME ReviewInv, NEW s \in Desks, Refuse(s) \/ RefuseBack(s) \/ Unreached(s) \/ AnswerLost(s)
  PROVE  ReviewInv'
<1> DEFINE c == calls[s]
<1>1. Busy(s) /\ Thrown(s) /\ UNCHANGED <<ladder, trail, covered, form>>
  BY DEF Refuse, RefuseBack, Unreached, AnswerLost, database
<1>2. /\ est \in EstimateType /\ DeskInv(s) /\ desk[s].at # "away" /\ \A t \in Desks \ {s} : Resting(t)
  BY <1>1, Working
<1>3. /\ desk' \in [Desks -> DeskType] /\ calls' \in [Desks -> Seq(Call)]
      /\ calls'[s] = <<>> /\ desk'[s].fresh = Nothing
      /\ desk'[s].at = desk[s].at /\ desk'[s].item = desk[s].item
      /\ \A t \in Desks \ {s} : Resting(t) /\ desk'[t] = desk[t] /\ calls'[t] = calls[t]
  BY <1>1, Dropped
<1>4. /\ est' \in EstimateType /\ mishap' \in {None, "cut", "lost"}
      /\ mishap' # "lost" => mishap # "lost" /\ est' = est
      /\ mishap' = None => mishap = None /\ est' = est /\ Head(c).do = "back"
  BY <1>2 DEF Refuse, RefuseBack, Unreached, AnswerLost, database, bounds, EstimateType, None, ReviewInv, ReviewTypeOK
<1>5. ReviewTypeOK'
  BY <1>1, <1>3, <1>4 DEF ReviewInv, ReviewTypeOK
<1>6. DeskInv(s)'
  <2>1. Series(calls'[s])
    BY <1>3 DEF Series
  <2>2. mishap' = None => desk[s].fresh = Nothing
    BY <1>1, <1>2, <1>4 DEF DeskInv, InTurn, Does
  <2> QED BY <1>2, <1>3, <1>4, <2>1, <2>2
        DEF DeskInv, InTurn, Timely, Follows, Within, Does, Busy, Checked
<1>7. CoverInv'
  BY <1>1, <1>4 DEF ReviewInv, CoverInv
<1>8. AuditInv'
  <2>1. mishap' = None => \A t \in Desks : ~Does(t, "adjust")
    BY <1>2, <1>4 DEF Does, Resting
  <2> QED BY <1>1, <1>4, <2>1 DEF ReviewInv, AuditInv
<1> QED BY <1>3, <1>5, <1>6, <1>7, <1>8, OneDesk DEF ReviewInv

\* The estimator, and the administrator's form.
LEMMA OthersKeep ==
  ASSUME ~Overlap, ReviewInv, Others
  PROVE  ReviewInv'
<1>1. est \in EstimateType /\ ladder \in [Types -> Tiers]
  BY DEF ReviewInv, ReviewTypeOK
<1>2. ASSUME UNCHANGED <<trail, covered, desk, calls, mishap>>, est' \in EstimateType, est'.margin = est.margin,
             est' = est \/ (est.status = "in_progress" /\ est'.status # "handed_back"),
             est'.value = est.value \/ \A s \in Desks : ~Checked(s),
             ladder' \in [Types -> Tiers], form' \subseteq Types \X Roles \X Nat
      PROVE  ReviewInv'
  <2>1. ReviewTypeOK'
    BY <1>2 DEF ReviewInv, ReviewTypeOK
  <2>2. OneAtWork'
    BY <1>2 DEF ReviewInv, OneAtWork, Resting, Busy
  <2>3. ASSUME NEW s \in Desks PROVE DeskInv(s)'
    <3>1. DeskInv(s)
      BY DEF ReviewInv
    <3>2. InTurn(s)'
      BY <1>2, <3>1 DEF DeskInv, InTurn, Does, Busy
    <3>3. Timely(s)'
      BY <1>2, <3>1 DEF DeskInv, Timely, Checked, Busy
    <3>4. Follows(s)'
      BY <1>2, <3>1 DEF DeskInv, Follows, Does, Busy
    <3>5. Within(s)'
      BY <1>2, <3>1 DEF DeskInv, Within, Does, Busy
    <3> QED BY <3>2, <3>3, <3>4, <3>5 DEF DeskInv
  <2>4. CoverInv' /\ AuditInv'
    BY <1>2 DEF ReviewInv, CoverInv, AuditInv, Does, Busy
  <2> QED BY <2>1, <2>2, <2>3, <2>4 DEF ReviewInv
<1>3. ASSUME NEW v \in Prices, NEW c \in Complexities, Rework(v, c) PROVE ReviewInv'
  <2>1. v \in Nat /\ c \in 0..100
    BY ApprovalAssumption
  <2>2. est' \in EstimateType /\ est'.margin = est.margin /\ est.status = "in_progress" /\ est'.status = est.status
    BY <1>1, <1>3, <2>1 DEF Rework, EstimateType
  <2>3. /\ UNCHANGED <<ladder, trail, covered, desk, calls, form, mishap>>
        /\ \A s \in Desks : ~Checked(s)
    BY <1>3 DEF Rework
  <2>4. form' \subseteq Types \X Roles \X Nat
    BY <2>3 DEF ReviewInv, ReviewTypeOK
  <2> QED BY <1>1, <1>2, <2>2, <2>3, <2>4
<1>4. CASE Submit
  BY <1>1, <1>2, <1>4 DEF Submit, EstimateType, ReviewInv, ReviewTypeOK, bounds
<1>5. ASSUME NEW r \in Roles, NEW a \in Amounts, SaveCeiling(r, a) PROVE ReviewInv'
  <2>1. UNCHANGED <<est, ladder, trail, covered, desk, calls, mishap>> /\ form' = form \cup {<<t, r, a>> : t \in Types}
    BY <1>5 DEF SaveCeiling, database
  <2>2. form' \subseteq Types \X Roles \X Nat
    BY <2>1, ApprovalAssumption DEF ReviewInv, ReviewTypeOK
  <2>3. UNCHANGED <<trail, covered, desk, calls, mishap>> /\ ladder' \in [Types -> Tiers]
    BY <1>1, <2>1
  <2>4. /\ est' \in EstimateType /\ est'.margin = est.margin
        /\ est' = est \/ (est.status = "in_progress" /\ est'.status # "handed_back")
        /\ est'.value = est.value \/ \A s \in Desks : ~Checked(s)
    BY <1>1, <2>1
  <2> QED BY <1>2, <2>2, <2>3, <2>4
<1>6. ASSUME NEW p \in form, PatchTier(p) \/ PatchTierFails(p) PROVE ReviewInv'
  <2>1. p[1] \in Types /\ p[2] \in Roles /\ p[3] \in Nat /\ form' \subseteq Types \X Roles \X Nat
    BY <1>6 DEF ReviewInv, ReviewTypeOK, PatchTier, PatchTierFails
  <2>2. ladder' \in [Types -> Tiers]
    BY <1>1, <1>6, <2>1 DEF PatchTier, PatchTierFails, database, Tiers, Ceilings
  <2>3. UNCHANGED <<trail, covered, desk, calls, mishap>>
    BY <1>6 DEF PatchTier, PatchTierFails, database, bounds
  <2>4. /\ est' \in EstimateType /\ est'.margin = est.margin
        /\ est' = est \/ (est.status = "in_progress" /\ est'.status # "handed_back")
        /\ est'.value = est.value \/ \A s \in Desks : ~Checked(s)
    BY <1>1, <1>6 DEF PatchTier, PatchTierFails, database
  <2> QED BY <1>2, <2>1, <2>2, <2>3, <2>4
<1> QED BY <1>3, <1>4, <1>5, <1>6 DEF Others

LEMMA ReviewInit == ASSUME Init PROVE ReviewInv
<1>1. Away \in DeskType /\ Away.at = "away" /\ Away.fresh = Nothing
  BY AwayType
<1>2. /\ est = Drafted /\ ladder = [t \in Types |-> SeedCeiling] /\ trail = <<>> /\ form = {}
      /\ desk = [s \in Desks |-> Away] /\ calls = [s \in Desks |-> <<>>]
      /\ covered = Unbounded /\ mishap = None
  BY DEF Init
<1>3. ReviewTypeOK
  <2>1. <<>> \in Seq(Call) /\ <<>> \in Lines
    BY DEF Lines
  <2> QED BY <1>1, <1>2, <2>1, ApprovalAssumption DEF ReviewTypeOK, Ceilings
<1>4. \A s \in Desks : Resting(s)
  BY <1>1, <1>2 DEF Resting, Busy
<1>5. ASSUME NEW s \in Desks PROVE DeskInv(s)
  <2>1. Series(calls[s])
    BY <1>2 DEF Series
  <2> QED BY <1>1, <1>2, <2>1 DEF DeskInv, InTurn, Timely, Follows, Within, Does, Busy, Checked
<1>6. CoverInv /\ AuditInv
  BY <1>2, ApprovalAssumption DEF CoverInv, AuditInv
<1> QED BY <1>3, <1>4, <1>5, <1>6 DEF ReviewInv, OneAtWork

LEMMA ReviewStep == ASSUME ~Overlap, ReviewInv, [Next]_vars PROVE ReviewInv'
<1>1. CASE Others
  BY <1>1, OthersKeep
<1>2. ASSUME NEW s \in Desks, Screen(s) PROVE ReviewInv'
  <2>1. CASE View(s)
    BY <2>1, Viewing, ViewKeeps
  <2>2. CASE ApproveCard(s) \/ Primary(s) \/ SendBack(s) \/ ApproveHandoff(s)
    <3>1. \E c : NewSeries(s, c) /\ Send(s, c)
      BY <2>2, Sending DEF ReviewInv
    <3> QED BY <3>1, SendKeeps
  <2> QED BY <1>2, <2>1, <2>2 DEF Screen, View
<1>3. ASSUME NEW s \in Desks, Serve(s) PROVE ReviewInv'
  BY <1>3, PatchKeeps, AdjustKeeps, CheckKeeps, StatusKeeps, ThrownKeeps DEF Serve
<1>4. CASE UNCHANGED vars
  BY <1>4 DEF vars, database, bounds, ReviewInv, ReviewTypeOK, OneAtWork, Resting, DeskInv, InTurn, Timely,
              Follows, Within, CoverInv, AuditInv, Does, Busy, Checked
<1> QED BY <1>1, <1>2, <1>3, <1>4 DEF Next

\* The rules of an approval hold in every reachable state.
THEOREM ReviewHolds == ASSUME ~Overlap PROVE Spec => []ReviewInv
<1>1. Init => ReviewInv
  BY ReviewInit
<1>2. ReviewInv /\ [Next]_vars => ReviewInv'
  BY ReviewStep
<1> QED BY <1>1, <1>2, PTL DEF Spec

\* "A manager cannot approve a >$100k estimate": whatever the levers did, in however many
\* series of requests cut off anywhere, the value handed back is one the ceiling of its
\* approver covered.
THEOREM ApprovalsAreCovered == ASSUME ~Overlap PROVE Spec => []ApprovedValueIsCovered
<1>1. ReviewInv => ApprovedValueIsCovered
  BY DEF ReviewInv, CoverInv, ApprovedValueIsCovered
<1> QED BY <1>1, ReviewHolds, PTL

\* "Every change persists a from/to row": where no request failed, the target margin is the
\* one of the last audit row.
THEOREM MarginsAreAudited == ASSUME ~Overlap PROVE Spec => []MarginIsAudited
<1>1. ReviewInv => MarginIsAudited
  BY DEF ReviewInv, AuditInv, MarginIsAudited, Idle, Does
<1> QED BY <1>1, ReviewHolds, PTL

\* The queue leads on: an approver at the own tab, with the ladder and the estimate as they
\* are, is not refused; and a pending estimate is in some tab if the bands leave no gap.
THEOREM QueueLeads == ASSUME ~Overlap PROVE Spec => QueueLeadsOn
<1>1. ReviewInv => OfferAccepted
  <2> SUFFICES ASSUME ReviewInv, NEW s \in Desks, Refuse(s), EveryValueHasTier(ladder[Type]),
                      ladder[Type] \in desk[s].offer, est.status \in Approvable
               PROVE  FALSE
    BY DEF OfferAccepted
  <2> DEFINE c == calls[s]
  <2>1. Busy(s) /\ Head(c).do = "approve" /\ ~Permitted(s)
    BY DEF Refuse
  <2>2. Head(c) = c[1] /\ Len(c) = 1
    BY <2>1, Working, Remainder
  <2>3. Accepts(ladder[Type], RoleOf[s], est.value)
    BY <2>1, <2>2 DEF ReviewInv, DeskInv, Within, Does
  <2>4. /\ ladder \in [Types -> Tiers] /\ RoleOf[s] \in Roles /\ est.value \in Nat
    BY ApprovalAssumption DEF ReviewInv, ReviewTypeOK, EstimateType
  <2>5. Covers(ServerCeiling(RoleOf[s]), est.value)
    BY <2>3, <2>4, ServerAllows DEF Accepts
  <2> QED BY <2>1, <2>5 DEF Permitted
<1>2. ReviewInv => SomeTabShowsIt
  BY SomeTab, ApprovalAssumption DEF ReviewInv, ReviewTypeOK, EstimateType, SomeTabShowsIt
<1> QED BY <1>1, <1>2, ReviewHolds, PTL DEF QueueLeadsOn

-----------------------------------------------------------------------------
(* Asking for an estimate                                                    *)

Kinds == {"property_map", "rfp", "other"}
Step == {"sent", "numbered", "stored", "filed", "tracked", "created", "uploading", "done", "refused", "died"}
File == [kind : FileKinds, file : {"good", "wrong"}]
Draft == Asking!TextOf(type)

PageType ==
  [open : BOOLEAN, prop : Asking!Known \cup {Blank}, lead : Leads \cup {Blank}, settled : BOOLEAN, loaded : BOOLEAN,
   text : Draft, files : [FileKinds -> {"none", "good", "wrong"}], draft : Nat]

\* The lead that a settled form shows is the one of its property: only the lookup of that one counts.
LeadInv ==
  /\ lookups \in [Asking!Known -> {"no", "live", "cancelled"}]
  /\ \A q \in Asking!Known : lookups[q] = "live" => page.prop = q
  /\ type = "maintenance" /\ page.settled => page.lead = LeadOf[page.prop]

\* How far an estimate has come, and what of it is stored.
Pieces(step) ==
  CASE step \in {"sent", "numbered", "refused"} -> {{}}
    [] step = "stored" -> {{"estimate"}}
    [] step = "filed" -> {{"estimate", "intake"}}
    [] step = "tracked" -> {{"estimate", "intake", "project"}}
    [] step = "died" -> {{}, {"estimate"}, {"estimate", "intake"}, {"estimate", "intake", "project"}}
    [] OTHER -> {{"estimate", "intake", "project"}, {"estimate", "intake", "project", "lead"}}

Distinct(files) == \A i, j \in DOMAIN files : files[i].kind = files[j].kind => i = j

Body ==
  [prop : Asking!Known \cup {Blank}, lead : Leads \cup {Blank}, files : Seq(File), due : Int, local : {-1, 0}]
\* Its number is whatever the server read.
Record(number) ==
  [step : Step, body : Body, number : {number}, has : SUBSET {"estimate", "intake", "project", "lead"},
   rows : [FileKinds -> {"none", "pending", "stored"}]]

Whole(r) ==
  /\ r \in Record(r.number) /\ r.has \in Pieces(r.step) /\ Distinct(r.body.files)
  /\ r.step \notin {"uploading"} => \A k \in FileKinds : r.rows[k] = "none"
  /\ r.step \in {"created", "uploading", "done"} /\ r.body.lead # Blank => "lead" \in r.has

\* What is left to upload is the end of the list, and what was acceptable before it is there.
Uploading(r) ==
  LET n == Len(r.body.files) - Len(run.todo) IN
    /\ n \in Nat /\ \A i \in DOMAIN run.todo : run.todo[i] = r.body.files[n + i]
    /\ faults = 0 =>
         /\ \A i \in DOMAIN r.body.files : r.rows[r.body.files[i].kind] = "stored" <=> i <= n /\ r.body.files[i].file = "good"
         /\ \A k \in FileKinds : r.rows[k] = "stored" => \E i \in DOMAIN r.body.files : r.body.files[i].kind = k

Attempts == 1..MaxCreates[type]
Stored(c) == creates[c] # Asking!NotSent /\ "estimate" \in creates[c].has

CreateInv ==
  /\ creates = [c \in Attempts |-> creates[c]]
  /\ \A c \in Attempts : creates[c] # Asking!NotSent => Whole(creates[c])
  /\ \A c, d \in Attempts : c # d /\ Stored(c) /\ Stored(d) => creates[c].number # creates[d].number
  /\ run = [of |-> run.of, draft |-> run.draft, todo |-> run.todo] /\ run.todo \in Seq(File)
  /\ faults \in Nat
  /\ Asking!Busy => run.of \in Attempts /\ creates[run.of] # Asking!NotSent
  /\ Asking!Busy /\ creates[run.of].step = "uploading" => Uploading(creates[run.of])

Wire(x) ==
  /\ x \in [op : {"list", "save", "delete"}, id : Nat, text : Draft \cup {Blank}, done : BOOLEAN, heard : {TRUE}, n : {x.n}]
  /\ x.op = "save" \/ (x.op = "list" /\ x.id # 0) => x.text \in Draft

Live == {d \in DOMAIN drafts : drafts[d] # Blank}
\* The draft saved last is the one there is; the form works on it.
Agrees == IF last = Blank THEN Live = {} ELSE \E d \in DOMAIN drafts : Live = {d} /\ drafts[d] = last
WorksOn == Live = IF page.draft = 0 THEN {} ELSE {page.draft}
DraftKnown == page.draft # 0 => page.draft \in Live

AskedFor(x) ==
  /\ x.op = "list" => /\ Agrees /\ DraftKnown /\ page.open
                      /\ IF x.done /\ Live # {} THEN Live = {x.id} /\ x.text = drafts[x.id] ELSE x.id = 0
  /\ x.op = "save" => /\ page.open
                      /\ IF x.done THEN Live = {x.id} /\ drafts[x.id] = x.text ELSE x.id = page.draft /\ WorksOn
  /\ x.op = "delete" => ~x.done /\ last = Blank /\ Live = {x.id} /\ page.draft = 0

DraftInv ==
  /\ drafts \in Seq(Draft \cup {Blank}) /\ \A x \in wires : Wire(x)
  /\ type # "install" => drafts = <<>> /\ wires = {} /\ page.draft = 0 /\ last = Blank
  /\ Asking!Busy => wires = {} /\ page.open /\ run.draft = page.draft
  /\ ~spoilt =>
       /\ wires = {} => Agrees /\ DraftKnown /\ (page.open => WorksOn)
       /\ \A x \in wires : wires = {x} /\ AskedFor(x)

AskInv == type \in {"maintenance", "install"} /\ page \in PageType /\ LeadInv /\ CreateInv /\ DraftInv

LEMMA AskAssumed ==
  /\ Fresh \notin Properties /\ Blank \notin Asking!Texts /\ Deadlines \subseteq Int
  /\ LeadOf \in [Asking!Known -> Leads \cup {Blank}]
  /\ Window \in Nat \ {0} /\ Fallback \in Nat \ {0} /\ FileKinds \subseteq Kinds
  BY OfficeAssumption DEF Asking!IntakeAssumption, Asking!Known, Kinds

\* A draft is no blank.
LEMMA DraftIsText == ASSUME type \in {"maintenance", "install"} PROVE Blank \notin Draft
  BY AskAssumed DEF Draft, Asking!Texts

\* What a change of the fields leaves alone.
FieldStep ==
  /\ UNCHANGED <<type, run, creates, drafts, wires, last, spoilt, faults>>
  /\ page' \in PageType /\ page'.open = page.open /\ page'.draft = page.draft

LEMMA FieldKeeps ==
  ASSUME AskInv, FieldStep
  PROVE  CreateInv' /\ DraftInv' /\ PageType' = PageType /\ type' \in {"maintenance", "install"}
<1>1. Draft' = Draft /\ Attempts' = Attempts /\ PageType' = PageType
  BY DEF FieldStep, Draft, Attempts, PageType
<1>2. Live' = Live /\ Agrees' = Agrees /\ WorksOn' = WorksOn /\ DraftKnown' = DraftKnown
  BY DEF FieldStep, Live, Agrees, WorksOn, DraftKnown
<1>3. CreateInv'
  BY <1>1 DEF AskInv, FieldStep, CreateInv, Stored, Uploading, Asking!Busy
<1>4. DraftInv'
  BY <1>1, <1>2 DEF AskInv, FieldStep, DraftInv, Wire, AskedFor, Asking!Busy
<1> QED BY <1>1, <1>3, <1>4 DEF AskInv, FieldStep

\* A text with one section, the deadline or the lead changed.
LEMMA Retyped ==
  ASSUME page \in PageType
  PROVE  /\ \A s \in Asking!Sections, v \in {"", "typed", "zero", "wrong"} :
              [page EXCEPT !.text.parts[s] = v] \in PageType
         /\ \A d \in Deadlines : [page EXCEPT !.text.due = d] \in PageType
         /\ \A l \in Leads : [page EXCEPT !.text.typed = l] \in PageType
         /\ \A k \in FileKinds, v \in {"none", "good", "wrong"} : [page EXCEPT !.files[k] = v] \in PageType
<1>1. page.text \in Draft BY DEF PageType
<1>2. ASSUME NEW s \in Asking!Sections, NEW v \in {"", "typed", "zero", "wrong"}
      PROVE [page EXCEPT !.text.parts[s] = v] \in PageType
  <2>1. [page.text EXCEPT !.parts[s] = v] \in Draft
    BY <1>1, <1>2 DEF Draft, Asking!TextOf, Asking!Sections
  <2> QED BY <2>1 DEF PageType
<1>3. ASSUME NEW d \in Deadlines PROVE [page EXCEPT !.text.due = d] \in PageType
  <2>1. [page.text EXCEPT !.due = d] \in Draft
    BY <1>1, <1>3 DEF Draft, Asking!TextOf
  <2> QED BY <2>1 DEF PageType
<1>4. ASSUME NEW l \in Leads PROVE [page EXCEPT !.text.typed = l] \in PageType
  <2>1. [page.text EXCEPT !.typed = l] \in Draft
    BY <1>1, <1>4 DEF Draft, Asking!TextOf
  <2> QED BY <2>1 DEF PageType
<1>5. ASSUME NEW k \in FileKinds, NEW v \in {"none", "good", "wrong"} PROVE [page EXCEPT !.files[k] = v] \in PageType
  BY DEF PageType
<1> QED BY <1>2, <1>3, <1>4, <1>5

LEMMA EditKeeps ==
  ASSUME AskInv, NEW f \in PageType, Asking!Edit(f), f.open = page.open, f.draft = page.draft,
         f.prop = page.prop, f.lead = page.lead, f.settled = page.settled
  PROVE  AskInv'
<1>1. FieldStep /\ page' = f /\ lookups' = lookups
  BY DEF Asking!Edit, FieldStep
<1>2. CreateInv' /\ DraftInv' /\ PageType' = PageType /\ type' \in {"maintenance", "install"}
  BY <1>1, FieldKeeps
<1>3. LeadInv'
  BY <1>1 DEF AskInv, LeadInv, FieldStep, Asking!Known
<1> QED BY <1>1, <1>2, <1>3 DEF AskInv

LEMMA TypingKeeps ==
  ASSUME AskInv, NEW s \in Asking!Sections, NEW values \in SUBSET {"", "typed", "zero", "wrong"}, Asking!Typed(s, values)
  PROVE  AskInv'
<1>1. PICK v \in values : Asking!Edit([page EXCEPT !.text.parts[s] = v])
  BY DEF Asking!Typed
<1> DEFINE f == [page EXCEPT !.text.parts[s] = v]
<1>2. f \in PageType
  BY Retyped DEF AskInv
<1>3. f.open = page.open /\ f.draft = page.draft /\ f.prop = page.prop /\ f.lead = page.lead /\ f.settled = page.settled
  BY DEF AskInv, PageType
<1> HIDE DEF f
<1> QED BY <1>1, <1>2, <1>3, EditKeeps DEF f

LEMMA EditsKeep ==
  ASSUME AskInv,
         \/ Asking!EditContact \/ Asking!EditContract \/ Asking!EditOccurrences \/ Asking!EditDates
         \/ Asking!AttachFile \/ Asking!RemoveFile \/ Asking!EditRequest \/ Asking!EditOpportunity
         \/ Asking!EditClient \/ Asking!EditLandscape \/ Asking!EditIrrigation \/ Asking!EditRfi
  PROVE  AskInv'
<1> page \in PageType BY DEF AskInv
<1>1. CASE Asking!EditContact
  BY <1>1, TypingKeeps DEF Asking!EditContact, Asking!Sections, Asking!SectionsOf
<1>2. CASE Asking!EditContract
  BY <1>2, TypingKeeps DEF Asking!EditContract, Asking!Sections, Asking!SectionsOf
<1>3. CASE Asking!EditOccurrences
  BY <1>3, TypingKeeps DEF Asking!EditOccurrences, Asking!Sections, Asking!SectionsOf
<1>4. CASE Asking!EditOpportunity
  BY <1>4, TypingKeeps DEF Asking!EditOpportunity, Asking!Sections, Asking!SectionsOf
<1>5. CASE Asking!EditClient
  BY <1>5, TypingKeeps DEF Asking!EditClient, Asking!Sections, Asking!SectionsOf
<1>6. CASE Asking!EditLandscape
  BY <1>6, TypingKeeps DEF Asking!EditLandscape, Asking!Sections, Asking!SectionsOf
<1>7. CASE Asking!EditIrrigation
  BY <1>7, TypingKeeps DEF Asking!EditIrrigation, Asking!Sections, Asking!SectionsOf
<1>8. CASE Asking!EditRfi
  BY <1>8, TypingKeeps DEF Asking!EditRfi, Asking!Sections, Asking!SectionsOf
<1>9. CASE Asking!EditRequest
  <2>1. PICK l \in Leads : Asking!Edit([page EXCEPT !.text.typed = l])
    BY <1>9 DEF Asking!EditRequest
  <2> DEFINE f == [page EXCEPT !.text.typed = l]
  <2>2. f \in PageType BY Retyped
  <2>3. f.open = page.open /\ f.draft = page.draft /\ f.prop = page.prop /\ f.lead = page.lead /\ f.settled = page.settled
    BY DEF PageType
  <2> HIDE DEF f
  <2> QED BY <2>1, <2>2, <2>3, EditKeeps DEF f
<1>10. CASE Asking!EditDates
  <2>1. PICK d \in Deadlines : Asking!Edit([page EXCEPT !.text.due = d])
    BY <1>10 DEF Asking!EditDates
  <2> DEFINE f == [page EXCEPT !.text.due = d]
  <2>2. f \in PageType BY Retyped
  <2>3. f.open = page.open /\ f.draft = page.draft /\ f.prop = page.prop /\ f.lead = page.lead /\ f.settled = page.settled
    BY DEF PageType
  <2> HIDE DEF f
  <2> QED BY <2>1, <2>2, <2>3, EditKeeps DEF f
<1>11. CASE Asking!AttachFile \/ Asking!RemoveFile
  <2>1. PICK k \in FileKinds, v \in {"none", "good", "wrong"} : Asking!Edit([page EXCEPT !.files[k] = v])
    BY <1>11 DEF Asking!AttachFile, Asking!RemoveFile
  <2> DEFINE f == [page EXCEPT !.files[k] = v]
  <2>2. f \in PageType BY Retyped
  <2>3. f.open = page.open /\ f.draft = page.draft /\ f.prop = page.prop /\ f.lead = page.lead /\ f.settled = page.settled
    BY DEF PageType
  <2> HIDE DEF f
  <2> QED BY <2>1, <2>2, <2>3, EditKeeps DEF f
<1> QED BY <1>1, <1>2, <1>3, <1>4, <1>5, <1>6, <1>7, <1>8, <1>9, <1>10, <1>11

\* After the effect on (open, property) only the lookup of that property counts.
LEMMA Watched ==
  ASSUME AskInv, NEW open, NEW p, Asking!Watch(open, p), UNCHANGED type, page'.prop = p, ~page'.settled
  PROVE  LeadInv'
<1>1. lookups' \in [Asking!Known -> {"no", "live", "cancelled"}]
  BY DEF AskInv, LeadInv, Asking!Watch
<1>2. \A q \in Asking!Known : lookups'[q] = "live" => q = p
  BY DEF Asking!Watch, AskInv, LeadInv
<1> QED BY <1>1, <1>2 DEF LeadInv, Asking!Known

LEMMA SelectKeeps ==
  ASSUME AskInv, NEW p \in Asking!Known \cup {Blank}, Asking!Select(p)
  PROVE  AskInv'
<1> DEFINE no == FALSE
           f == [page EXCEPT !.prop = p, !.settled = no]
<1>1. no \in BOOLEAN /\ ~no OBVIOUS
<1> HIDE DEF no
<1>2. f \in PageType /\ f.open = page.open /\ f.draft = page.draft /\ f.prop = p /\ f.settled = no
  BY <1>1 DEF AskInv, PageType
<1>3. page' = f
  BY DEF Asking!Select, no
<1> HIDE DEF f
<1>4. FieldStep
  BY <1>2, <1>3 DEF Asking!Select, FieldStep
<1>5. LeadInv'
  BY <1>1, <1>2, <1>3, Watched DEF Asking!Select
<1> QED BY <1>2, <1>3, <1>4, <1>5, FieldKeeps DEF AskInv

LEMMA PropertyKeeps ==
  ASSUME AskInv, Asking!PickProperty \/ Asking!ClearProperty \/ Asking!CreateProperty
                 \/ Asking!PropertyCreated \/ Asking!LoadSettings
  PROVE  AskInv'
<1> page \in PageType BY DEF AskInv
<1>1. CASE Asking!PickProperty \/ Asking!ClearProperty
  BY <1>1, SelectKeeps DEF Asking!PickProperty, Asking!ClearProperty, Asking!Known
<1>2. CASE Asking!CreateProperty
  <2>1. FieldStep /\ page' = page /\ lookups' = lookups
    BY <1>2 DEF Asking!CreateProperty, FieldStep, Asking!bounds
  <2> QED BY <2>1, FieldKeeps DEF AskInv, LeadInv, Asking!Known, FieldStep
<1>3. CASE Asking!PropertyCreated
  <2> DEFINE no == FALSE
             f == [page EXCEPT !.prop = Fresh, !.settled = no]
  <2>1. no \in BOOLEAN /\ ~no OBVIOUS
  <2> HIDE DEF no
  <2>2. f \in PageType /\ f.open = page.open /\ f.draft = page.draft /\ f.prop = Fresh /\ f.settled = no
    BY <2>1 DEF PageType, Asking!Known
  <2>3. page' = f
    BY <1>3 DEF Asking!PropertyCreated, no
  <2> HIDE DEF f
  <2>4. FieldStep
    BY <1>3, <2>2, <2>3 DEF Asking!PropertyCreated, FieldStep, Asking!bounds
  <2>5. LeadInv'
    BY <1>3, <2>1, <2>2, <2>3, Watched DEF Asking!PropertyCreated
  <2> QED BY <2>2, <2>3, <2>4, <2>5, FieldKeeps DEF AskInv
<1>4. CASE Asking!LoadSettings
  <2> DEFINE yes == TRUE
             f == [page EXCEPT !.loaded = yes]
  <2>1. yes \in BOOLEAN OBVIOUS
  <2> HIDE DEF yes
  <2>2. /\ f \in PageType /\ f.open = page.open /\ f.draft = page.draft /\ f.prop = page.prop
        /\ f.settled = page.settled /\ f.lead = page.lead
    BY <2>1 DEF PageType
  <2>3. page' = f /\ lookups' = lookups
    BY <1>4 DEF Asking!LoadSettings, yes
  <2> HIDE DEF f
  <2>4. FieldStep
    BY <1>4, <2>2, <2>3 DEF Asking!LoadSettings, FieldStep, Asking!bounds
  <2> QED BY <2>2, <2>3, <2>4, FieldKeeps DEF AskInv, LeadInv, Asking!Known, FieldStep
<1> QED BY <1>1, <1>2, <1>3, <1>4

LEMMA LeadKeeps == ASSUME AskInv, NEW p \in Asking!Known, Asking!LeadArrives(p) PROVE AskInv'
<1> DEFINE yes == TRUE
           f == [page EXCEPT !.lead = LeadOf[p], !.settled = yes]
<1>1. yes \in BOOLEAN OBVIOUS
<1> HIDE DEF yes
<1>2. f \in PageType /\ f.open = page.open /\ f.draft = page.draft /\ f.prop = page.prop /\ f.lead = LeadOf[p]
  BY <1>1, AskAssumed DEF AskInv, PageType
<1>3. page' = IF lookups[p] = "live" THEN f ELSE page
  BY DEF Asking!LeadArrives, yes
<1> HIDE DEF f
<1>4. lookups' = [lookups EXCEPT ![p] = "no"] /\ lookups \in [Asking!Known -> {"no", "live", "cancelled"}]
  BY DEF Asking!LeadArrives, AskInv, LeadInv
<1>5. FieldStep
  BY <1>2, <1>3 DEF AskInv, Asking!LeadArrives, FieldStep, Asking!bounds
<1>6. LeadInv'
  <2>1. type' = type /\ page'.prop = page.prop /\ Asking!Known' = Asking!Known
    BY <1>2, <1>3, <1>5 DEF FieldStep, Asking!Known
  <2>2. CASE lookups[p] = "live"
    BY <1>2, <1>3, <1>4, <2>1, <2>2 DEF AskInv, LeadInv
  <2>3. CASE lookups[p] # "live"
    BY <1>2, <1>3, <1>4, <2>1, <2>3 DEF AskInv, LeadInv
  <2> QED BY <2>2, <2>3
<1> QED BY <1>5, <1>6, FieldKeeps DEF AskInv, FieldStep

LEMMA DraftsRest ==
  ASSUME AskInv, UNCHANGED <<type, page, drafts, wires, last, spoilt>>, Asking!Busy' => Asking!Busy /\ run' = run
  PROVE  DraftInv' /\ PageType' = PageType
<1>1. Draft' = Draft /\ PageType' = PageType
  BY DEF Draft, PageType
<1>2. Live' = Live /\ Agrees' = Agrees /\ WorksOn' = WorksOn /\ DraftKnown' = DraftKnown
  BY DEF Live, Agrees, WorksOn, DraftKnown
<1> QED BY <1>1, <1>2 DEF AskInv, DraftInv, Wire, AskedFor, Asking!Busy

LEMMA LeadRests == ASSUME AskInv, UNCHANGED <<type, page, lookups>> PROVE LeadInv'
  BY DEF AskInv, LeadInv, Asking!Known

LEMMA UploadingRests ==
  ASSUME NEW u, Uploading(u), run' = run, faults' = 0 => faults = 0, creates'[run'.of] = u
  PROVE  Uploading(creates[run.of])'
  BY DEF Uploading

LEMMA ServerKeeps ==
  ASSUME AskInv, NEW c \in Attempts, NEW r, creates[c] # Asking!NotSent, Whole(r), r.step # "uploading",
         "estimate" \in r.has => \A d \in Attempts \ {c} : Stored(d) => creates[d].number # r.number,
         creates' = [creates EXCEPT ![c] = r], faults' \in {faults, faults + 1},
         UNCHANGED <<type, page, lookups, run, drafts, wires, last, spoilt>>
  PROVE  AskInv'
<1>1. r # Asking!NotSent
  BY DEF Whole, Record, Step, Asking!NotSent
<1>2. Attempts' = Attempts
  BY DEF Attempts
<1>3. creates' = [d \in Attempts |-> creates'[d]] /\ creates'[c] = r /\ \A d \in Attempts \ {c} : creates'[d] = creates[d]
  BY DEF AskInv, CreateInv
<1>4. \A d, e \in Attempts : d # e /\ Stored(d)' /\ Stored(e)' => creates'[d].number # creates'[e].number
  BY <1>1, <1>3 DEF AskInv, CreateInv, Stored
<1>5. \A d \in Attempts : creates'[d] # Asking!NotSent => Whole(creates'[d])
  BY <1>3 DEF AskInv, CreateInv
<1>6. Asking!Busy' /\ creates'[run'.of].step = "uploading" => Uploading(creates[run.of])'
  <2> SUFFICES ASSUME Asking!Busy', creates'[run'.of].step = "uploading" PROVE Uploading(creates[run.of])'
    OBVIOUS
  <2>1. run.of \in Attempts /\ run' = run /\ Asking!Busy /\ run.of # c
    BY <1>3 DEF AskInv, CreateInv, Asking!Busy
  <2>2. PICK u : u = creates[run.of]
    OBVIOUS
  <2>3. creates'[run'.of] = u
    BY <1>3, <2>1, <2>2
  <2>4. Uploading(u)
    BY <2>1, <2>2, <2>3 DEF AskInv, CreateInv
  <2>5. faults' = 0 => faults = 0
    BY DEF AskInv, CreateInv
  <2> QED BY <2>1, <2>3, <2>4, <2>5, UploadingRests
<1>7. CreateInv'
  <2>1. Asking!Busy' => run'.of \in Attempts /\ creates'[run'.of] # Asking!NotSent
    BY <1>1, <1>3 DEF AskInv, CreateInv, Asking!Busy
  <2>2. faults' \in Nat /\ run' = [of |-> run'.of, draft |-> run'.draft, todo |-> run'.todo] /\ run'.todo \in Seq(File)
    BY DEF AskInv, CreateInv
  <2> QED BY <1>2, <1>3, <1>4, <1>5, <1>6, <2>1, <2>2 DEF CreateInv
<1> QED BY <1>7, DraftsRest, LeadRests DEF AskInv, Asking!Busy

LEMMA BusyStep == ASSUME NEW c \in Attempts, NEW s, s # "none", Asking!At(c, s) PROVE creates[c] # Asking!NotSent
  BY DEF Asking!At, Asking!NotSent

\* What is forgotten of an estimate that is over.
LEMMA OverIsWhole ==
  ASSUME NEW r, Whole(r), NEW s \in {"refused", "died", "done"}, r.has \in Pieces(s)
  PROVE  /\ Whole([Asking!Over(r) EXCEPT !.step = s]) /\ [Asking!Over(r) EXCEPT !.step = s].has = r.has
         /\ [Asking!Over(r) EXCEPT !.step = s].number = r.number /\ [Asking!Over(r) EXCEPT !.step = s].step = s
<1> DEFINE none == [k \in FileKinds |-> "none"]
           body == [prop |-> Blank, lead |-> Blank, files |-> <<>>, due |-> 0, local |-> 0]
           o == [Asking!Over(r) EXCEPT !.step = s]
<1>1. none \in [FileKinds -> {"none", "pending", "stored"}] /\ \A k \in FileKinds : none[k] = "none"
  OBVIOUS
<1>2. body \in Body /\ Distinct(body.files) /\ body.lead = Blank
  BY DEF Distinct, Body
<1>3. Asking!Over(r) = [r EXCEPT !.rows = none, !.body = body]
  BY DEF Asking!Over
<1> HIDE DEF body, none
<1>4. o \in Record(r.number) /\ o.step = s /\ o.body = body /\ o.rows = none /\ o.has = r.has /\ o.number = r.number
  BY <1>1, <1>2, <1>3 DEF Whole, Record, Step
<1> HIDE DEF o
<1>5. Whole(o)
  BY <1>1, <1>2, <1>4 DEF Whole
<1> QED BY <1>4, <1>5 DEF o

LEMMA CheckKeeps2 == ASSUME AskInv, NEW c \in Attempts, Asking!Check(c) PROVE AskInv'
<1> DEFINE r == creates[c]
           over == [Asking!Over(r) EXCEPT !.step = "refused"]
           next == [r EXCEPT !.step = "numbered", !.number = Asking!Max(Asking!Numbers \cup {0}) + 1,
                             !.body.prop = Blank, !.body.due = 0, !.body.local = 0]
<1>1. r.step = "sent" /\ creates[c] # Asking!NotSent
  BY BusyStep DEF Asking!Check, Asking!At
<1>2. Whole(r) /\ r.has = {}
  BY <1>1 DEF AskInv, CreateInv, Whole, Pieces
<1>3. UNCHANGED <<type, page, lookups, run, drafts, wires, last, spoilt, faults>>
      /\ creates' = [creates EXCEPT ![c] = IF r.body.due < 0 THEN over ELSE next]
  BY DEF Asking!Check, Asking!Server, Asking!page, Asking!bounds
<1>4. Whole(over) /\ over.has = {} /\ over.step = "refused"
  BY <1>2, OverIsWhole DEF Pieces
<1>5. Whole(next) /\ next.has = {} /\ next.step = "numbered"
  <2> DEFINE n == Asking!Max(Asking!Numbers \cup {0}) + 1
             b == [r.body EXCEPT !.prop = Blank, !.due = 0, !.local = 0]
  <2> HIDE DEF n
  <2>1. b \in Body /\ b.files = r.body.files
    <3>1. r.body \in Body
      BY <1>2 DEF Whole, Record
    <3> DEFINE K == Asking!Known \cup {Blank}
               L == Leads \cup {Blank}
               F == Seq(File)
               D == {-1, 0}
               zero == 0
    <3>2. r.body \in [prop : K, lead : L, files : F, due : Int, local : D]
      BY <3>1 DEF Body
    <3>3. Blank \in K /\ zero \in D /\ zero \in Int /\ b = [r.body EXCEPT !.prop = Blank, !.due = zero, !.local = zero]
      BY DEF b
    <3> HIDE DEF K, L, F, D, zero
    <3>4. b \in [prop : K, lead : L, files : F, due : Int, local : D] /\ b.files = r.body.files
      BY <3>2, <3>3
    <3> QED BY <3>4 DEF K, L, F, D, Body
  <2>2. next = [r EXCEPT !.step = "numbered", !.number = n, !.body = b]
    BY <1>2 DEF Whole, Record, n
  <2> HIDE DEF next, b
  <2>3. /\ next \in Record(n) /\ next.step = "numbered" /\ next.body = b /\ next.has = r.has
        /\ next.rows = r.rows /\ next.number = n
    BY <1>2, <2>1, <2>2 DEF Whole, Record, Step
  <2>4. "numbered" # "uploading" /\ "numbered" # "created" /\ {} \in Pieces("numbered")
    BY DEF Pieces
  <2>5. \A k \in FileKinds : r.rows[k] = "none"
    BY <1>1, <1>2 DEF Whole
  <2> QED BY <1>2, <2>1, <2>3, <2>4, <2>5 DEF Whole
<1> HIDE DEF over, next
<1> QED BY <1>1, <1>3, <1>4, <1>5, ServerKeeps

\* One more piece is stored.
LEMMA HasKeeps ==
  ASSUME AskInv, NEW c \in Attempts, NEW piece, NEW next \in {"stored", "filed", "tracked", "created"}, Asking!Has(c, piece, next),
         creates[c] # Asking!NotSent, creates[c].has \cup {piece} \in Pieces(next),
         creates[c].step # "uploading", next # "created" \/ creates[c].body.lead = Blank \/ piece = "lead",
         "estimate" \notin creates[c].has => creates[c].number \notin Asking!Numbers
  PROVE  AskInv'
<1> DEFINE r == creates[c]
           new == [r EXCEPT !.has = @ \cup {piece}, !.step = next]
<1>1. Whole(r)
  BY DEF AskInv, CreateInv
<1>2. new.has = r.has \cup {piece} /\ new.step = next /\ new.number = r.number
  BY <1>1 DEF Whole
<1>3. Whole(new)
  <2>1. new \in Record(new.number) /\ new.body = r.body /\ new.rows = r.rows
    <3>1. r.has \cup {piece} \in SUBSET {"estimate", "intake", "project", "lead"}
      BY DEF Pieces, Step
    <3>2. next \in Step
      BY DEF Step
    <3> QED BY <1>1, <3>1, <3>2 DEF Whole, Record
  <2> HIDE DEF new
  <2>2. next # "uploading" /\ next # "done" /\ next \in Step
    BY DEF Step
  <2>3. next = "created" /\ r.body.lead # Blank => "lead" \in new.has
    BY <1>2
  <2>4. \A k \in FileKinds : r.rows[k] = "none"
    BY <1>1 DEF Whole
  <2> QED BY <1>1, <1>2, <2>1, <2>2, <2>3, <2>4 DEF Whole
<1>4. UNCHANGED <<type, page, lookups, run, drafts, wires, last, spoilt, faults>> /\ creates' = [creates EXCEPT ![c] = new]
  BY DEF Asking!Has, Asking!Server, Asking!page, Asking!bounds
<1>5. \A d \in Attempts \ {c} : Stored(d) => creates[d].number # r.number
  <2>1. CASE "estimate" \in r.has
    BY <2>1 DEF AskInv, CreateInv, Stored
  <2>2. CASE "estimate" \notin r.has
    BY <2>2 DEF Asking!Numbers, Stored, Attempts
  <2> QED BY <2>1, <2>2
<1> HIDE DEF new
<1> QED BY <1>2, <1>3, <1>4, <1>5, ServerKeeps

LEMMA CreateKeeps ==
  ASSUME AskInv, NEW c \in Attempts, Asking!Insert(c) \/ Asking!AddIntake(c) \/ Asking!AddProject(c) \/ Asking!MoveLead(c)
  PROVE  AskInv'
<1> DEFINE r == creates[c]
<1>1. creates[c] # Asking!NotSent
  BY BusyStep DEF Asking!Insert, Asking!AddIntake, Asking!AddProject, Asking!MoveLead
<1>2. Whole(r)
  BY <1>1 DEF AskInv, CreateInv
<1>3. CASE Asking!Insert(c)
  <2>1. r.step = "numbered" /\ r.has = {}
    BY <1>2, <1>3 DEF Asking!Insert, Asking!At, Whole, Pieces
  <2>2. CASE r.number \in Asking!Numbers
    <3> DEFINE over == [Asking!Over(r) EXCEPT !.step = "refused"]
    <3>1. UNCHANGED <<type, page, lookups, run, drafts, wires, last, spoilt, faults>> /\ creates' = [creates EXCEPT ![c] = over]
      BY <1>3, <2>2 DEF Asking!Insert, Asking!Server, Asking!page, Asking!bounds
    <3>2. Whole(over) /\ over.has = {} /\ over.step = "refused"
      BY <1>2, <2>1, OverIsWhole DEF Pieces
    <3> HIDE DEF over
    <3> QED BY <1>1, <3>1, <3>2, ServerKeeps
  <2>3. CASE r.number \notin Asking!Numbers
    <3>1. Asking!Has(c, "estimate", "stored")
      BY <1>3, <2>3 DEF Asking!Insert
    <3>2. r.has \cup {"estimate"} \in Pieces("stored") /\ "stored" \in {"stored", "filed", "tracked", "created"}
      BY <2>1 DEF Pieces, Step
    <3> QED BY <1>1, <2>1, <2>3, <3>1, <3>2, HasKeeps
  <2> QED BY <2>2, <2>3
<1>4. CASE Asking!AddIntake(c)
  <2>1. r.step = "stored" /\ r.has = {"estimate"}
    BY <1>2, <1>4 DEF Asking!AddIntake, Asking!At, Whole, Pieces
  <2>2. Asking!Has(c, "intake", "filed")
    BY <1>4 DEF Asking!AddIntake
  <2>3. r.has \cup {"intake"} \in Pieces("filed") /\ "filed" \in {"stored", "filed", "tracked", "created"}
    BY <2>1 DEF Pieces, Step
  <2> QED BY <1>1, <2>1, <2>2, <2>3, HasKeeps
<1>5. CASE Asking!AddProject(c)
  <2>1. r.step = "filed" /\ r.has = {"estimate", "intake"}
    BY <1>2, <1>5 DEF Asking!AddProject, Asking!At, Whole, Pieces
  <2>2. Asking!Has(c, "project", "tracked")
    BY <1>5 DEF Asking!AddProject
  <2>3. r.has \cup {"project"} \in Pieces("tracked") /\ "tracked" \in {"stored", "filed", "tracked", "created"}
    BY <2>1 DEF Pieces, Step
  <2> QED BY <1>1, <2>1, <2>2, <2>3, HasKeeps
<1>6. CASE Asking!MoveLead(c)
  <2>1. r.step = "tracked" /\ r.has = {"estimate", "intake", "project"}
    BY <1>2, <1>6 DEF Asking!MoveLead, Asking!At, Whole, Pieces
  <2>2. CASE r.body.lead = Blank
    <3> DEFINE new == [r EXCEPT !.step = "created"]
    <3>1. UNCHANGED <<type, page, lookups, run, drafts, wires, last, spoilt, faults>> /\ creates' = [creates EXCEPT ![c] = new]
      BY <1>6, <2>2 DEF Asking!MoveLead, Asking!Server, Asking!page, Asking!bounds
    <3>2. /\ new \in Record(r.number) /\ new.has = r.has /\ new.number = r.number /\ new.step = "created"
          /\ new.body = r.body /\ new.rows = r.rows
      BY <1>2 DEF Whole, Record, Step
    <3>3. \A d \in Attempts \ {c} : Stored(d) => creates[d].number # r.number
      BY <1>1, <2>1 DEF AskInv, CreateInv, Stored
    <3> HIDE DEF new
    <3>4. Whole(new)
      BY <1>2, <2>1, <2>2, <3>2 DEF Whole, Pieces
    <3> QED BY <1>1, <3>1, <3>2, <3>3, <3>4, ServerKeeps
  <2>3. CASE r.body.lead # Blank
    <3>1. Asking!Has(c, "lead", "created")
      BY <1>6, <2>3 DEF Asking!MoveLead
    <3>2. r.has \cup {"lead"} \in Pieces("created") /\ "created" \in {"stored", "filed", "tracked", "created"}
      BY <2>1 DEF Pieces, Step
    <3> QED BY <1>1, <2>1, <3>1, <3>2, HasKeeps
  <2> QED BY <2>2, <2>3
<1> QED BY <1>3, <1>4, <1>5, <1>6

LEMMA DiesKeeps == ASSUME AskInv, NEW c \in Attempts, Asking!CreateDies(c) PROVE AskInv'
<1> DEFINE r == creates[c]
           over == [Asking!Over(r) EXCEPT !.step = "died"]
<1>1. r.step \in {"sent", "numbered", "stored", "filed", "tracked"} /\ r # Asking!NotSent
  BY DEF Asking!CreateDies, Asking!NotSent
<1>2. Whole(r)
  BY <1>1 DEF AskInv, CreateInv
<1>3. r.has \in Pieces("died")
  BY <1>1, <1>2 DEF Whole, Pieces
<1>4. Whole(over) /\ over.has = r.has /\ over.number = r.number /\ over.step = "died"
  BY <1>2, <1>3, OverIsWhole
<1>5. UNCHANGED <<type, page, lookups, run, drafts, wires, last, spoilt>> /\ creates' = [creates EXCEPT ![c] = over] /\ faults' = faults + 1
  BY DEF Asking!CreateDies, Asking!Mishap, Asking!page
<1>6. "estimate" \in r.has => \A d \in Attempts \ {c} : Stored(d) => creates[d].number # r.number
  BY <1>1 DEF AskInv, CreateInv, Stored
<1> HIDE DEF over
<1> QED BY <1>1, <1>4, <1>5, <1>6, ServerKeeps

LEMMA CreatesRest ==
  ASSUME AskInv, UNCHANGED <<type, creates>>, run' \in {run, Asking!Idle}, faults' \in {faults, faults + 1}
  PROVE  CreateInv'
<1>1. Attempts' = Attempts
  BY DEF Attempts
<1>2. faults' \in Nat /\ (faults' = 0 => faults = 0)
  BY DEF AskInv, CreateInv
<1>3. run' = [of |-> run'.of, draft |-> run'.draft, todo |-> run'.todo] /\ run'.todo \in Seq(File)
  <2>1. CASE run' = run
    BY <2>1 DEF AskInv, CreateInv
  <2>2. CASE run' = Asking!Idle
    BY <2>2 DEF Asking!Idle
  <2> QED BY <2>1, <2>2
<1>4. Asking!Busy' => Asking!Busy /\ run' = run
  BY DEF Asking!Busy, Asking!Idle
<1>5. Asking!Busy' /\ creates'[run'.of].step = "uploading" => Uploading(creates[run.of])'
  <2> SUFFICES ASSUME Asking!Busy', creates'[run'.of].step = "uploading" PROVE Uploading(creates[run.of])'
    OBVIOUS
  <2>1. PICK u : u = creates[run.of]
    OBVIOUS
  <2>2. Uploading(u) /\ creates'[run'.of] = u /\ run' = run
    BY <1>4, <2>1 DEF AskInv, CreateInv
  <2> QED BY <1>2, <2>2, UploadingRests
<1> QED BY <1>1, <1>2, <1>3, <1>4, <1>5 DEF AskInv, CreateInv, Stored

LEMMA CreatedKeeps == ASSUME AskInv, NEW c \in Attempts, Asking!Created(c) PROVE AskInv'
<1> DEFINE r == creates[c]
           new == [r EXCEPT !.step = "uploading"]
<1>1. /\ run.of = c /\ r.step = "created" /\ UNCHANGED <<type, page, lookups, drafts, wires, last, spoilt, faults>>
      /\ run' = [run EXCEPT !.todo = r.body.files] /\ creates' = [creates EXCEPT ![c].step = "uploading"]
  BY DEF Asking!Created, Asking!At, Asking!bounds
<1>2. Whole(r)
  BY <1>1 DEF AskInv, CreateInv, Asking!NotSent
<1>3. /\ new \in Record(r.number) /\ new.has = r.has /\ new.number = r.number /\ new.step = "uploading"
      /\ new.body = r.body /\ new.rows = r.rows
  BY <1>2 DEF Whole, Record, Step
<1>4. creates' = [creates EXCEPT ![c] = new] /\ Attempts' = Attempts
  BY <1>1 DEF AskInv, CreateInv, Attempts
<1>5. r.body.files \in Seq(File)
  BY <1>2 DEF Whole, Record, Body
<1>6. run'.of = c /\ run'.draft = run.draft /\ run'.todo = r.body.files
      /\ run' = [of |-> run'.of, draft |-> run'.draft, todo |-> run'.todo]
  BY <1>1 DEF AskInv, CreateInv
<1> HIDE DEF new
<1>7. Whole(new)
  BY <1>1, <1>2, <1>3 DEF Whole, Pieces
<1>8. creates' = [d \in Attempts |-> creates'[d]] /\ creates'[c] = new /\ \A d \in Attempts \ {c} : creates'[d] = creates[d]
  BY <1>4 DEF AskInv, CreateInv
<1>9. new # Asking!NotSent /\ r # Asking!NotSent
  BY <1>1, <1>3 DEF Asking!NotSent
<1>10. Uploading(creates[run.of])'
  <2>1. creates'[run'.of].body.files = r.body.files /\ creates'[run'.of].rows = r.rows
    BY <1>3, <1>6, <1>8
  <2>2. Len(r.body.files) - Len(r.body.files) = 0 /\ Len(r.body.files) \in Nat
    BY <1>5
  <2>3. \A k \in FileKinds : r.rows[k] # "stored"
    BY <1>1, <1>2 DEF Whole
  <2>4. \A i \in DOMAIN r.body.files : r.body.files[i].kind \in FileKinds /\ i >= 1 /\ i \in Nat
    <3>1. \A i \in DOMAIN r.body.files : r.body.files[i] \in File /\ i \in 1..Len(r.body.files)
      BY <1>5
    <3> QED BY <3>1 DEF File
  <2>5. \A i \in DOMAIN r.body.files : r.body.files[i] = r.body.files[0 + i]
    BY <2>4
  <2> HIDE DEF r
  <2> QED BY <1>6, <2>1, <2>2, <2>3, <2>4, <2>5 DEF Uploading
<1>11. \A d, e \in Attempts : d # e /\ Stored(d)' /\ Stored(e)' => creates'[d].number # creates'[e].number
  BY <1>3, <1>8, <1>9 DEF AskInv, CreateInv, Stored
<1>12. \A d \in Attempts : creates'[d] # Asking!NotSent => Whole(creates'[d])
  BY <1>7, <1>8 DEF AskInv, CreateInv
<1>13. CreateInv'
  <2>1. faults' \in Nat /\ run'.todo \in Seq(File)
    BY <1>1, <1>5, <1>6 DEF AskInv, CreateInv
  <2> QED BY <1>4, <1>6, <1>8, <1>9, <1>10, <1>11, <1>12, <2>1 DEF CreateInv
<1>14. DraftInv'
  <2>1. Draft' = Draft /\ Live' = Live /\ Agrees' = Agrees /\ WorksOn' = WorksOn /\ DraftKnown' = DraftKnown
    BY <1>1 DEF Draft, Live, Agrees, WorksOn, DraftKnown
  <2> QED BY <1>1, <1>6, <2>1 DEF AskInv, DraftInv, Wire, AskedFor, Asking!Busy
<1> QED BY <1>1, <1>13, <1>14, LeadRests DEF AskInv, PageType, Draft

LEMMA LossesKeep ==
  ASSUME AskInv, (\E c \in Attempts : Asking!NotCreated(c)) \/ Asking!AnswerLost \/ Asking!PropertyFails
  PROVE  AskInv'
<1>1. /\ UNCHANGED <<type, page, lookups, creates, drafts, wires, last, spoilt>>
      /\ run' \in {run, Asking!Idle} /\ faults' \in {faults, faults + 1}
  BY DEF Asking!NotCreated, Asking!AnswerLost, Asking!PropertyFails, Asking!Mishap, Asking!bounds
<1>2. Asking!Busy' => Asking!Busy /\ run' = run
  BY <1>1 DEF Asking!Busy, Asking!Idle
<1> QED BY <1>1, <1>2, CreatesRest, DraftsRest, LeadRests DEF AskInv

LEMMA LookupFailsKeeps == ASSUME AskInv, Asking!LookupFails PROVE AskInv'
<1>1. /\ UNCHANGED <<type, page, run, creates, drafts, wires, last, spoilt>> /\ faults' \in {faults, faults + 1}
      /\ \E p \in Asking!Known : lookups' = [lookups EXCEPT ![p] = "no"]
  BY DEF Asking!LookupFails, Asking!Mishap
<1>2. LeadInv'
  BY <1>1 DEF AskInv, LeadInv, Asking!Known
<1> QED BY <1>1, <1>2, CreatesRest, DraftsRest DEF AskInv, Asking!Busy

LEMMA CallFailsKeeps == ASSUME AskInv, Asking!CallFails PROVE AskInv'
<1>1. /\ UNCHANGED <<type, page, lookups, run, creates, drafts, last>> /\ faults' \in {faults, faults + 1}
      /\ wires' \subseteq wires /\ spoilt'
  BY DEF Asking!CallFails, Asking!Mishap, Asking!page
<1>2. DraftInv'
  BY <1>1 DEF AskInv, DraftInv, Wire, Draft, Asking!Busy
<1> QED BY <1>1, <1>2, CreatesRest, LeadRests DEF AskInv, PageType, Draft

LEMMA OneFewer ==
  ASSUME NEW a \in Nat, NEW b \in Nat, b >= 1, a - b \in Nat
  PROVE  a - b + 1 \in 1..a /\ a - (b - 1) = a - b + 1 /\ a - b + 1 \in Nat
  OBVIOUS

LEMMA UploadKeeps ==
  ASSUME AskInv, NEW status \in {"none", "pending", "stored"}, Asking!Upload(status),
         \/ faults' = faults /\ status = IF Asking!Accepted(Head(run.todo)) THEN "stored" ELSE "none"
         \/ faults' = faults + 1
  PROVE  AskInv'
<1> DEFINE c == run.of
           r == creates[c]
           files == r.body.files
           n == Len(files) - Len(run.todo)
           k == Head(run.todo).kind
           rows == [r.rows EXCEPT ![k] = status]
           new == [r EXCEPT !.rows = rows]
<1>1. /\ Asking!Busy /\ r.step = "uploading" /\ run.todo # <<>>
      /\ run' = [run EXCEPT !.todo = Tail(run.todo)] /\ UNCHANGED <<type, page, lookups, drafts, wires, last, spoilt>>
      /\ creates' = [creates EXCEPT ![c].rows[k] = status]
  BY DEF Asking!Upload, Asking!At
<1>2. c \in Attempts /\ Whole(r) /\ Uploading(r) /\ r # Asking!NotSent
  BY <1>1 DEF AskInv, CreateInv
<1>3. run.todo \in Seq(File) /\ files \in Seq(File) /\ faults \in Nat /\ r.rows \in [FileKinds -> {"none", "pending", "stored"}]
  BY <1>2 DEF AskInv, CreateInv, Whole, Record, Body
<1>4. Tail(run.todo) \in Seq(File) /\ Len(Tail(run.todo)) = Len(run.todo) - 1 /\ Head(run.todo) = run.todo[1] /\ 1 \in DOMAIN run.todo
      /\ \A i \in DOMAIN Tail(run.todo) : i \in Nat \ {0} /\ i + 1 \in DOMAIN run.todo /\ Tail(run.todo)[i] = run.todo[i + 1]
  BY <1>1, <1>3
<1>5. /\ n \in Nat /\ Head(run.todo) = files[n + 1] /\ n + 1 \in DOMAIN files /\ k \in FileKinds
      /\ Len(files) - Len(Tail(run.todo)) = n + 1 /\ n + 1 \in Nat
  <2>1. n \in Nat /\ run.todo[1] = files[n + 1]
    BY <1>2, <1>4 DEF Uploading
  <2>2. Len(files) \in Nat /\ Len(run.todo) \in Nat /\ Len(run.todo) >= 1 /\ DOMAIN files = 1..Len(files)
    BY <1>1, <1>3
  <2>3. n + 1 \in DOMAIN files /\ n + 1 \in Nat
    BY <2>1, <2>2, OneFewer
  <2>4. run.todo[1] \in File
    BY <1>3, <1>4
  <2>5. Len(files) - Len(Tail(run.todo)) = n + 1
    <3> DEFINE a == Len(files)
               b == Len(run.todo)
               t == Len(Tail(run.todo))
    <3>1. a \in Nat /\ b \in Nat /\ t = b - 1
      BY <1>4, <2>2
    <3> HIDE DEF a, b, t
    <3>2. a - t = (a - b) + 1
      BY ONLY <3>1
    <3> QED BY <3>2 DEF a, b, t
  <2> QED BY <1>4, <2>1, <2>3, <2>4, <2>5 DEF File
<1>6. rows \in [FileKinds -> {"none", "pending", "stored"}] /\ rows[k] = status /\ \A j \in FileKinds \ {k} : rows[j] = r.rows[j]
  BY <1>3, <1>5
<1>7. creates' = [creates EXCEPT ![c] = new]
  BY <1>1, <1>2 DEF AskInv, CreateInv
<1>8. run'.of = c /\ run'.draft = run.draft /\ run'.todo = Tail(run.todo)
      /\ run' = [of |-> run'.of, draft |-> run'.draft, todo |-> run'.todo]
  BY <1>1 DEF AskInv, CreateInv
<1>9. /\ new \in Record(r.number) /\ new.has = r.has /\ new.number = r.number /\ new.step = "uploading"
      /\ new.body = r.body /\ new.rows = rows
  <2> HIDE DEF rows
  <2> QED BY <1>1, <1>2, <1>6 DEF Whole, Record
<1> HIDE DEF new, rows
<1>10. Whole(new) /\ new # Asking!NotSent
  BY <1>1, <1>2, <1>9 DEF Whole, Asking!NotSent
<1>11. Attempts' = Attempts /\ creates' = [d \in Attempts |-> creates'[d]] /\ creates'[c] = new
       /\ \A d \in Attempts \ {c} : creates'[d] = creates[d]
  BY <1>1, <1>2, <1>7 DEF AskInv, CreateInv, Attempts
<1>12. Uploading(creates[run.of])'
  <2>1. creates'[run'.of].body.files = files /\ creates'[run'.of].rows = rows
    BY <1>8, <1>9, <1>11
  <2>2. Len(files) - Len(Tail(run.todo)) = n + 1 /\ n + 1 \in Nat
    BY <1>5
  <2>3. \A i \in DOMAIN Tail(run.todo) : Tail(run.todo)[i] = files[n + 1 + i]
    <3> TAKE i \in DOMAIN Tail(run.todo)
    <3>1. Tail(run.todo)[i] = run.todo[i + 1] /\ i + 1 \in DOMAIN run.todo /\ i \in Nat
      BY <1>4
    <3>2. run.todo[i + 1] = files[n + (i + 1)]
      BY <1>2, <3>1 DEF Uploading
    <3>3. n \in Nat /\ i \in Nat
      BY <1>5, <3>1
    <3> HIDE DEF n
    <3>4. n + (i + 1) = n + 1 + i
      BY <3>3
    <3> QED BY <3>1, <3>2, <3>4
  <2>4. ASSUME faults' = 0
        PROVE /\ \A i \in DOMAIN files : rows[files[i].kind] = "stored" <=> i <= n + 1 /\ files[i].file = "good"
              /\ \A j \in FileKinds : rows[j] = "stored" => \E i \in DOMAIN files : files[i].kind = j
    <3>1. faults = 0 /\ status = IF files[n + 1].file = "good" THEN "stored" ELSE "none"
      <4>1. faults' # faults + 1 \/ faults + 1 = 0
        BY <2>4
      <4>2. faults' = faults
        BY <1>3, <4>1
      <4>3. Asking!Accepted(Head(run.todo)) <=> files[n + 1].file = "good"
        BY <1>5 DEF Asking!Accepted
      <4>4. faults + 1 # 0
        BY <1>3
      <4>5. status = IF Asking!Accepted(Head(run.todo)) THEN "stored" ELSE "none"
        BY <4>1, <4>4
      <4> QED BY <2>4, <4>2, <4>3, <4>5
    <3>2. \A i \in DOMAIN files : r.rows[files[i].kind] = "stored" <=> i <= n /\ files[i].file = "good"
      BY <1>2, <3>1 DEF Uploading
    <3>3. \A j \in FileKinds : r.rows[j] = "stored" => \E i \in DOMAIN files : files[i].kind = j
      BY <1>2, <3>1 DEF Uploading
    <3>4. files[n + 1].kind = k
      BY <1>5
    <3>5. \A i \in DOMAIN files : i \in Nat /\ files[i].kind \in FileKinds
      <4>1. \A i \in DOMAIN files : i \in Nat /\ files[i] \in File
        BY <1>3
      <4> QED BY <4>1 DEF File
    <3>6. \A i \in DOMAIN files : i # n + 1 => files[i].kind # k
      BY <1>2, <1>5, <3>4 DEF Whole, Distinct
    <3>7. \A i \in DOMAIN files : rows[files[i].kind] = "stored" <=> i <= n + 1 /\ files[i].file = "good"
      <4> TAKE i \in DOMAIN files
      <4>0. n \in Nat /\ i \in Nat
        BY <1>5, <3>5
      <4>1. CASE i = n + 1
        <5>1. rows[files[i].kind] = status /\ files[i].file = files[n + 1].file
          BY <1>6, <3>4, <4>1
        <5>2. i <= n + 1
          <6> HIDE DEF n
          <6> QED BY <4>0, <4>1
        <5>3. status = "stored" <=> files[n + 1].file = "good"
          BY <3>1
        <5> HIDE DEF n, files
        <5> QED BY <5>1, <5>2, <5>3
      <4>2. CASE i # n + 1
        <5>1. rows[files[i].kind] = r.rows[files[i].kind]
          BY <1>6, <3>5, <3>6, <4>2
        <5>2. i <= n <=> i <= n + 1
          <6> HIDE DEF n
          <6> QED BY <4>0, <4>2
        <5> QED BY <3>2, <5>1, <5>2
      <4> QED BY <4>1, <4>2
    <3> QED BY <1>5, <1>6, <3>3, <3>4, <3>7
  <2> HIDE DEF r, files, n, k
  <2> QED BY <1>8, <2>1, <2>2, <2>3, <2>4 DEF Uploading
<1>13. \A d, e \in Attempts : d # e /\ Stored(d)' /\ Stored(e)' => creates'[d].number # creates'[e].number
  BY <1>2, <1>9, <1>11 DEF AskInv, CreateInv, Stored
<1>14. \A d \in Attempts : creates'[d] # Asking!NotSent => Whole(creates'[d])
  BY <1>10, <1>11 DEF AskInv, CreateInv
<1>15. CreateInv'
  <2>1. faults' \in Nat /\ run'.todo \in Seq(File)
    BY <1>3, <1>4, <1>8
  <2> QED BY <1>2, <1>8, <1>10, <1>11, <1>12, <1>13, <1>14, <2>1 DEF CreateInv
<1>16. DraftInv'
  <2>1. Draft' = Draft /\ Live' = Live /\ Agrees' = Agrees /\ WorksOn' = WorksOn /\ DraftKnown' = DraftKnown
    BY <1>1 DEF Draft, Live, Agrees, WorksOn, DraftKnown
  <2> QED BY <1>1, <1>8, <2>1 DEF AskInv, DraftInv, Wire, AskedFor, Asking!Busy
<1> QED BY <1>1, <1>15, <1>16, LeadRests DEF AskInv, PageType, Draft

\* Files of one kind each, and of kinds of their own.
LEMMA Joined ==
  ASSUME NEW s \in Seq(File), NEW t \in Seq(File), Distinct(s), Distinct(t),
         \A i \in DOMAIN s, j \in DOMAIN t : s[i].kind # t[j].kind
  PROVE  /\ s \o t \in Seq(File) /\ Distinct(s \o t)
         /\ \A i \in DOMAIN (s \o t) : (\E j \in DOMAIN s : (s \o t)[i] = s[j]) \/ (\E j \in DOMAIN t : (s \o t)[i] = t[j])
<1> DEFINE u == s \o t
<1>1. u \in Seq(File) /\ Len(u) = Len(s) + Len(t) /\ DOMAIN u = 1..(Len(s) + Len(t))
  OBVIOUS
<1>2. \A i \in DOMAIN u : \/ i \in DOMAIN s /\ u[i] = s[i]
                          \/ i > Len(s) /\ i - Len(s) \in DOMAIN t /\ u[i] = t[i - Len(s)]
  OBVIOUS
<1>3. Len(s) \in Nat /\ DOMAIN s = 1..Len(s)
  OBVIOUS
<1> HIDE DEF u
<1>4. ASSUME NEW i \in DOMAIN u, NEW j \in DOMAIN u, u[i].kind = u[j].kind PROVE i = j
  <2>1. CASE i \in DOMAIN s /\ u[i] = s[i]
    <3>1. ~(j > Len(s) /\ j - Len(s) \in DOMAIN t /\ u[j] = t[j - Len(s)])
      BY <1>4, <2>1
    <3> QED BY <1>2, <1>4, <2>1, <3>1 DEF Distinct
  <2>2. CASE i > Len(s) /\ i - Len(s) \in DOMAIN t /\ u[i] = t[i - Len(s)]
    <3>1. ~(j \in DOMAIN s /\ u[j] = s[j])
      BY <1>4, <2>2
    <3>2. j > Len(s) /\ j - Len(s) \in DOMAIN t /\ u[j] = t[j - Len(s)]
      BY <1>2, <3>1
    <3>3. i - Len(s) = j - Len(s)
      BY <1>4, <2>2, <3>2 DEF Distinct
    <3> QED BY <1>1, <1>3, <3>3
  <2> QED BY <1>2, <2>1, <2>2
<1>5. Distinct(u)
  BY <1>4 DEF Distinct
<1> QED BY <1>1, <1>2, <1>5 DEF u

LEMMA UploadsApart == ASSUME page \in PageType PROVE Asking!Uploads \in Seq(File) /\ Distinct(Asking!Uploads)
<1> DEFINE P(k) == Asking!Picked(k)
<1>1. ASSUME NEW k PROVE P(k) \in Seq(File) /\ Distinct(P(k)) /\ \A i \in DOMAIN P(k) : P(k)[i].kind = k
  <2>1. CASE k \in FileKinds /\ page.files[k] # "none"
    <3> DEFINE u == [kind |-> k, file |-> page.files[k]]
    <3>1. u \in File /\ u.kind = k
      BY <2>1 DEF PageType, File
    <3>2. P(k) = <<u>>
      BY <2>1 DEF Asking!Picked
    <3> HIDE DEF u, P
    <3> QED BY <3>1, <3>2 DEF Distinct
  <2>2. CASE ~(k \in FileKinds /\ page.files[k] # "none")
    BY <2>2 DEF Asking!Picked, Distinct
  <2> QED BY <2>1, <2>2
<1> HIDE DEF P
<1> DEFINE u == P("property_map") \o P("rfp")
<1>2. u \in Seq(File) /\ Distinct(u) /\ \A i \in DOMAIN u : u[i].kind \in {"property_map", "rfp"}
  BY <1>1, Joined
<1> HIDE DEF u
<1>3. u \o P("other") \in Seq(File) /\ Distinct(u \o P("other"))
  BY <1>1, <1>2, Joined
<1> QED BY <1>3 DEF Asking!Uploads, u, P

LEMMA SubmitKeeps == ASSUME AskInv, Asking!Submit PROVE AskInv'
<1>1. PICK c \in Attempts, local \in {-1, 0} :
        /\ creates[c] = Asking!NotSent /\ page.open /\ wires = {} /\ page.prop # Blank
        /\ creates' = [creates EXCEPT ![c] = [step |-> "sent", body |-> Asking!Body(local), number |-> 0, has |-> {},
                                              rows |-> [k \in FileKinds |-> "none"]]]
        /\ run' = [of |-> c, draft |-> page.draft, todo |-> <<>>]
        /\ UNCHANGED <<type, page, lookups, drafts, wires, faults, last, spoilt>>
  BY DEF Asking!Submit, Asking!Quiet, Attempts, Asking!bounds
<1> DEFINE b == Asking!Body(local)
           none == [k \in FileKinds |-> "none"]
           new == [step |-> "sent", body |-> b, number |-> 0, has |-> {}, rows |-> none]
<1>2. b \in Body /\ b.files = Asking!Uploads
  <2>1. page \in PageType /\ page.text \in Draft
    BY DEF AskInv, PageType
  <2>2. Asking!Uploads \in Seq(File)
    BY <2>1, UploadsApart
  <2> DEFINE lead == IF type = "install" THEN page.text.typed ELSE page.lead
             due == IF page.text.due = Blank THEN Asking!defaultDueBackDate ELSE page.text.due
  <2>3. page.text.due \in Deadlines \cup {Blank} /\ page.text.typed \in Leads \cup {Blank}
    BY <2>1 DEF Draft, Asking!TextOf
  <2>4. lead \in Leads \cup {Blank}
    BY <2>1, <2>3 DEF PageType
  <2>5. due \in Int
    <3>1. Asking!SeenWindow \in Nat
      BY AskAssumed DEF Asking!SeenWindow
    <3>2. Asking!defaultDueBackDate \in Int
      BY <3>1 DEF Asking!defaultDueBackDate
    <3> QED BY <2>3, <3>2, AskAssumed
  <2>6. page.prop \in Asking!Known \cup {Blank}
    BY <2>1 DEF PageType
  <2>7. b = [prop |-> page.prop, lead |-> lead, files |-> Asking!Uploads, due |-> due, local |-> local]
    BY DEF Asking!Body
  <2> HIDE DEF lead, due, b
  <2> QED BY <2>2, <2>4, <2>5, <2>6, <2>7 DEF Body
<1>3. Distinct(b.files)
  BY <1>2, UploadsApart DEF AskInv
<1>4. none \in [FileKinds -> {"none", "pending", "stored"}] /\ \A k \in FileKinds : none[k] = "none"
  OBVIOUS
<1>5. new.step = "sent" /\ new.body = b /\ new.has = {} /\ new.rows = none /\ new.number = 0
  OBVIOUS
<1>6. Whole(new)
  <2>1. new \in Record(new.number)
    <3> HIDE DEF b, none
    <3> QED BY <1>2, <1>4 DEF Record, Step
  <2> HIDE DEF new, b, none
  <2>2. {} \in Pieces("sent")
    BY DEF Pieces
  <2> QED BY <1>3, <1>4, <1>5, <2>1, <2>2 DEF Whole
<1>7. new # Asking!NotSent
  BY <1>5 DEF Asking!NotSent
<1>8. creates' = [creates EXCEPT ![c] = new]
  BY <1>1
<1> HIDE DEF new, b, none
<1>9. Attempts' = Attempts /\ creates' = [d \in Attempts |-> creates'[d]] /\ creates'[c] = new
      /\ \A d \in Attempts \ {c} : creates'[d] = creates[d]
  BY <1>1, <1>8 DEF AskInv, CreateInv, Attempts
<1>10. run' = [of |-> run'.of, draft |-> run'.draft, todo |-> run'.todo] /\ run'.todo = <<>> /\ run'.of = c /\ run'.draft = page.draft
  BY <1>1
<1>11. CreateInv'
  <2>1. \A d, e \in Attempts : d # e /\ Stored(d)' /\ Stored(e)' => creates'[d].number # creates'[e].number
    BY <1>5, <1>9 DEF AskInv, CreateInv, Stored
  <2>2. \A d \in Attempts : creates'[d] # Asking!NotSent => Whole(creates'[d])
    BY <1>6, <1>9 DEF AskInv, CreateInv
  <2>3. creates'[run'.of].step # "uploading"
    BY <1>5, <1>9, <1>10
  <2>4. faults' \in Nat /\ run'.todo \in Seq(File)
    BY <1>1, <1>10 DEF AskInv, CreateInv
  <2> QED BY <1>7, <1>9, <1>10, <2>1, <2>2, <2>3, <2>4 DEF CreateInv
<1>12. DraftInv'
  <2>1. Draft' = Draft /\ Live' = Live /\ Agrees' = Agrees /\ WorksOn' = WorksOn /\ DraftKnown' = DraftKnown
    BY <1>1 DEF Draft, Live, Agrees, WorksOn, DraftKnown
  <2> QED BY <1>1, <1>10, <2>1 DEF AskInv, DraftInv, Wire, AskedFor, Asking!Busy
<1> QED BY <1>1, <1>11, <1>12, LeadRests DEF AskInv, PageType, Draft

\* A page whose lookups are as a page's that is closed.
LEMMA FinishKeeps == ASSUME AskInv, Asking!Finish PROVE AskInv'
<1> DEFINE c == run.of
           r == creates[c]
           over == [Asking!Over(r) EXCEPT !.step = "done"]
           no == FALSE
           id == IF run.draft # 0 THEN 0 ELSE page.draft
           f == [page EXCEPT !.open = no, !.settled = no, !.draft = id]
<1>1. /\ Asking!Busy /\ r.step = "uploading" /\ run' = Asking!Idle /\ last' = Blank
      /\ creates' = [creates EXCEPT ![c] = over] /\ page' = f /\ Asking!Watch(FALSE, page.prop)
      /\ wires' = Asking!Deafen({"list"}) \cup (IF run.draft # 0 THEN {Asking!Call("delete", run.draft, Blank)} ELSE {})
      /\ UNCHANGED <<type, drafts, spoilt, faults>>
  BY DEF Asking!Finish, Asking!At, Asking!bounds
<1>2. c \in Attempts /\ Whole(r) /\ r # Asking!NotSent
  BY <1>1 DEF AskInv, CreateInv
<1>3. wires = {} /\ page.open /\ run.draft = page.draft
  BY <1>1 DEF AskInv, DraftInv
<1>4. r.has \in Pieces("done")
  BY <1>1, <1>2 DEF Whole, Pieces
<1>5. Whole(over) /\ over.has = r.has /\ over.number = r.number /\ over.step = "done"
  BY <1>2, <1>4, OverIsWhole
<1> HIDE DEF over
<1>6. no \in BOOLEAN /\ ~no /\ page \in PageType /\ id = 0
  BY <1>3 DEF AskInv
<1>7. page' = [page EXCEPT !.open = no, !.settled = no, !.draft = id]
  BY <1>1
<1> HIDE DEF no, f, id
<1>8. page' \in PageType /\ page'.open = no /\ page'.settled = no /\ page'.prop = page.prop /\ page'.draft = 0
  <2>1. id \in Nat BY <1>6
  <2> QED BY <1>6, <1>7, <2>1 DEF PageType
<1>9. Attempts' = Attempts /\ creates' = [d \in Attempts |-> creates'[d]] /\ creates'[c] = over
      /\ \A d \in Attempts \ {c} : creates'[d] = creates[d]
  BY <1>1, <1>2 DEF AskInv, CreateInv, Attempts
<1>10. over # Asking!NotSent
  BY <1>5 DEF Asking!NotSent
<1>11. CreateInv'
  <2>1. \A d, e \in Attempts : d # e /\ Stored(d)' /\ Stored(e)' => creates'[d].number # creates'[e].number
    BY <1>2, <1>5, <1>9 DEF AskInv, CreateInv, Stored
  <2>2. \A d \in Attempts : creates'[d] # Asking!NotSent => Whole(creates'[d])
    BY <1>5, <1>9 DEF AskInv, CreateInv
  <2>3. run' = [of |-> run'.of, draft |-> run'.draft, todo |-> run'.todo] /\ run'.todo \in Seq(File) /\ ~Asking!Busy'
    BY <1>1 DEF Asking!Idle, Asking!Busy
  <2>4. faults' \in Nat
    BY <1>1 DEF AskInv, CreateInv
  <2> QED BY <1>9, <2>1, <2>2, <2>3, <2>4 DEF CreateInv
<1>12. DraftInv'
  <2>1. Draft' = Draft /\ Live' = Live
    BY <1>1 DEF Draft, Live
  <2>2. run.draft \in Nat
    BY <1>3, <1>6 DEF PageType
  <2>3. ~Asking!Busy'
    BY <1>1 DEF Asking!Idle, Asking!Busy
  <2>4. type # "install" => run.draft = 0 /\ drafts = <<>>
    BY <1>3 DEF AskInv, DraftInv
  <2>5. Asking!Deafen({"list"}) = {}
    BY <1>3 DEF Asking!Deafen
  <2>6. ~spoilt => Live = IF run.draft = 0 THEN {} ELSE {run.draft}
    BY <1>3 DEF AskInv, DraftInv, WorksOn
  <2>7. CASE run.draft = 0
    <3>1. wires' = {}
      BY <1>1, <2>5, <2>7
    <3>2. ~spoilt => Agrees' /\ DraftKnown' /\ WorksOn'
      BY <1>1, <1>8, <2>1, <2>6, <2>7 DEF Agrees, DraftKnown, WorksOn
    <3> QED BY <1>1, <1>8, <2>1, <2>3, <2>4, <3>1, <3>2 DEF AskInv, DraftInv
  <2>8. CASE run.draft # 0
    <3>0. PICK x : x = Asking!Call("delete", run.draft, Blank)
      OBVIOUS
    <3>1. wires' = {x}
      BY <1>1, <2>5, <2>8, <3>0
    <3>2. /\ x \in [op : {"list", "save", "delete"}, id : Nat, text : Draft \cup {Blank}, done : BOOLEAN, heard : {TRUE}, n : {x.n}]
          /\ x.op = "delete" /\ x.id = run.draft /\ ~x.done
      <4> DEFINE m == Asking!Min((0..Asking!Cardinality(wires)) \ {y.n : y \in wires})
      <4>1. x = [op |-> "delete", id |-> run.draft, text |-> Blank, done |-> FALSE, heard |-> TRUE, n |-> m]
        BY <3>0 DEF Asking!Call
      <4> HIDE DEF m
      <4> QED BY <2>2, <4>1
    <3>3. Wire(x)'
      BY <2>1, <3>2 DEF Wire
    <3>4. ~spoilt => AskedFor(x)'
      BY <1>1, <1>8, <2>1, <2>6, <2>8, <3>2 DEF AskedFor
    <3> QED BY <1>1, <1>8, <2>1, <2>3, <2>4, <2>8, <3>1, <3>3, <3>4 DEF AskInv, DraftInv
  <2> QED BY <2>7, <2>8
<1>13. LeadInv'
  BY <1>1, <1>6, <1>8, Watched
<1> QED BY <1>1, <1>8, <1>11, <1>12, <1>13 DEF AskInv, PageType, Draft

LEMMA NewCall ==
  ASSUME NEW op \in {"list", "save", "delete"}, NEW id \in Nat, NEW text \in Draft \cup {Blank},
         op = "save" => text \in Draft, op = "list" => id = 0
  PROVE  LET x == Asking!Call(op, id, text) IN
           Wire(x) /\ x.op = op /\ x.id = id /\ x.text = text /\ ~x.done
<1> DEFINE m == Asking!Min((0..Asking!Cardinality(wires)) \ {y.n : y \in wires})
           x == [op |-> op, id |-> id, text |-> text, done |-> FALSE, heard |-> TRUE, n |-> m]
<1>1. Asking!Call(op, id, text) = x
  BY DEF Asking!Call
<1> HIDE DEF m
<1>2. x.op = op /\ x.id = id /\ x.text = text /\ ~x.done /\ x.n = m
      /\ x \in [op : {"list", "save", "delete"}, id : Nat, text : Draft \cup {Blank}, done : BOOLEAN, heard : {TRUE}, n : {m}]
  OBVIOUS
<1> HIDE DEF x
<1>3. Wire(x)
  BY <1>2 DEF Wire
<1> QED BY <1>1, <1>2, <1>3

LEMMA OpenKeeps == ASSUME AskInv, Asking!Open PROVE AskInv'
<1> DEFINE no == FALSE
           yes == TRUE
           f == [page EXCEPT !.open = yes, !.settled = no]
<1>1. /\ wires = {} /\ ~Asking!Busy /\ page' = f /\ Asking!Watch(TRUE, page.prop) /\ Asking!Fetch
      /\ UNCHANGED <<type, run, creates, drafts, last, spoilt, faults>> /\ ~page.open
  BY DEF Asking!Open, Asking!Quiet
<1>2. no \in BOOLEAN /\ yes \in BOOLEAN /\ yes /\ ~no /\ page \in PageType
  BY DEF AskInv
<1> HIDE DEF no, yes
<1>3. page' \in PageType /\ page'.open = yes /\ page'.settled = no /\ page'.prop = page.prop /\ page'.draft = page.draft
  BY <1>1, <1>2 DEF PageType
<1> HIDE DEF f
<1>4. Draft' = Draft /\ Live' = Live /\ Agrees' = Agrees /\ DraftKnown' = DraftKnown /\ ~Asking!Busy'
  BY <1>1, <1>3 DEF Draft, Live, Agrees, DraftKnown, Asking!Busy
<1>5. ~spoilt => Agrees /\ DraftKnown
  BY <1>1 DEF AskInv, DraftInv
<1>6. DraftInv'
  <2>1. CASE type = "install"
    <3>1. PICK x : x = Asking!Call("list", 0, Blank)
      OBVIOUS
    <3>2. wires' = {x}
      BY <1>1, <2>1, <3>1 DEF Asking!Fetch
    <3>3. Wire(x) /\ x.op = "list" /\ x.id = 0 /\ ~x.done
      BY <3>1, NewCall
    <3>4. Wire(x)'
      BY <1>4, <3>3 DEF Wire
    <3>5. ~spoilt => AskedFor(x)'
      BY <1>2, <1>3, <1>4, <1>5, <3>3 DEF AskedFor
    <3> QED BY <1>1, <1>4, <2>1, <3>2, <3>4, <3>5 DEF AskInv, DraftInv
  <2>2. CASE type # "install"
    <3>1. wires' = {} /\ drafts = <<>> /\ page.draft = 0 /\ last = Blank
      BY <1>1, <2>2 DEF Asking!Fetch, AskInv, DraftInv
    <3>2. WorksOn'
      BY <1>1, <1>3, <1>4, <3>1 DEF WorksOn, Live
    <3> QED BY <1>1, <1>3, <1>4, <1>5, <2>2, <3>1, <3>2 DEF AskInv, DraftInv
  <2> QED BY <2>1, <2>2
<1>7. LeadInv'
  BY <1>1, <1>2, <1>3, Watched
<1>8. CreateInv'
  BY <1>1, CreatesRest
<1> QED BY <1>1, <1>3, <1>6, <1>7, <1>8 DEF AskInv, PageType, Draft

LEMMA CloseKeeps == ASSUME AskInv, Asking!Close PROVE AskInv'
<1> DEFINE no == FALSE
           f == [page EXCEPT !.open = no, !.settled = no]
<1>1. /\ wires = {} /\ ~Asking!Busy /\ page' = f /\ Asking!Watch(FALSE, page.prop) /\ wires' = Asking!Deafen({"list"})
      /\ UNCHANGED <<type, run, creates, drafts, last, spoilt, faults>>
  BY DEF Asking!Close, Asking!Quiet, Asking!bounds
<1>2. no \in BOOLEAN /\ ~no /\ page \in PageType
  BY DEF AskInv
<1> HIDE DEF no
<1>3. page' \in PageType /\ page'.open = no /\ page'.settled = no /\ page'.prop = page.prop /\ page'.draft = page.draft
  BY <1>1, <1>2 DEF PageType
<1> HIDE DEF f
<1>4. Draft' = Draft /\ Live' = Live /\ Agrees' = Agrees /\ DraftKnown' = DraftKnown /\ ~Asking!Busy' /\ wires' = {}
  BY <1>1, <1>3 DEF Draft, Live, Agrees, DraftKnown, Asking!Busy, Asking!Deafen
<1>5. DraftInv'
  BY <1>1, <1>2, <1>3, <1>4 DEF AskInv, DraftInv
<1>6. LeadInv'
  BY <1>1, <1>2, <1>3, Watched
<1>7. CreateInv'
  BY <1>1, CreatesRest
<1> QED BY <1>1, <1>3, <1>5, <1>6, <1>7 DEF AskInv, PageType, Draft

LEMMA NewPage == ASSUME type \in {"maintenance", "install"}
  PROVE  Asking!NewForm \in PageType /\ ~Asking!NewForm.open /\ ~Asking!NewForm.settled /\ Asking!NewForm.draft = 0
<1> DEFINE parts == [s \in Asking!Sections |-> ""]
           files == [k \in FileKinds |-> "none"]
           text == [parts |-> parts, due |-> Blank, typed |-> Blank]
<1>1. parts \in [Asking!SectionsOf(type) -> {"", "typed", "zero", "wrong"}]
  BY DEF Asking!Sections
<1> HIDE DEF parts
<1>2. text \in Draft
  BY <1>1 DEF Draft, Asking!TextOf
<1>3. text = Asking!defaultForm
  BY DEF Asking!defaultForm, Asking!NoText, parts
<1>4. files \in [FileKinds -> {"none", "good", "wrong"}]
  OBVIOUS
<1>5. Asking!NewForm = [open |-> FALSE, prop |-> Blank, lead |-> Blank, settled |-> FALSE, loaded |-> FALSE,
                        text |-> text, files |-> files, draft |-> 0]
  BY <1>3 DEF Asking!NewForm
<1> HIDE DEF text, files
<1> QED BY <1>2, <1>4, <1>5 DEF PageType

LEMMA ReloadKeeps == ASSUME AskInv, Asking!Reload PROVE AskInv'
<1>1. /\ wires = {} /\ page' = Asking!NewForm /\ lookups' = [p \in Asking!Known |-> "no"] /\ run' = Asking!Idle
      /\ wires' = Asking!Deafen({"list", "save"}) /\ UNCHANGED <<type, creates, drafts, last, spoilt, faults>>
  BY DEF Asking!Reload, Asking!Quiet, Asking!bounds
<1>2. PageType' = PageType /\ Asking!NewForm' = Asking!NewForm /\ type \in {"maintenance", "install"}
  BY <1>1 DEF AskInv, PageType, Draft, Asking!NewForm, Asking!defaultForm, Asking!NoText, Asking!Sections
<1>3. page' \in PageType /\ ~page'.open /\ ~page'.settled /\ page'.draft = 0
  BY <1>1, <1>2, NewPage
<1>4. Draft' = Draft /\ Live' = Live /\ Agrees' = Agrees /\ DraftKnown' /\ ~Asking!Busy' /\ wires' = {}
  BY <1>1, <1>3 DEF Draft, Live, Agrees, DraftKnown, Asking!Busy, Asking!Deafen, Asking!Idle
<1>5. DraftInv'
  BY <1>1, <1>3, <1>4 DEF AskInv, DraftInv
<1>6. LeadInv'
  BY <1>1, <1>3 DEF LeadInv, Asking!Known
<1>7. CreateInv'
  BY <1>1, CreatesRest
<1> QED BY <1>1, <1>2, <1>3, <1>5, <1>6, <1>7 DEF AskInv

LEMMA SaveKeeps == ASSUME AskInv, Asking!SaveDraft PROVE AskInv'
<1>1. /\ type = "install" /\ wires = {} /\ ~Asking!Busy /\ page.open
      /\ wires' = wires \cup {Asking!Call("save", page.draft, page.text)}
      /\ UNCHANGED <<type, page, lookups, run, creates, drafts, last, spoilt, faults>>
  BY DEF Asking!SaveDraft, Asking!Quiet, Asking!page, Asking!bounds
<1>2. PICK x : x = Asking!Call("save", page.draft, page.text)
  OBVIOUS
<1>3. page.draft \in Nat /\ page.text \in Draft
  BY DEF AskInv, PageType
<1>4. Wire(x) /\ x.op = "save" /\ x.id = page.draft /\ ~x.done
  BY <1>2, <1>3, NewCall
<1>5. wires' = {x}
  BY <1>1, <1>2
<1>6. Draft' = Draft /\ WorksOn' = WorksOn /\ ~Asking!Busy'
  BY <1>1 DEF Draft, WorksOn, Live, Asking!Busy
<1>7. Wire(x)'
  BY <1>4, <1>6 DEF Wire
<1>8. ~spoilt => AskedFor(x)'
  BY <1>1, <1>4, <1>6 DEF AskInv, DraftInv, AskedFor
<1>9. DraftInv'
  BY <1>1, <1>5, <1>6, <1>7, <1>8 DEF AskInv, DraftInv
<1> QED BY <1>1, <1>9, CreatesRest, LeadRests DEF AskInv, PageType, Draft

LEMMA LatestLive ==
  ASSUME AskInv
  PROVE  Asking!Latest \in Nat /\ IF Live = {} THEN Asking!Latest = 0 ELSE Asking!Latest \in Live
<1>1. drafts \in Seq(Draft \cup {Blank})
  BY DEF AskInv, DraftInv
<1>2. Live \subseteq 1..Len(drafts) /\ Len(drafts) \in Nat
  BY <1>1 DEF Live
<1>3. CASE Live = {}
  BY <1>3 DEF Asking!Latest, Live
<1>4. CASE Live # {}
  <2> DEFINE n == Len(drafts)
             T == {n - d : d \in Live}
  <2>1. T \subseteq Nat /\ T # {}
    <3>1. n \in Nat /\ \A d \in Live : d \in 1..n
      BY <1>2
    <3> HIDE DEF n
    <3>2. \A d \in Live : n - d \in Nat
      BY <3>1
    <3> QED BY <1>4, <3>2
  <2>2. PICK m \in T : \A k \in T : m <= k
    BY <2>1, Least
  <2>3. PICK d \in Live : m = n - d
    OBVIOUS
  <2>4. \A e \in Live : n - d <= n - e
    BY <2>2, <2>3
  <2>5. \A e \in Live : e \in Nat /\ d \in Nat /\ n \in Nat
    BY <1>2
  <2>6. \A e \in Live : d >= e
    <3> HIDE DEF n
    <3> QED BY <2>4, <2>5
  <2>7. Asking!Max(Live) \in Live
    BY <2>6 DEF Asking!Max
  <2>8. Asking!Latest = Asking!Max(Live)
    BY <1>4 DEF Asking!Latest, Live
  <2>9. Asking!Max(Live) \in Nat
    <3>1. \A e \in Live : e \in Nat
      BY <1>2
    <3> QED BY <2>7, <3>1
  <2> QED BY <2>7, <2>8, <2>9, <1>4
<1> QED BY <1>3, <1>4

LEMMA ServeKeeps == ASSUME AskInv, NEW x \in wires, Asking!Serve(x) PROVE AskInv'
<1>1. /\ ~x.done /\ UNCHANGED <<type, page, lookups, run, creates, last, spoilt, faults>>
      /\ drafts' = CASE x.op = "save" /\ x.id = 0 -> Append(drafts, x.text)
                     [] x.op = "save" /\ Asking!Exists(x.id) -> [drafts EXCEPT ![x.id] = x.text]
                     [] x.op = "delete" /\ Asking!Exists(x.id) -> [drafts EXCEPT ![x.id] = Blank]
                     [] OTHER -> drafts
  BY DEF Asking!Serve, Asking!page, Asking!bounds
<1> DEFINE id == CASE x.op = "list" -> Asking!Latest
                   [] x.op = "save" /\ x.id = 0 -> Len(drafts) + 1
                   [] x.op = "save" /\ x.id # 0 /\ ~Asking!Exists(x.id) -> 0
                   [] OTHER -> x.id
           text == IF x.op = "list" /\ id # 0 THEN drafts[id] ELSE x.text
<1>2. /\ Wire(x) /\ type = "install" /\ drafts \in Seq(Draft \cup {Blank}) /\ ~Asking!Busy
      /\ ~spoilt => wires = {x} /\ AskedFor(x)
  BY DEF AskInv, DraftInv
<1>3. /\ x.op \in {"list", "save", "delete"} /\ x.id \in Nat /\ x.text \in Draft \cup {Blank} /\ x.heard
      /\ x.op = "save" \/ (x.op = "list" /\ x.id # 0) => x.text \in Draft
  BY <1>2 DEF Wire
<1>4. \E a : /\ a = [x EXCEPT !.done = TRUE, !.id = id, !.text = text]
             /\ wires' = (wires \ {x}) \cup (IF x.heard /\ x.op # "delete" THEN {a} ELSE {})
  BY DEF Asking!Serve
<1>5. Draft' = Draft /\ ~Asking!Busy' /\ Blank \notin Draft
  BY <1>1, <1>2, DraftIsText DEF Draft, Asking!Busy, AskInv
<1>6. DOMAIN drafts = 1..Len(drafts) /\ Len(drafts) \in Nat
  BY <1>2
<1>7. CASE x.op = "list"
  <2>1. drafts' = drafts /\ id = Asking!Latest /\ text = IF id # 0 THEN drafts[id] ELSE x.text
    BY <1>1, <1>7
  <2>2. id \in Nat /\ (IF Live = {} THEN id = 0 ELSE id \in Live)
    BY <2>1, LatestLive
  <2> HIDE DEF id, text
  <2>3. text \in Draft \cup {Blank} /\ (id # 0 => text \in Draft)
    BY <1>2, <1>3, <2>1, <2>2 DEF Live
  <2>4. PICK a : /\ Wire(a) /\ a.done /\ a.id = id /\ a.text = text /\ a.op = "list"
                 /\ wires' = (wires \ {x}) \cup {a}
    <3> DEFINE yes == TRUE
    <3>0. yes \in BOOLEAN /\ yes
      OBVIOUS
    <3>1. PICK a : /\ a = [x EXCEPT !.done = yes, !.id = id, !.text = text]
                   /\ wires' = (wires \ {x}) \cup (IF x.heard /\ x.op # "delete" THEN {a} ELSE {})
      BY <1>4
    <3> HIDE DEF yes
    <3>2. Wire(a) /\ a.done /\ a.id = id /\ a.text = text /\ a.op = x.op
      <4>1. /\ a \in [op : {"list", "save", "delete"}, id : Nat, text : Draft \cup {Blank}, done : BOOLEAN, heard : {TRUE}, n : {x.n}]
            /\ a.done = yes /\ a.id = id /\ a.text = text /\ a.op = x.op /\ a.n = x.n
        BY <1>2, <1>3, <1>7, <2>2, <2>3, <3>0, <3>1 DEF Wire
      <4> QED BY <1>2, <1>3, <1>7, <2>2, <2>3, <3>0, <3>1, <4>1 DEF Wire
    <3>3. wires' = (wires \ {x}) \cup {a}
      BY <1>3, <1>7, <3>1
    <3> QED BY <1>7, <2>2, <2>3, <3>2, <3>3
  <2>5. Live' = Live /\ Agrees' = Agrees /\ DraftKnown' = DraftKnown
    BY <1>1, <2>1 DEF Live, Agrees, DraftKnown
  <2>6. ~spoilt => AskedFor(a)'
    <3>1. id # 0 => id \in Live
      BY <2>2
    <3>2. \A d \in Live : d # 0
      BY <1>6 DEF Live
    <3>3. ~spoilt => Agrees /\ DraftKnown /\ page.open
      BY <1>2, <1>7 DEF AskedFor
    <3>4. ~spoilt /\ Live # {} => Live = {id} /\ text = drafts[id]
      BY <2>1, <2>2, <3>2, <3>3 DEF Agrees
    <3> QED BY <1>1, <2>1, <2>2, <2>4, <2>5, <3>3, <3>4 DEF AskedFor
  <2>7. Wire(a)'
    BY <1>5, <2>4 DEF Wire
  <2>8. \A y \in wires : Wire(y)'
    BY <1>5 DEF AskInv, DraftInv, Wire
  <2>9. DraftInv'
    BY <1>1, <1>2, <1>5, <2>1, <2>4, <2>6, <2>7, <2>8 DEF DraftInv
  <2> QED BY <1>1, <2>9, CreatesRest, LeadRests DEF AskInv, PageType, Draft
<1>8. CASE x.op = "save"
  <2>1. x.text \in Draft /\ text = x.text
    BY <1>3, <1>8
  <2>2. id \in Nat
    BY <1>3, <1>6, <1>8
  <2> HIDE DEF id, text
  <2>3. PICK a : /\ Wire(a) /\ a.done /\ a.id = id /\ a.text = x.text /\ a.op = "save"
                 /\ wires' = (wires \ {x}) \cup {a}
    <3> DEFINE yes == TRUE
    <3>0. yes \in BOOLEAN /\ yes
      OBVIOUS
    <3>1. PICK a : /\ a = [x EXCEPT !.done = yes, !.id = id, !.text = text]
                   /\ wires' = (wires \ {x}) \cup (IF x.heard /\ x.op # "delete" THEN {a} ELSE {})
      BY <1>4
    <3> HIDE DEF yes
    <3>2. Wire(a) /\ a.done /\ a.id = id /\ a.text = text /\ a.op = x.op
      <4>1. /\ a \in [op : {"list", "save", "delete"}, id : Nat, text : Draft \cup {Blank}, done : BOOLEAN, heard : {TRUE}, n : {x.n}]
            /\ a.done = yes /\ a.id = id /\ a.text = text /\ a.op = x.op /\ a.n = x.n
        BY <1>2, <1>3, <1>8, <2>1, <2>2, <3>0, <3>1 DEF Wire
      <4> QED BY <1>2, <1>3, <1>8, <2>1, <2>2, <3>0, <3>1, <4>1 DEF Wire
    <3>3. wires' = (wires \ {x}) \cup {a}
      BY <1>3, <1>8, <3>1
    <3> QED BY <1>8, <2>1, <2>2, <3>2, <3>3
  <2>4. drafts' \in Seq(Draft \cup {Blank})
    BY <1>1, <1>2, <1>3, <1>8, <2>1
  <2>5. ~spoilt => page.open /\ x.id = page.draft /\ WorksOn
    BY <1>1, <1>2, <1>8 DEF AskedFor
  <2>6. ~spoilt => Live' = {id} /\ drafts'[id] = x.text
    <3>1. CASE x.id = 0
      <4>1. id = Len(drafts) + 1 /\ drafts' = Append(drafts, x.text)
        <5>1. ~Asking!Exists(x.id)
          BY <1>6, <3>1 DEF Asking!Exists
        <5> QED BY <1>1, <1>8, <3>1, <5>1 DEF id
      <4>2. DOMAIN drafts' = 1..(Len(drafts) + 1) /\ drafts'[id] = x.text /\ \A d \in 1..Len(drafts) : drafts'[d] = drafts[d]
        BY <1>2, <1>6, <2>1, <4>1
      <4>3. ~spoilt => \A d \in 1..Len(drafts) : drafts[d] = Blank
        BY <1>6, <2>5, <3>1 DEF WorksOn, Live
      <4>4. ~spoilt => \A d \in DOMAIN drafts' : drafts'[d] # Blank <=> d = id
        BY <1>5, <1>6, <2>1, <4>1, <4>2, <4>3
      <4>5. id \in DOMAIN drafts'
        BY <1>6, <4>1, <4>2
      <4> QED BY <4>2, <4>4, <4>5 DEF Live
    <3>2. CASE x.id # 0
      <4>1. ~spoilt => Live = {x.id} /\ Asking!Exists(x.id)
        BY <2>5, <3>2 DEF WorksOn, Live, Asking!Exists
      <4>2. ~spoilt => id = x.id /\ drafts' = [drafts EXCEPT ![x.id] = x.text]
        BY <1>1, <1>8, <3>2, <4>1 DEF id
      <4>3. ~spoilt => x.id \in DOMAIN drafts
        BY <4>1 DEF Asking!Exists
      <4> QED BY <1>5, <2>1, <4>1, <4>2, <4>3 DEF Live
    <3> QED BY <3>1, <3>2
  <2>7. ~spoilt => AskedFor(a)'
    BY <1>1, <2>3, <2>5, <2>6 DEF AskedFor
  <2>8. Wire(a)'
    BY <1>5, <2>3 DEF Wire
  <2>9. \A y \in wires : Wire(y)'
    BY <1>5 DEF AskInv, DraftInv, Wire
  <2>10. DraftInv'
    BY <1>1, <1>2, <1>5, <2>3, <2>4, <2>7, <2>8, <2>9 DEF DraftInv
  <2> QED BY <1>1, <2>10, CreatesRest, LeadRests DEF AskInv, PageType, Draft
<1>9. CASE x.op = "delete"
  <2>1. wires' = wires \ {x}
    BY <1>4, <1>9
  <2>2. drafts' \in Seq(Draft \cup {Blank})
    BY <1>1, <1>2, <1>3, <1>9
  <2>3. ~spoilt => last = Blank /\ Live = {x.id} /\ page.draft = 0 /\ wires = {x}
    BY <1>2, <1>9 DEF AskedFor
  <2>4. ~spoilt => Live' = {}
    <3>1. ~spoilt => x.id \in DOMAIN drafts /\ Asking!Exists(x.id)
      BY <2>3 DEF Live, Asking!Exists
    <3>2. ~spoilt => drafts' = [drafts EXCEPT ![x.id] = Blank]
      BY <1>1, <1>9, <3>1
    <3> QED BY <2>3, <3>1, <3>2 DEF Live
  <2>5. ~spoilt => wires' = {} /\ Agrees' /\ DraftKnown' /\ WorksOn'
    BY <1>1, <2>1, <2>3, <2>4 DEF Agrees, DraftKnown, WorksOn
  <2>6. \A y \in wires : Wire(y)'
    BY <1>5 DEF AskInv, DraftInv, Wire
  <2>7. DraftInv'
    BY <1>1, <1>2, <1>5, <2>1, <2>2, <2>5, <2>6 DEF DraftInv
  <2> QED BY <1>1, <2>7, CreatesRest, LeadRests DEF AskInv, PageType, Draft
<1> QED BY <1>3, <1>7, <1>8, <1>9

LEMMA AnsweredKeeps == ASSUME AskInv, NEW x \in wires, Asking!Saved(x) \/ Asking!Resume(x) PROVE AskInv'
<1>1. /\ x.done /\ wires' = wires \ {x} /\ UNCHANGED <<type, lookups, run, creates, drafts, spoilt, faults>>
      /\ Wire(x) /\ type = "install" /\ ~Asking!Busy /\ page \in PageType /\ page.text \in Draft
      /\ ~spoilt => wires = {x} /\ AskedFor(x)
  BY DEF Asking!Saved, Asking!Resume, Asking!bounds, AskInv, DraftInv, PageType
<1>2. x.id \in Nat /\ (x.op = "save" \/ (x.op = "list" /\ x.id # 0) => x.text \in Draft)
  BY <1>1 DEF Wire
<1>3. Draft' = Draft /\ PageType' = PageType /\ Live' = Live /\ ~Asking!Busy' /\ Blank \notin Draft
  BY <1>1, DraftIsText DEF Draft, PageType, Live, Asking!Busy, AskInv
<1>4. \A y \in wires : Wire(y)'
  BY <1>3 DEF AskInv, DraftInv, Wire
<1>5. ~spoilt => wires' = {}
  BY <1>1
<1>6. CASE Asking!Saved(x)
  <2> DEFINE f == [page EXCEPT !.draft = x.id]
  <2>1. f \in PageType /\ f.draft = x.id /\ f.open = page.open /\ f.prop = page.prop /\ f.lead = page.lead /\ f.settled = page.settled
    BY <1>1, <1>2 DEF PageType
  <2>2. x.op = "save" /\ page' = (IF x.id # 0 THEN f ELSE page) /\ last' = IF x.id # 0 THEN x.text ELSE last
    BY <1>6 DEF Asking!Saved
  <2> HIDE DEF f
  <2>3. /\ page' \in PageType /\ page'.open = page.open /\ page'.prop = page.prop /\ page'.lead = page.lead
        /\ page'.settled = page.settled
    BY <1>1, <2>1, <2>2
  <2>4. ~spoilt => Live = {x.id} /\ drafts[x.id] = x.text
    BY <1>1, <2>2 DEF AskedFor
  <2>5. ~spoilt => x.id \in DOMAIN drafts /\ x.id # 0
    <3>1. drafts \in Seq(Draft \cup {Blank})
      BY DEF AskInv, DraftInv
    <3>2. \A d \in DOMAIN drafts : d # 0
      BY <3>1
    <3> QED BY <2>4, <3>2 DEF Live
  <2>6. x.text # Blank
    BY <1>2, <1>3, <2>2
  <2>7. ~spoilt => Agrees' /\ DraftKnown' /\ WorksOn'
    BY <1>1, <1>3, <2>1, <2>2, <2>4, <2>5, <2>6 DEF Agrees, DraftKnown, WorksOn
  <2>8. DraftInv'
    BY <1>1, <1>3, <1>4, <1>5, <2>7 DEF AskInv, DraftInv
  <2>9. LeadInv'
    BY <1>1, <2>3 DEF AskInv, LeadInv, Asking!Known
  <2> QED BY <1>1, <1>3, <2>3, <2>8, <2>9, CreatesRest DEF AskInv
<1>7. CASE Asking!Resume(x)
  <2> DEFINE f == [page EXCEPT !.draft = x.id, !.text = x.text]
  <2>1. x.id # 0 /\ x.op = "list" => /\ f \in PageType /\ f.draft = x.id /\ f.open = page.open /\ f.prop = page.prop
                                     /\ f.lead = page.lead /\ f.settled = page.settled
    BY <1>1, <1>2 DEF PageType
  <2>2. x.op = "list" /\ page' = (IF x.id # 0 THEN f ELSE page) /\ last' = last
    BY <1>7 DEF Asking!Resume
  <2> HIDE DEF f
  <2>3. /\ page' \in PageType /\ page'.open = page.open /\ page'.prop = page.prop /\ page'.lead = page.lead
        /\ page'.settled = page.settled /\ page'.draft = IF x.id # 0 THEN x.id ELSE page.draft
    BY <1>1, <2>1, <2>2
  <2>4. ~spoilt => /\ Agrees /\ DraftKnown
                   /\ IF Live # {} THEN Live = {x.id} ELSE x.id = 0
    BY <1>1, <2>2 DEF AskedFor
  <2>5. \A d \in Live : d # 0
    <3>1. drafts \in Seq(Draft \cup {Blank})
      BY DEF AskInv, DraftInv
    <3>2. \A d \in DOMAIN drafts : d # 0
      BY <3>1
    <3> QED BY <3>2 DEF Live
  <2>6. ~spoilt => Agrees' /\ DraftKnown' /\ WorksOn'
    BY <1>1, <1>3, <2>2, <2>3, <2>4, <2>5 DEF Agrees, DraftKnown, WorksOn
  <2>7. DraftInv'
    BY <1>1, <1>3, <1>4, <1>5, <2>6 DEF AskInv, DraftInv
  <2>8. LeadInv'
    BY <1>1, <2>3 DEF AskInv, LeadInv, Asking!Known
  <2> QED BY <1>1, <1>3, <2>3, <2>7, <2>8, CreatesRest DEF AskInv
<1> QED BY <1>6, <1>7

LEMMA AskStep == ASSUME AskInv, Asking!Next PROVE AskInv'
<1>1. CASE Asking!Fields
  <2>1. CASE \E p \in Asking!Known : Asking!LeadArrives(p)
    BY <2>1, LeadKeeps
  <2> QED BY <1>1, <2>1, EditsKeep, PropertyKeeps DEF Asking!Fields
<1>2. CASE Asking!UploadFile
  <2>1. Asking!Upload(IF Asking!Accepted(Head(run.todo)) THEN "stored" ELSE "none") /\ faults' = faults
    BY <1>2 DEF Asking!UploadFile
  <2>2. CASE Asking!Accepted(Head(run.todo))
    BY <2>1, <2>2, UploadKeeps
  <2>3. CASE ~Asking!Accepted(Head(run.todo))
    BY <2>1, <2>3, UploadKeeps
  <2> QED BY <2>2, <2>3
<1>3. CASE Asking!UploadFails
  <2>1. PICK s \in {"none", "pending"} : Asking!Upload(s) /\ faults' = faults + 1
    BY <1>3 DEF Asking!UploadFails
  <2> QED BY <2>1, UploadKeeps
<1>4. CASE \E c \in Attempts : Asking!Create(c) \/ Asking!CreateDies(c)
  <2>1. PICK c \in Attempts : Asking!Create(c) \/ Asking!CreateDies(c)
    BY <1>4
  <2> QED BY <2>1, CheckKeeps2, CreateKeeps, CreatedKeeps, LossesKeep, DiesKeeps DEF Asking!Create
<1>5. CASE \E x \in wires : Asking!Serve(x) \/ Asking!Saved(x) \/ Asking!Resume(x)
  BY <1>5, ServeKeeps, AnsweredKeeps
<1> QED BY <1>1, <1>2, <1>3, <1>4, <1>5, OpenKeeps, CloseKeeps, ReloadKeeps, SubmitKeeps, FinishKeeps, SaveKeeps,
           LossesKeep, LookupFailsKeeps, CallFailsKeeps DEF Asking!Next, Attempts

LEMMA AskRests == ASSUME AskInv, UNCHANGED asking PROVE AskInv'
<1>1. /\ UNCHANGED <<type, page, lookups, run, creates, drafts, wires, last, spoilt>> /\ faults' = faults
      /\ (Asking!Busy' => Asking!Busy /\ run' = run)
  BY DEF asking, Asking!Busy
<1> QED BY <1>1, CreatesRest, DraftsRest, LeadRests DEF AskInv

LEMMA AskStart == ASSUME Asking!Init PROVE AskInv
<1>1. type \in {"maintenance", "install"} /\ page = Asking!NewForm /\ run = Asking!Idle /\ wires = {} /\ drafts = <<>>
      /\ last = Blank /\ faults = 0 /\ lookups = [p \in Asking!Known |-> "no"]
      /\ creates = [c \in Attempts |-> Asking!NotSent]
  BY DEF Asking!Init, Attempts
<1>2. page \in PageType /\ ~page.open /\ ~page.settled /\ page.draft = 0
  BY <1>1, NewPage
<1>3. LeadInv
  BY <1>1, <1>2 DEF LeadInv
<1>4. ~Asking!Busy /\ run = [of |-> run.of, draft |-> run.draft, todo |-> run.todo] /\ run.todo \in Seq(File)
  BY <1>1 DEF Asking!Busy, Asking!Idle
<1>5. CreateInv
  BY <1>1, <1>4 DEF CreateInv, Stored
<1>6. Live = {}
  BY <1>1 DEF Live
<1>7. DraftInv
  BY <1>1, <1>2, <1>4, <1>6 DEF DraftInv, Agrees, DraftKnown
<1> QED BY <1>1, <1>2, <1>3, <1>5, <1>7 DEF AskInv

\* What a form was told of its estimate and of its draft is stored.
LEMMA AskedIsKept == ASSUME AskInv PROVE Asking!EstimateIsWhole /\ Asking!DraftsFollow
<1>1. ASSUME NEW c \in Asking!Sent
      PROVE  /\ "lead" \in creates[c].has => "project" \in creates[c].has
             /\ "project" \in creates[c].has => "intake" \in creates[c].has
             /\ "intake" \in creates[c].has => "estimate" \in creates[c].has
             /\ creates[c].step \in {"created", "uploading", "done"} =>
                  {"estimate", "intake", "project"} \subseteq creates[c].has
                  /\ (creates[c].body.lead # Blank => "lead" \in creates[c].has)
  <2>1. Whole(creates[c])
    BY DEF AskInv, CreateInv, Asking!Sent, Attempts
  <2> QED BY <2>1 DEF Whole, Record, Step, Pieces
<1>2. ASSUME Asking!Busy, Asking!At(run.of, "uploading"), run.todo = <<>>, faults = 0
      PROVE  {k \in FileKinds : creates[run.of].rows[k] = "stored"} =
             {u.kind : u \in {v \in Asking!ToSet(creates[run.of].body.files) : Asking!Accepted(v)}}
  <2> DEFINE r == creates[run.of]
             files == r.body.files
  <2>1. Whole(r) /\ Uploading(r)
    BY <1>2 DEF AskInv, CreateInv, Asking!At
  <2>2. files \in Seq(File)
    BY <2>1 DEF Whole, Record, Body
  <2>3. \A i \in DOMAIN files : files[i] \in File /\ i \in Nat /\ i <= Len(files) /\ Len(files) \in Nat
    BY <2>2
  <2>4. Len(run.todo) = 0 /\ Len(files) - 0 = Len(files)
    BY <1>2, <2>2
  <2>5. \A i \in DOMAIN files : r.rows[files[i].kind] = "stored" <=> files[i].file = "good"
    <3>1. \A i \in DOMAIN files : r.rows[files[i].kind] = "stored" <=> i <= Len(files) /\ files[i].file = "good"
      BY <1>2, <2>1, <2>4 DEF Uploading
    <3> QED BY <2>3, <3>1
  <2>6. \A k \in FileKinds : r.rows[k] = "stored" => \E i \in DOMAIN files : files[i].kind = k
    BY <1>2, <2>1 DEF Uploading
  <2>7. \A k : k \in {u.kind : u \in {v \in Asking!ToSet(files) : Asking!Accepted(v)}} <=>
               \E i \in DOMAIN files : files[i].kind = k /\ files[i].file = "good"
    BY DEF Asking!ToSet, Asking!Accepted
  <2>8. \A i \in DOMAIN files : files[i].kind \in FileKinds
    BY <2>3 DEF File
  <2> HIDE DEF files, r
  <2>9. \A k : k \in {j \in FileKinds : r.rows[j] = "stored"} <=>
               \E i \in DOMAIN files : files[i].kind = k /\ files[i].file = "good"
    BY <2>5, <2>6, <2>8
  <2> QED BY <2>7, <2>9 DEF r, files
<1>3. \A c, d \in Asking!Sent : c # d /\ {"estimate"} \subseteq creates[c].has \cap creates[d].has => creates[c].number # creates[d].number
  BY DEF AskInv, CreateInv, Asking!Sent, Attempts, Stored
<1>4. Asking!EstimateIsWhole
  BY <1>1, <1>2, <1>3 DEF Asking!EstimateIsWhole
<1>5. ASSUME ~spoilt, wires = {}
      PROVE  /\ {drafts[d] : d \in {x \in DOMAIN drafts : Asking!Exists(x)}} = IF last = Blank THEN {} ELSE {last}
             /\ page.draft # 0 => Asking!Exists(page.draft)
  <2>1. Agrees /\ DraftKnown
    BY <1>5 DEF AskInv, DraftInv
  <2>2. Live = {x \in DOMAIN drafts : Asking!Exists(x)}
    BY DEF Live, Asking!Exists
  <2> QED BY <2>1, <2>2 DEF Agrees, DraftKnown
<1>6. Asking!DraftsFollow
  BY <1>5 DEF Asking!DraftsFollow
<1> QED BY <1>4, <1>6

LEMMA LeavesAsShown ==
  ASSUME AskInv, Asking!Next, NEW c \in Attempts, Asking!Leaves(c)
  PROVE  Asking!LeadIsOfProperty(c) /\ Asking!RushAsShown(c)
<1>1. \A d, x : creates' = [creates EXCEPT ![d] = x] /\ c # d => creates'[c] = creates[c]
  BY DEF AskInv, CreateInv
<1>2. \A d, x, y : creates' = [creates EXCEPT ![d].rows[x] = y] /\ c # d => creates'[c] = creates[c]
  BY DEF AskInv, CreateInv
<1>3. \A d, x : creates' = [creates EXCEPT ![d].step = x] /\ c # d => creates'[c] = creates[c]
  BY DEF AskInv, CreateInv
<1>4. creates[c].step = "none" /\ creates[c] = Asking!NotSent /\ creates'[c] # creates[c]
  BY DEF Asking!Leaves, Asking!NotSent
<1>5. Asking!Submit
  <2>1. ASSUME NEW d, Asking!Check(d) \/ Asking!Insert(d) \/ Asking!AddIntake(d) \/ Asking!AddProject(d) \/ Asking!MoveLead(d)
        PROVE FALSE
    BY <1>1, <1>4, <2>1 DEF Asking!Check, Asking!Insert, Asking!AddIntake, Asking!AddProject, Asking!MoveLead, Asking!Has,
       Asking!Server, Asking!At
  <2>2. ASSUME NEW d, Asking!Created(d) \/ Asking!NotCreated(d) \/ Asking!CreateDies(d) PROVE FALSE
    BY <1>1, <1>3, <1>4, <2>2 DEF Asking!Created, Asking!NotCreated, Asking!CreateDies, Asking!At
  <2>3. ~Asking!UploadFile /\ ~Asking!UploadFails
    <3>1. ASSUME NEW s, Asking!Upload(s) PROVE FALSE
      <4>1. creates' = [creates EXCEPT ![run.of].rows[Head(run.todo).kind] = s] /\ c # run.of
        BY <1>4, <3>1 DEF Asking!Upload, Asking!At
      <4>2. creates'[c] = creates[c]
        BY <4>1 DEF AskInv, CreateInv
      <4> QED BY <1>4, <4>2
    <3> QED BY <3>1 DEF Asking!UploadFile, Asking!UploadFails
  <2>4. ~Asking!Finish
    BY <1>1, <1>4 DEF Asking!Finish, Asking!At
  <2>5. ~Asking!AnswerLost /\ ~Asking!LookupFails /\ ~Asking!CallFails /\ ~Asking!PropertyFails /\ ~Asking!Open /\ ~Asking!Close
        /\ ~Asking!Reload /\ ~Asking!SaveDraft
    BY <1>4 DEF Asking!AnswerLost, Asking!LookupFails, Asking!CallFails, Asking!PropertyFails, Asking!Open, Asking!Close,
       Asking!Reload, Asking!SaveDraft, Asking!bounds
  <2>6. ASSUME NEW x \in wires, Asking!Serve(x) \/ Asking!Saved(x) \/ Asking!Resume(x) PROVE FALSE
    BY <1>4, <2>6 DEF Asking!Serve, Asking!Saved, Asking!Resume, Asking!bounds
  <2>7. ~Asking!Fields
    <3>1. \A f : ~Asking!Edit(f)
      BY <1>4 DEF Asking!Edit
    <3>2. \A p : ~Asking!Select(p) /\ ~Asking!LeadArrives(p)
      BY <1>4 DEF Asking!Select, Asking!LeadArrives, Asking!bounds
    <3>3. ~Asking!CreateProperty /\ ~Asking!PropertyCreated /\ ~Asking!LoadSettings
      BY <1>4 DEF Asking!CreateProperty, Asking!PropertyCreated, Asking!LoadSettings, Asking!bounds
    <3> QED BY <3>1, <3>2, <3>3 DEF Asking!Fields, Asking!EditContact, Asking!EditContract, Asking!EditOccurrences,
               Asking!EditDates, Asking!AttachFile, Asking!RemoveFile, Asking!EditRequest, Asking!EditOpportunity,
               Asking!EditClient, Asking!EditLandscape, Asking!EditIrrigation, Asking!EditRfi, Asking!Typed,
               Asking!PickProperty, Asking!ClearProperty
  <2> QED BY <2>1, <2>2, <2>3, <2>4, <2>5, <2>6, <2>7 DEF Asking!Next, Asking!Create
<1>6. PICK d \in Attempts, local \in {-1, 0} :
        creates' = [creates EXCEPT ![d] = [step |-> "sent", body |-> Asking!Body(local), number |-> 0, has |-> {},
                                           rows |-> [k \in FileKinds |-> "none"]]]
  BY <1>5 DEF Asking!Submit, Attempts
<1>7. c = d
  BY <1>1, <1>4, <1>6
<1>8. creates'[c].body = Asking!Body(local)
  BY <1>6, <1>7 DEF AskInv, CreateInv
<1>9. Asking!LeadIsOfProperty(c)
  BY <1>8 DEF AskInv, LeadInv, Asking!LeadIsOfProperty, Asking!Body
<1>10. Asking!RushAsShown(c)
  <2> DEFINE due == IF page.text.due = Blank THEN Asking!defaultDueBackDate ELSE page.text.due
  <2>1. creates'[c].body.due = due
    BY <1>8 DEF Asking!Body
  <2>2. page.text.due \in Deadlines \cup {Blank}
    BY DEF AskInv, PageType, Draft, Asking!TextOf
  <2> SUFFICES ASSUME page.loaded
               PROVE  Asking!IsRush(due, Window) <=> page.text.due # Blank /\ Asking!isRushWindowDate(page.text.due, Asking!SeenWindow, 0)
    BY <2>1 DEF Asking!RushAsShown
  <2>3. Asking!SeenWindow = Window /\ Window \in Nat
    BY AskAssumed DEF Asking!SeenWindow
  <2>4. CASE page.text.due = Blank
    <3>1. due = Window
      BY <2>3, <2>4 DEF Asking!defaultDueBackDate
    <3> QED BY <2>3, <2>4, <3>1 DEF Asking!IsRush
  <2>5. CASE page.text.due # Blank
    <3>1. due = page.text.due /\ due \in Int
      BY <2>2, <2>5, AskAssumed
    <3> HIDE DEF due
    <3> QED BY <2>3, <2>5, <3>1 DEF Asking!IsRush, Asking!isRushWindowDate
  <2> QED BY <2>4, <2>5
<1> QED BY <1>9, <1>10

THEOREM AskingHolds == OfficeSpec => []AskInv
<1>1. OfficeInit => AskInv
  BY AskStart DEF OfficeInit
<1>2. AskInv /\ [OfficeNext]_<<scene, vars, asking, paneling>> => AskInv'
  BY AskStep, AskRests DEF OfficeNext
<1> QED BY <1>1, <1>2, PTL DEF OfficeSpec

\* What leaves a form is what it showed.
THEOREM FormsAreAsShown == OfficeSpec => SentAsShown
<1>1. AskInv /\ [OfficeNext]_<<scene, vars, asking, paneling>> =>
        [\A c \in 1..MaxCreates[type] : Asking!Leaves(c) => Asking!LeadIsOfProperty(c) /\ Asking!RushAsShown(c)]_(Asking!vars)
  <2> SUFFICES ASSUME AskInv, [OfficeNext]_<<scene, vars, asking, paneling>>
               PROVE  \/ \A c \in 1..MaxCreates[type] : Asking!Leaves(c) => Asking!LeadIsOfProperty(c) /\ Asking!RushAsShown(c)
                      \/ UNCHANGED Asking!vars
    OBVIOUS
  <2>1. CASE Asking!Next
    BY <2>1, LeavesAsShown DEF Attempts
  <2>2. CASE UNCHANGED asking
    BY <2>2 DEF asking, Asking!vars, Asking!page, Asking!bounds
  <2> QED BY <2>1, <2>2 DEF OfficeNext
<1> QED BY <1>1, AskingHolds, PTL DEF OfficeSpec, SentAsShown, Asking!SentAsShown

-----------------------------------------------------------------------------
(* Making and editing a management company                                   *)

PanelRow == [id : Nat, name : Names \cup {Empty}, title : Titles \cup {Empty}]
FormType == [site : Sites \cup {Empty}, rows : Seq(PanelRow)]
CompanyType == [site : Sites \cup {Empty}, contacts : SUBSET PanelRow, made : Nat]

Ids(f) == {f.rows[i].id : i \in DOMAIN f.rows} \ {0}
NewKeys(f) == {i \in DOMAIN f.rows : f.rows[i].id = 0 /\ Panel!NotBlank(f.rows[i])}
ContactIds(co) == {c.id : c \in co.contacts}

WellMade(co) ==
  /\ co \in CompanyType /\ IsFiniteSet(co.contacts)
  /\ \A c \in co.contacts : c.id # 0 /\ c.id <= co.made
  /\ \A c, d \in co.contacts : c.id = d.id => c = d
Apart(f) == \A i, j \in DOMAIN f.rows : f.rows[i].id = f.rows[j].id /\ f.rows[i].id # 0 => i = j

\* Every contact in S is one of the rows, and every row one contact.
Matched(S, rows, keys) ==
  \E g \in [S -> keys] :
    /\ \A c \in S : Panel!Alike(rows[g[c]], c)
    /\ \A c, d \in S : g[c] = g[d] => c = d
    /\ \A i \in keys : \E c \in S : g[c] = i

Made(co, from) == {c \in co.contacts : c.id > from}

Matches(f, co) ==
  /\ f.site # Empty => co.site = f.site
  /\ \A i \in DOMAIN f.rows : f.rows[i].id # 0 => \E c \in co.contacts : c.id = f.rows[i].id /\ Panel!Shows(f.rows[i], c)
  /\ Matched({c \in co.contacts : c.id \notin Ids(f)}, f.rows, NewKeys(f))

PanelAsk ==
  [op : {"create", "edit", "delete", "update", "add"}, key : Nat, row : PanelRow, changed : SUBSET {"name", "title"},
   save : {clicks}, state : {"sent", "running", "ok", "failed"}, done : Nat]
Pending(c) == c.state \in {"sent", "failed"}

PanelTypeOK ==
  /\ mode \in {"edit", "create"} /\ stage \in {"idle", "create", "edit", "contacts"} /\ clicks \in Nat
  /\ fields \in FormType /\ sent \in [fields : FormType, list : CompanyType] /\ requests \subseteq PanelAsk
  /\ list \in CompanyType /\ fetch \in [step : {"none", "asked", "read"}, read : CompanyType]
  /\ WellMade(company)

\* A company that is made: the contacts that are there are the rows that were served.
Creating ==
  /\ Ids(fields) = {} /\ Ids(sent.fields) = {}
  /\ \A c \in requests :
       /\ requests = {c} /\ c.op = "create" /\ stage = "create"
       /\ c.state = "sent" => c.done = 0
       /\ c.state \in {"running", "ok"} =>
            /\ company.site = sent.fields.site
            /\ Matched(company.contacts, sent.fields.rows, NewKeys(sent.fields) \ Panel!ToCreate(c))
       /\ c.state = "ok" => Panel!ToCreate(c) = {}

\* What a request of a save that edits was made from.
MadeFrom(c) ==
  /\ c.op = "edit" =>
       /\ requests = {c} /\ stage = "edit" /\ Ids(fields) \subseteq Ids(sent.fields)
       /\ c.state = "sent" => company = sent.list
       /\ c.state = "ok" =>
            /\ company.contacts = sent.list.contacts /\ company.made = sent.list.made
            /\ sent.fields.site # Empty => company.site = sent.fields.site
  /\ c.op = "delete" => c.row \in sent.list.contacts /\ c.row.id \notin Ids(sent.fields) \cup Ids(fields)
  /\ c.op = "update" => /\ c.key \in DOMAIN sent.fields.rows /\ c.row = sent.fields.rows[c.key] /\ c.row.id # 0
                        /\ c.changed = Panel!ChangedIn(c.row)
  /\ c.op = "add" => c.key \in NewKeys(sent.fields) /\ c.row = sent.fields.rows[c.key]

\* How far a save that edits has come: who is still there is in a row or to be deleted, a row that
\* is not as it should be is to be updated, and who was added is a row that is no longer to be added.
ReachedWith(asked) ==
  /\ sent.fields.site # Empty => company.site = sent.fields.site
  /\ sent.list.made <= company.made
  /\ \A d \in company.contacts :
       \/ d.id \in Ids(sent.fields) \/ d.id > sent.list.made
       \/ \E c \in asked : c.op = "delete" /\ Pending(c) /\ c.row.id = d.id
  /\ \A i \in DOMAIN sent.fields.rows : sent.fields.rows[i].id # 0 =>
       \E d \in company.contacts :
         /\ d.id = sent.fields.rows[i].id
         /\ \/ Panel!Shows(sent.fields.rows[i], d)
            \/ d \in sent.list.contacts /\ \E c \in asked : c.op = "update" /\ c.key = i /\ Pending(c)
  /\ Matched(Made(company, sent.list.made), sent.fields.rows,
             {i \in NewKeys(sent.fields) : \A c \in asked : c.op = "add" /\ c.key = i => ~Pending(c)})
Reached == ReachedWith(requests)

NoNews == \A c \in requests : c.state # "ok"

ListInStep ==
  /\ NoNews /\ fetch.step = "none" => list = company
  /\ NoNews /\ fetch.step = "read" => fetch.read = company

Editing ==
  /\ Apart(fields) /\ Ids(fields) \subseteq ContactIds(company)
  /\ ListInStep
  /\ requests # {} => WellMade(sent.list) /\ Apart(sent.fields) /\ Ids(sent.fields) \subseteq ContactIds(sent.list)
  /\ \A c \in requests : c.op # "create" /\ c.state # "running" /\ MadeFrom(c)
  /\ \A c, d \in requests : c.op = d.op /\ c.key = d.key /\ c.row.id = d.row.id => c = d
  /\ stage \in {"idle", "edit", "contacts"}
  /\ stage = "edit" => \A c \in requests : c.op = "edit"
  /\ stage = "contacts" => Reached

PanelInv ==
  /\ PanelTypeOK
  /\ mode = "create" => Creating
  /\ mode = "edit" => Editing
  /\ told # Panel!NoFields => stage = "idle" /\ requests = {} /\ told \in FormType /\ Matches(told, company)

-----------------------------------------------------------------------------
(* Rows and contacts                                                         *)

LEMMA PanelAssumed ==
  /\ Empty \notin Sites /\ Empty \notin Names /\ Empty \notin Titles
  /\ MaxTyped \in Nat /\ MaxClicks \in Nat /\ MaxLosses \in Nat
  BY OfficeAssumption DEF Panel!PanelAssumption

LEMMA SameCount == \A S : Panel!Cardinality(S) = Cardinality(S)
  BY DEF Panel!Cardinality, Cardinality

\* No contact is no row.
LEMMA NoneMatched == ASSUME NEW rows PROVE Matched({}, rows, {})
<1>1. [c \in {} |-> 0] \in [{} -> {}]
  OBVIOUS
<1> QED BY <1>1 DEF Matched

\* One contact more is one row more.
LEMMA OneMoreMatched ==
  ASSUME NEW S, NEW rows, NEW K, NEW x, NEW k, Matched(S, rows, K), x \notin S, k \notin K, Panel!Alike(rows[k], x)
  PROVE  Matched(S \cup {x}, rows, K \cup {k})
<1>1. PICK g \in [S -> K] :
        /\ \A c \in S : Panel!Alike(rows[g[c]], c)
        /\ \A c, d \in S : g[c] = g[d] => c = d
        /\ \A i \in K : \E c \in S : g[c] = i
  BY DEF Matched
<1> DEFINE h == [c \in S \cup {x} |-> IF c = x THEN k ELSE g[c]]
<1>2. h \in [S \cup {x} -> K \cup {k}] /\ h[x] = k /\ \A c \in S : h[c] = g[c]
  OBVIOUS
<1> HIDE DEF h
<1>3. \A c \in S \cup {x} : Panel!Alike(rows[h[c]], c)
  BY <1>1, <1>2
<1>4. \A c, d \in S \cup {x} : h[c] = h[d] => c = d
  BY <1>1, <1>2
<1>5. \A i \in K \cup {k} : \E c \in S \cup {x} : h[c] = i
  BY <1>1, <1>2
<1> QED BY <1>2, <1>3, <1>4, <1>5 DEF Matched

\* Contacts that match rows are as many, and of each kind as many.
LEMMA MatchedAreAsMany ==
  ASSUME NEW S, NEW rows, NEW K, Matched(S, rows, K), IsFiniteSet(S)
  PROVE  /\ Cardinality(K) = Cardinality(S)
         /\ \A c \in S :
              Cardinality({i \in K : Panel!Alike(rows[i], c)}) = Cardinality({d \in S : Panel!Alike(d, c)})
<1>1. PICK g \in [S -> K] :
        /\ \A c \in S : Panel!Alike(rows[g[c]], c)
        /\ \A c, d \in S : g[c] = g[d] => c = d
        /\ \A i \in K : \E c \in S : g[c] = i
  BY DEF Matched
<1>2. Cardinality(K) = Cardinality(S)
  <2>1. g \in Bijection(S, K)
    BY <1>1 DEF Bijection, Injection, IsInjective, Surjection
  <2>2. ExistsBijection(S, K)
    BY <2>1 DEF ExistsBijection
  <2> QED BY <2>2, FS_Bijection
<1>3. ASSUME NEW c \in S
      PROVE  Cardinality({i \in K : Panel!Alike(rows[i], c)}) = Cardinality({d \in S : Panel!Alike(d, c)})
  <2> DEFINE A == {d \in S : Panel!Alike(d, c)}
             B == {i \in K : Panel!Alike(rows[i], c)}
             h == [d \in A |-> g[d]]
  <2>1. IsFiniteSet(A)
    BY FS_Subset
  <2>2. \A d \in S : d \in A <=> g[d] \in B
    BY <1>1 DEF Panel!Alike
  <2>3. \A i \in B : \E d \in A : g[d] = i
    BY <1>1, <2>2
  <2>4. A \subseteq S /\ h \in [A -> B] /\ \A d \in A : h[d] = g[d]
    BY <2>2
  <2> HIDE DEF A, B, h
  <2>5. h \in Bijection(A, B)
    BY <1>1, <2>3, <2>4 DEF Bijection, Injection, IsInjective, Surjection
  <2>6. ExistsBijection(A, B)
    BY <2>5 DEF ExistsBijection
  <2>7. Cardinality(B) = Cardinality(A)
    BY <2>1, <2>6, FS_Bijection
  <2> QED BY <2>7 DEF A, B
<1> QED BY <1>2, <1>3

\* The rows of a form are the contacts of the company.
LEMMA DraftShowsContacts ==
  ASSUME NEW co, WellMade(co)
  PROVE  LET f == [site |-> co.site, rows |-> Panel!draftFromInitial(co)] IN
           f \in FormType /\ Apart(f) /\ Ids(f) \subseteq ContactIds(co)
<1> DEFINE S == co.contacts
           n == Cardinality(S)
           Below(c) == Panel!UpTo(co, c)
           rank == [c \in S |-> Cardinality(Below(c))]
           rows == Panel!draftFromInitial(co)
<1>1. /\ IsFiniteSet(S) /\ S \subseteq PanelRow /\ co.site \in Sites \cup {Empty}
      /\ \A c \in S : c.id \in Nat /\ c.id # 0
      /\ \A c, d \in S : c.id = d.id => c = d
  BY DEF WellMade, CompanyType, PanelRow
<1>2. n \in Nat /\ n = Cardinality(S)
  BY <1>1, FS_CardinalityType
<1>3. \A c, d \in S : d \in Below(c) <=> d.id <= c.id
  BY DEF Panel!UpTo
<1>4. \A c \in S : Below(c) \subseteq S
  BY DEF Panel!UpTo
<1> HIDE DEF n
<1>5. \A c \in S : IsFiniteSet(Below(c)) /\ Cardinality(Below(c)) \in Nat /\ Cardinality(Below(c)) <= n
  BY <1>1, <1>2, <1>4, FS_Subset, FS_CardinalityType
<1>6. \A c \in S : Cardinality(Below(c)) # 0
  <2>1. \A c \in S : c \in Below(c)
    BY <1>1, <1>3
  <2> QED BY <2>1, <1>5, FS_EmptySet
<1>7. \A c, d \in S : Cardinality(Below(c)) = Cardinality(Below(d)) => c = d
  <2>1. ASSUME NEW c \in S, NEW d \in S, c.id < d.id PROVE Cardinality(Below(c)) # Cardinality(Below(d))
    <3>1. \A e \in Below(c) : e.id \in Nat /\ e.id <= c.id
      BY <1>1, <1>3, <1>4
    <3>2. \A e \in Below(c) : e \in Below(d)
      BY <1>1, <1>3, <1>4, <2>1, <3>1
    <3>3. d \in Below(d) /\ d \notin Below(c)
      BY <1>1, <1>3, <2>1
    <3> QED BY <3>2, <3>3, <1>5, FS_Subset
  <2>2. \A c, d \in S : c.id < d.id \/ d.id < c.id \/ c = d
    BY <1>1
  <2> QED BY <2>1, <2>2
<1>8. rank \in [S -> 1..n] /\ \A c \in S : rank[c] = Cardinality(Below(c))
  BY <1>2, <1>5, <1>6
<1> HIDE DEF rank
<1>9. rank \in Injection(S, 1..n)
  BY <1>7, <1>8 DEF Injection, IsInjective
<1>10. IsFiniteSet(1..n) /\ Cardinality(1..n) = n
  <2>1. n - 1 + 1 = n /\ (1 > n => n = 0)
    BY <1>2
  <2> QED BY <1>2, <2>1, FS_Interval
<1>11. rank \in Surjection(S, 1..n)
  BY <1>2, <1>9, <1>10, FS_Injection
<1>12. \A i \in 1..n : \E c \in S : Cardinality(Below(c)) = i
  BY <1>8, <1>11 DEF Surjection
<1>13. rows = [i \in 1..n |-> CHOOSE c \in S : Cardinality(Below(c)) = i]
  BY SameCount DEF Panel!draftFromInitial, n
<1> HIDE DEF rows
<1>14. \A i \in 1..n : rows[i] \in S /\ Cardinality(Below(rows[i])) = i
  BY <1>12, <1>13
<1>15. DOMAIN rows = 1..n /\ rows \in Seq(PanelRow)
  <2>1. rows \in [1..n -> PanelRow]
    BY <1>1, <1>13, <1>14
  <2> QED BY <1>2, <2>1
<1> DEFINE f == [site |-> co.site, rows |-> rows]
<1>16. f \in FormType
  BY <1>1, <1>15 DEF FormType
<1>17. Apart(f)
  <2>1. ASSUME NEW i \in 1..n, NEW j \in 1..n, rows[i].id = rows[j].id PROVE i = j
    BY <1>1, <1>14, <2>1
  <2> QED BY <1>15, <2>1 DEF Apart
<1>18. Ids(f) \subseteq ContactIds(co)
  BY <1>14, <1>15 DEF Ids, ContactIds
<1> QED BY <1>16, <1>17, <1>18 DEF rows
-----------------------------------------------------------------------------
(* The form                                                                  *)

\* Nothing but the rows of the form changes, and no contact comes into them.
FormStep ==
  /\ UNCHANGED <<mode, company, list, fetch, stage, sent, requests, told, clicks>>
  /\ fields' \in FormType /\ Ids(fields') \subseteq Ids(fields) /\ (Apart(fields) => Apart(fields'))

LEMMA FormKeeps == ASSUME PanelInv, FormStep PROVE PanelInv'
<1> USE DEF FormStep
<1>1. PanelTypeOK'
  BY DEF PanelInv, PanelTypeOK, PanelAsk, PanelRow, FormType, CompanyType, WellMade
<1>2. mode = "create" => Creating'
  BY DEF PanelInv, Creating, Matched, NewKeys, Panel!ToCreate, Panel!Rows, Ids
<1>3. ASSUME mode = "edit" PROVE Editing'
  <2>1. Editing
    BY <1>3 DEF PanelInv
  <2>2. \A c : MadeFrom(c) => MadeFrom(c)'
    BY DEF MadeFrom, NewKeys, Panel!ChangedIn, Panel!Original
  <2>3. Reached => Reached'
    BY DEF Reached, ReachedWith, Made, NewKeys
  <2>4. Apart(fields)' /\ (Ids(fields) \subseteq ContactIds(company))'
    BY <2>1 DEF Editing, ContactIds, Apart, Ids
  <2>5. ListInStep'
    BY <2>1 DEF Editing, ListInStep, NoNews
  <2>6. (requests # {} => WellMade(sent.list) /\ Apart(sent.fields) /\ Ids(sent.fields) \subseteq ContactIds(sent.list))'
    BY <2>1 DEF Editing
  <2>7. /\ \A e \in requests' : e.op # "create" /\ e.state # "running" /\ MadeFrom(e)'
        /\ \A e, g \in requests' : e.op = g.op /\ e.key = g.key /\ e.row.id = g.row.id => e = g
    BY <2>1, <2>2 DEF Editing
  <2>8. stage' \in {"idle", "edit", "contacts"} /\ (stage' = "edit" => \A e \in requests' : e.op = "edit")
        /\ (stage' = "contacts" => Reached')
    BY <2>1, <2>3 DEF Editing
  <2> QED BY <2>4, <2>5, <2>6, <2>7, <2>8 DEF Editing
<1>4. (told # Panel!NoFields => stage = "idle" /\ requests = {} /\ told \in FormType /\ Matches(told, company))'
  BY DEF PanelInv, Matches, FormType, PanelRow
<1> QED BY <1>1, <1>2, <1>3, <1>4 DEF PanelInv

LEMMA StillForm ==
  ASSUME PanelInv, UNCHANGED <<mode, company, list, fetch, stage, fields, sent, requests, told, clicks>>
  PROVE  PanelInv'
<1>1. fields \in FormType
  BY DEF PanelInv, PanelTypeOK
<1>2. FormStep
  BY <1>1 DEF FormStep
<1> QED BY <1>2, FormKeeps

LEMMA setFieldKeeps == ASSUME PanelInv, Panel!setField PROVE PanelInv'
<1>1. PICK v \in Sites \cup {Empty} : Panel!Typing([fields EXCEPT !.site = v])
  BY DEF Panel!setField
<1>2. fields \in FormType
  BY DEF PanelInv, PanelTypeOK
<1>3. fields' \in FormType /\ fields'.rows = fields.rows
  BY <1>1, <1>2 DEF Panel!Typing, FormType
<1>4. FormStep
  BY <1>1, <1>3 DEF FormStep, Panel!Typing, Ids, Apart
<1> QED BY <1>4, FormKeeps

LEMMA setContactDraftFieldKeeps == ASSUME PanelInv, Panel!setContactDraftField PROVE PanelInv'
<1>1. PICK i \in DOMAIN fields.rows :
        \/ \E v \in Names \cup {Empty} : Panel!Typing([fields EXCEPT !.rows[i].name = v])
        \/ \E v \in Titles \cup {Empty} : Panel!Typing([fields EXCEPT !.rows[i].title = v])
  BY DEF Panel!setContactDraftField
<1>2. fields \in FormType /\ fields.rows \in Seq(PanelRow)
  BY DEF PanelInv, PanelTypeOK, FormType
<1>3. fields.rows[i] \in PanelRow
  BY <1>2
<1>4. \E r \in PanelRow : r.id = fields.rows[i].id /\ Panel!Typing([fields EXCEPT !.rows[i] = r])
  <2>1. CASE \E v \in Names \cup {Empty} : Panel!Typing([fields EXCEPT !.rows[i].name = v])
    <3>1. PICK v \in Names \cup {Empty} : Panel!Typing([fields EXCEPT !.rows[i].name = v])
      BY <2>1
    <3>2. [fields.rows[i] EXCEPT !.name = v] \in PanelRow /\ [fields.rows[i] EXCEPT !.name = v].id = fields.rows[i].id
      BY <1>3 DEF PanelRow
    <3> QED BY <3>1, <3>2
  <2>2. CASE \E v \in Titles \cup {Empty} : Panel!Typing([fields EXCEPT !.rows[i].title = v])
    <3>1. PICK v \in Titles \cup {Empty} : Panel!Typing([fields EXCEPT !.rows[i].title = v])
      BY <2>2
    <3>2. [fields.rows[i] EXCEPT !.title = v] \in PanelRow /\ [fields.rows[i] EXCEPT !.title = v].id = fields.rows[i].id
      BY <1>3 DEF PanelRow
    <3> QED BY <3>1, <3>2
  <2> QED BY <1>1, <2>1, <2>2
<1>5. PICK r \in PanelRow : r.id = fields.rows[i].id /\ Panel!Typing([fields EXCEPT !.rows[i] = r])
  BY <1>4
<1>6. /\ DOMAIN fields'.rows = DOMAIN fields.rows /\ fields'.rows \in Seq(PanelRow) /\ fields'.site = fields.site
      /\ \A j \in DOMAIN fields.rows : fields'.rows[j].id = fields.rows[j].id
  BY <1>2, <1>5 DEF Panel!Typing, FormType
<1>7. fields' \in FormType
  BY <1>2, <1>5, <1>6 DEF FormType, Panel!Typing
<1>8. FormStep
  BY <1>5, <1>6, <1>7 DEF FormStep, Panel!Typing, Ids, Apart
<1> QED BY <1>8, FormKeeps

LEMMA addContactDraftKeeps == ASSUME PanelInv, Panel!addContactDraft PROVE PanelInv'
<1>1. fields \in FormType /\ fields.rows \in Seq(PanelRow) /\ Len(fields.rows) \in Nat
  BY DEF PanelInv, PanelTypeOK, FormType
<1>2. Panel!NewRow \in PanelRow /\ Panel!NewRow.id = 0
  BY DEF Panel!NewRow, PanelRow
<1>3. fields' = [fields EXCEPT !.rows = Append(fields.rows, Panel!NewRow)] /\ UNCHANGED <<mode, company, list, fetch, stage, sent, requests, told, clicks>>
  BY DEF Panel!addContactDraft, Panel!Typing
<1> HIDE DEF Panel!NewRow
<1> DEFINE n == Len(fields.rows)
           rows == Append(fields.rows, Panel!NewRow)
<1>4. /\ rows \in Seq(PanelRow) /\ DOMAIN rows = 1..(n + 1) /\ DOMAIN fields.rows = 1..n
      /\ \A i \in 1..n : rows[i] = fields.rows[i]
      /\ rows[n + 1] = Panel!NewRow
  BY <1>1, <1>2
<1>5. fields'.rows = rows /\ fields' \in FormType
  BY <1>1, <1>3, <1>4 DEF FormType
<1> HIDE DEF rows, n
<1>6. \A i \in DOMAIN rows : i \in DOMAIN fields.rows \/ i = n + 1
  BY <1>1, <1>4 DEF n
<1>7. \A i \in DOMAIN rows : rows[i].id # 0 => i \in DOMAIN fields.rows /\ rows[i] = fields.rows[i]
  BY <1>2, <1>4, <1>6
<1>8. Ids(fields') \subseteq Ids(fields) /\ (Apart(fields) => Apart(fields'))
  BY <1>5, <1>7 DEF Ids, Apart
<1> QED BY <1>3, <1>5, <1>8, FormKeeps DEF FormStep

\* A list with one element taken out.
LEMMA OneTakenOut ==
  ASSUME NEW T, NEW s \in Seq(T), NEW i \in 1..Len(s)
  PROVE  LET r == Panel!RemoveAt(s, i) IN
           /\ r \in Seq(T) /\ Len(r) = Len(s) - 1
           /\ \A j \in 1..(Len(s) - 1) : r[j] = s[IF j < i THEN j ELSE j + 1]
<1> DEFINE n == Len(s)
           a == SubSeq(s, 1, i - 1)
           b == SubSeq(s, i + 1, n)
<1>1. n \in Nat /\ i \in 1..n /\ i - 1 \in Int /\ i + 1 \in Int /\ n \in Int /\ \A j \in 1..n : s[j] \in T
  OBVIOUS
<1>2. a \in Seq(T) /\ Len(a) = i - 1 /\ \A j \in 1..(i - 1) : a[j] = s[j]
  <2>1. \A j \in 1..(i - 1) : s[j] \in T
    BY <1>1
  <2>2. a \in Seq(T) /\ Len(a) = (IF 1 <= i - 1 THEN i - 1 - 1 + 1 ELSE 0) /\ \A j \in 1..(i - 1 - 1 + 1) : a[j] = s[1 + j - 1]
    BY <1>1, <2>1, SubSeqProperties
  <2> HIDE DEF a
  <2>3. \A j \in 1..(i - 1) : j \in 1..(i - 1 - 1 + 1) /\ 1 + j - 1 = j
    BY <1>1
  <2> QED BY <1>1, <2>2, <2>3
<1>3. b \in Seq(T) /\ Len(b) = n - i /\ \A j \in 1..(n - i) : b[j] = s[i + j]
  <2>1. \A j \in (i + 1)..n : s[j] \in T
    BY <1>1
  <2>2. b \in Seq(T) /\ Len(b) = (IF i + 1 <= n THEN n - (i + 1) + 1 ELSE 0) /\ \A j \in 1..(n - (i + 1) + 1) : b[j] = s[(i + 1) + j - 1]
    BY <1>1, <2>1, SubSeqProperties
  <2> HIDE DEF b, n
  <2>3. \A j \in 1..(n - i) : j \in 1..(n - (i + 1) + 1) /\ (i + 1) + j - 1 = i + j
    BY <1>1
  <2> QED BY <1>1, <2>2, <2>3
<1>4. Panel!RemoveAt(s, i) = a \o b
  BY DEF Panel!RemoveAt
<1> HIDE DEF a, b, n
<1>5. a \o b \in Seq(T) /\ Len(a \o b) = Len(a) + Len(b)
  BY <1>2, <1>3, ConcatProperties
<1>6. \A j \in 1..(Len(a) + Len(b)) : (a \o b)[j] = IF j <= Len(a) THEN a[j] ELSE b[j - Len(a)]
  BY <1>2, <1>3
<1>7. \A j \in 1..(n - 1) : (a \o b)[j] = s[IF j < i THEN j ELSE j + 1]
  <2>1. ASSUME NEW j \in 1..(n - 1), j < i PROVE (a \o b)[j] = s[j]
    BY <1>1, <1>2, <1>3, <1>6, <2>1
  <2>2. ASSUME NEW j \in 1..(n - 1), ~(j < i) PROVE (a \o b)[j] = s[j + 1]
    <3>1. j - (i - 1) \in 1..(n - i) /\ i + (j - (i - 1)) = j + 1 /\ ~(j <= i - 1) /\ j \in 1..((i - 1) + (n - i))
      BY <1>1, <2>2
    <3>2. (a \o b)[j] = b[j - (i - 1)]
      BY <1>2, <1>3, <1>6, <3>1
    <3> QED BY <1>3, <3>1, <3>2
  <2> QED BY <2>1, <2>2
<1>8. Len(a \o b) = n - 1
  BY <1>1, <1>2, <1>3, <1>5
<1> QED BY <1>4, <1>5, <1>7, <1>8 DEF n

LEMMA removeContactDraftKeeps == ASSUME PanelInv, Panel!removeContactDraft PROVE PanelInv'
<1>1. fields \in FormType /\ fields.rows \in Seq(PanelRow) /\ Len(fields.rows) \in Nat
  BY DEF PanelInv, PanelTypeOK, FormType
<1>2. PICK i \in DOMAIN fields.rows : Panel!Typing([fields EXCEPT !.rows = Panel!RemoveAt(@, i)])
  BY DEF Panel!removeContactDraft
<1> DEFINE n == Len(fields.rows)
           rows == Panel!RemoveAt(fields.rows, i)
<1>3. fields' = [fields EXCEPT !.rows = rows] /\ UNCHANGED <<mode, company, list, fetch, stage, sent, requests, told, clicks>>
  BY <1>2 DEF Panel!Typing
<1>4. /\ rows \in Seq(PanelRow) /\ DOMAIN rows = 1..(n - 1)
      /\ \A j \in 1..(n - 1) : rows[j] = fields.rows[IF j < i THEN j ELSE j + 1]
      /\ i \in 1..n /\ DOMAIN fields.rows = 1..n
  <2>1. n \in Nat /\ DOMAIN fields.rows = 1..n /\ i \in 1..Len(fields.rows)
    BY <1>1
  <2>2. rows \in Seq(PanelRow) /\ Len(rows) = n - 1 /\ \A j \in 1..(n - 1) : rows[j] = fields.rows[IF j < i THEN j ELSE j + 1]
    BY <1>1, <2>1, OneTakenOut
  <2> HIDE DEF rows
  <2>3. DOMAIN rows = 1..(n - 1)
    BY <2>2
  <2> QED BY <2>1, <2>2, <2>3
<1>5. fields'.rows = rows /\ fields' \in FormType
  BY <1>1, <1>3, <1>4 DEF FormType
<1> HIDE DEF rows
<1> DEFINE from(j) == IF j < i THEN j ELSE j + 1
<1>6. \A j \in DOMAIN rows : from(j) \in DOMAIN fields.rows /\ rows[j] = fields.rows[from(j)]
  BY <1>1, <1>4
<1>7. \A j, k \in DOMAIN rows : from(j) = from(k) => j = k
  BY <1>1, <1>4
<1> HIDE DEF from, n
<1>8. Ids(fields') \subseteq Ids(fields) /\ (Apart(fields) => Apart(fields'))
  BY <1>5, <1>6, <1>7 DEF Ids, Apart
<1> QED BY <1>3, <1>5, <1>8, FormKeeps DEF FormStep

\* What a panel starts with, and what Cancel puts back.
LEMMA FormOfCompany ==
  ASSUME WellMade(company), mode \in {"edit", "create"}
  PROVE  LET f == Panel!FieldsOf(company) IN
           /\ f \in FormType /\ Apart(f) /\ Ids(f) \subseteq ContactIds(company)
           /\ mode = "create" => Ids(f) = {}
<1>1. CASE mode = "edit"
  BY <1>1, DraftShowsContacts DEF Panel!FieldsOf
<1>2. CASE mode = "create"
  <2> DEFINE f == [site |-> Empty, rows |-> <<Panel!NewRow>>]
  <2>1. Panel!NewRow \in PanelRow /\ Panel!NewRow.id = 0
    BY DEF Panel!NewRow, PanelRow
  <2>2. f.rows \in Seq(PanelRow) /\ DOMAIN f.rows = {1} /\ f.rows[1] = Panel!NewRow
    BY <2>1
  <2>3. f \in FormType
    BY <2>2 DEF FormType
  <2>4. Apart(f) /\ Ids(f) = {}
    BY <2>1, <2>2 DEF Ids, Apart
  <2>5. Panel!FieldsOf(company) = f
    BY <1>2 DEF Panel!FieldsOf
  <2> QED BY <2>3, <2>4, <2>5
<1> QED BY <1>1, <1>2

LEMMA handleCloseKeeps == ASSUME PanelInv, Panel!handleClose PROVE PanelInv'
<1>1. /\ PanelTypeOK /\ UNCHANGED <<mode, company, list, fetch, stage, sent, requests, told, clicks>>
      /\ fields' = Panel!FieldsOf(list) /\ (mode = "create" \/ Panel!Quiet)
  BY DEF PanelInv, Panel!handleClose, Panel!bounds
<1>2. WellMade(company) /\ mode \in {"edit", "create"}
  BY <1>1 DEF PanelTypeOK
<1>3. CASE mode = "create"
  <2>1. fields' = Panel!FieldsOf(company)
    BY <1>1, <1>3 DEF Panel!FieldsOf
  <2>2. FormStep
    BY <1>1, <1>2, <1>3, <2>1, FormOfCompany DEF FormStep
  <2> QED BY <2>2, FormKeeps
<1>4. CASE mode = "edit"
  <2>1. Editing
    BY <1>4 DEF PanelInv
  <2>2. requests = {} /\ fetch.step = "none"
    BY <1>1, <1>4 DEF Panel!Quiet, Panel!NotAsked
  <2>3. list = company
    BY <2>1, <2>2 DEF Editing, ListInStep, NoNews
  <2>4. fields' \in FormType /\ Apart(fields') /\ Ids(fields') \subseteq ContactIds(company)
    BY <1>1, <1>2, <2>3, FormOfCompany
  <2>5. PanelTypeOK'
    BY <1>1, <2>4 DEF PanelTypeOK, PanelAsk, PanelRow, FormType, CompanyType, WellMade
  <2>6. Reached => Reached'
    BY <1>1 DEF Reached, ReachedWith, Made, NewKeys
  <2>7. ListInStep'
    BY <1>1, <2>1 DEF Editing, ListInStep, NoNews
  <2>8. Editing'
    BY <1>1, <2>1, <2>2, <2>4, <2>6, <2>7 DEF Editing, ContactIds, WellMade, Apart, Ids
  <2>9. (told # Panel!NoFields => stage = "idle" /\ requests = {} /\ told \in FormType /\ Matches(told, company))'
    BY <1>1 DEF PanelInv, Matches, FormType, PanelRow
  <2> QED BY <1>1, <1>4, <2>5, <2>8, <2>9 DEF PanelInv
<1> QED BY <1>2, <1>3, <1>4

-----------------------------------------------------------------------------
(* Saving                                                                    *)

LEMMA handleSubmitKeeps == ASSUME PanelInv, Panel!handleSubmit PROVE PanelInv'
<1>0. PICK c : c = [op |-> mode, key |-> 0, row |-> Panel!NewRow, changed |-> {}, save |-> clicks + 1, state |-> "sent", done |-> 0]
  OBVIOUS
<1>1. /\ PanelTypeOK /\ UNCHANGED <<mode, company, list, fetch, fields>>
      /\ clicks' = clicks + 1 /\ stage' = mode /\ told' = Panel!NoFields
      /\ sent' = [fields |-> fields, list |-> list] /\ requests' = {c}
      /\ requests = {} /\ fetch.step = "none" /\ stage = "idle"
  <2>1. requests' = requests \cup {[Panel!Request(mode, 0, Panel!NewRow, {}) EXCEPT !.save = clicks + 1]} /\ requests = {}
    BY DEF Panel!handleSubmit, Panel!Quiet
  <2>2. [Panel!Request(mode, 0, Panel!NewRow, {}) EXCEPT !.save = clicks + 1] = c
    BY <1>0 DEF Panel!Request
  <2>3. requests' = {c}
    BY <2>1, <2>2
  <2> QED BY <2>1, <2>3 DEF PanelInv, Panel!handleSubmit, Panel!Quiet, Panel!NotAsked
<1>2. Panel!NewRow \in PanelRow
  BY DEF Panel!NewRow, PanelRow
<1>3. /\ c \in PanelAsk' /\ c.op = mode /\ c.state = "sent" /\ c.done = 0
  BY <1>0, <1>1, <1>2 DEF PanelAsk, PanelTypeOK, PanelRow
<1>4. PanelTypeOK'
  <2>1. sent' \in [fields : FormType, list : CompanyType]
    BY <1>1 DEF PanelTypeOK
  <2>2. clicks' \in Nat /\ stage' \in {"edit", "create"}
    BY <1>1 DEF PanelTypeOK
  <2> QED BY <1>1, <1>3, <2>1, <2>2 DEF PanelTypeOK, PanelRow, FormType, CompanyType, WellMade
<1>5. CASE mode = "create"
  <2>1. Ids(fields) = {}
    BY <1>5 DEF PanelInv, Creating
  <2>2. Creating'
    BY <1>1, <1>3, <1>5, <2>1 DEF Creating, Ids
  <2> QED BY <1>1, <1>4, <1>5, <2>2 DEF PanelInv
<1>6. CASE mode = "edit"
  <2>1. Editing
    BY <1>6 DEF PanelInv
  <2>2. list = company
    BY <1>1, <2>1 DEF Editing, ListInStep, NoNews
  <2>3. sent'.fields = fields /\ sent'.list = company
    BY <1>1, <2>2
  <2>4. MadeFrom(c)'
    BY <1>1, <1>3, <1>6, <2>3 DEF MadeFrom, Ids
  <2>5. ListInStep'
    BY <1>1, <2>2 DEF ListInStep
  <2>6. WellMade(company) /\ Apart(fields) /\ Ids(fields) \subseteq ContactIds(company)
    BY <1>1, <2>1 DEF PanelTypeOK, Editing
  <2>7. WellMade(sent.list)' /\ Apart(sent.fields)' /\ (Ids(sent.fields) \subseteq ContactIds(sent.list))'
    BY <2>3, <2>6 DEF WellMade, CompanyType, PanelRow, Apart, Ids, ContactIds
  <2>8. Apart(fields)' /\ (Ids(fields) \subseteq ContactIds(company))'
    BY <1>1, <2>6 DEF Apart, Ids, ContactIds
  <2>9. Editing'
    BY <1>1, <1>3, <1>6, <2>4, <2>5, <2>7, <2>8 DEF Editing
  <2> QED BY <1>1, <1>4, <1>6, <2>9 DEF PanelInv
<1> QED BY <1>1, <1>5, <1>6 DEF PanelTypeOK

-----------------------------------------------------------------------------
(* The list                                                                  *)

\* Nothing but the list the page has changes.
ListStep ==
  /\ UNCHANGED <<mode, company, stage, fields, sent, requests, told, clicks>>
  /\ list' \in CompanyType /\ fetch' \in [step : {"none", "asked", "read"}, read : CompanyType]
  /\ mode = "edit" => ListInStep'

LEMMA ListKeeps == ASSUME PanelInv, ListStep PROVE PanelInv'
<1> USE DEF ListStep
<1>1. PanelTypeOK'
  BY DEF PanelInv, PanelTypeOK, PanelAsk, PanelRow, FormType, CompanyType, WellMade
<1>2. mode = "create" => Creating'
  BY DEF PanelInv, Creating, Matched, NewKeys, Panel!ToCreate, Panel!Rows, Ids
<1>3. ASSUME mode = "edit" PROVE Editing'
  <2>1. Editing
    BY <1>3 DEF PanelInv
  <2>2. \A c : MadeFrom(c) => MadeFrom(c)'
    BY DEF MadeFrom, NewKeys, Panel!ChangedIn, Panel!Original
  <2>3. Reached => Reached'
    BY DEF Reached, ReachedWith, Made, NewKeys
  <2>4. Apart(fields)' /\ (Ids(fields) \subseteq ContactIds(company))'
    BY <2>1 DEF Editing, ContactIds, Apart, Ids
  <2>5. ListInStep'
    BY <1>3
  <2>6. (requests # {} => WellMade(sent.list) /\ Apart(sent.fields) /\ Ids(sent.fields) \subseteq ContactIds(sent.list))'
    BY <2>1 DEF Editing
  <2>7. /\ \A e \in requests' : e.op # "create" /\ e.state # "running" /\ MadeFrom(e)'
        /\ \A e, g \in requests' : e.op = g.op /\ e.key = g.key /\ e.row.id = g.row.id => e = g
    BY <2>1, <2>2 DEF Editing
  <2>8. stage' \in {"idle", "edit", "contacts"} /\ (stage' = "edit" => \A e \in requests' : e.op = "edit")
        /\ (stage' = "contacts" => Reached')
    BY <2>1, <2>3 DEF Editing
  <2> QED BY <2>4, <2>5, <2>6, <2>7, <2>8 DEF Editing
<1>4. (told # Panel!NoFields => stage = "idle" /\ requests = {} /\ told \in FormType /\ Matches(told, company))'
  BY DEF PanelInv, Matches, FormType, PanelRow
<1> QED BY <1>1, <1>2, <1>3, <1>4 DEF PanelInv

LEMMA ReadListKeeps == ASSUME PanelInv, Panel!ReadList PROVE PanelInv'
<1>1. company \in CompanyType /\ list \in CompanyType
  BY DEF PanelInv, PanelTypeOK, WellMade
<1>2. /\ UNCHANGED <<mode, company, list, stage, fields, sent, requests, told, clicks>>
      /\ fetch' = [step |-> "read", read |-> company]
  BY DEF Panel!ReadList, Panel!panel, Panel!bounds
<1>3. ListInStep'
  BY <1>2 DEF ListInStep
<1> QED BY <1>1, <1>2, <1>3, ListKeeps DEF ListStep

LEMMA ShowListKeeps == ASSUME PanelInv, Panel!ShowList PROVE PanelInv'
<1>1. fetch \in [step : {"none", "asked", "read"}, read : CompanyType] /\ Panel!NoCompany \in CompanyType
  BY DEF PanelInv, PanelTypeOK, CompanyType, Panel!NoCompany
<1>2. /\ UNCHANGED <<mode, company, stage, fields, sent, requests, told, clicks>>
      /\ list' = fetch.read /\ fetch' = [step |-> "none", read |-> Panel!NoCompany] /\ fetch.step = "read"
  BY DEF Panel!ShowList, Panel!panel, Panel!bounds, Panel!NotAsked
<1>3. mode = "edit" => ListInStep'
  <2>1. NoNews' = NoNews
    BY <1>2 DEF NoNews
  <2> QED BY <1>2, <2>1 DEF PanelInv, Editing, ListInStep
<1> HIDE DEF Panel!NoCompany
<1> QED BY <1>1, <1>2, <1>3, ListKeeps DEF ListStep
-----------------------------------------------------------------------------
(* What the server does with a request                                       *)

\* A contact that is added is new, and is its row.
LEMMA InsertedIsWellMade ==
  ASSUME WellMade(company), NEW row \in PanelRow
  PROVE  LET co == Panel!Inserted(row)
             x == [row EXCEPT !.id = company.made + 1] IN
           /\ WellMade(co) /\ co.site = company.site /\ co.made = company.made + 1
           /\ co.contacts = company.contacts \cup {x} /\ x.id = company.made + 1
           /\ x \notin company.contacts /\ Panel!Alike(row, x)
<1> DEFINE x == [row EXCEPT !.id = company.made + 1]
           co == Panel!Inserted(row)
<1>1. company \in CompanyType /\ company.made \in Nat /\ company.contacts \subseteq PanelRow
  BY DEF WellMade, CompanyType
<1>2. x \in PanelRow /\ x.id = company.made + 1 /\ x.name = row.name /\ x.title = row.title
  BY <1>1 DEF PanelRow
<1> HIDE DEF x
<1>3. co = [company EXCEPT !.contacts = company.contacts \cup {x}, !.made = company.made + 1]
  BY DEF Panel!Inserted, x
<1> HIDE DEF co
<1>4. /\ co \in CompanyType /\ co.site = company.site /\ co.made = company.made + 1
      /\ co.contacts = company.contacts \cup {x}
  <2> DEFINE T == company.contacts \cup {x}
  <2>1. T \in SUBSET PanelRow
    BY <1>1, <1>2
  <2>2. co = [company EXCEPT !.contacts = T, !.made = company.made + 1]
    BY <1>3
  <2>3. company.made + 1 \in Nat
    BY <1>1
  <2> HIDE DEF T
  <2>4. co \in CompanyType /\ co.site = company.site /\ co.made = company.made + 1 /\ co.contacts = T
    BY <1>1, <2>1, <2>2, <2>3 DEF CompanyType
  <2> QED BY <2>4 DEF T
<1>5. \A c \in company.contacts : c.id \in Nat /\ c.id # 0 /\ c.id <= company.made
  BY <1>1 DEF WellMade, PanelRow
<1>6. x \notin company.contacts /\ \A c \in company.contacts : c.id # x.id
  BY <1>1, <1>2, <1>5
<1>7. IsFiniteSet(company.contacts \cup {x})
  BY FS_AddElement DEF WellMade
<1>8. \A c \in co.contacts : c.id # 0 /\ c.id <= co.made
  BY <1>1, <1>2, <1>4, <1>5
<1>9. \A c, d \in co.contacts : c.id = d.id => c = d
  BY <1>4, <1>6 DEF WellMade
<1>10. WellMade(co)
  BY <1>4, <1>7, <1>8, <1>9 DEF WellMade
<1> QED BY <1>2, <1>4, <1>6, <1>10 DEF co, x, Panel!Alike

\* A website that is written leaves the contacts alone.
LEMMA EditedIsWellMade ==
  ASSUME WellMade(company), sent.fields.site \in Sites, NEW co, co = [company EXCEPT !.site = sent.fields.site]
  PROVE  WellMade(co) /\ co.contacts = company.contacts /\ co.made = company.made /\ co.site = sent.fields.site
<1>1. company \in CompanyType
  BY DEF WellMade
<1>2. /\ co \in CompanyType /\ co.contacts = company.contacts /\ co.made = company.made
      /\ co.site = sent.fields.site
  BY <1>1 DEF CompanyType
<1> QED BY <1>2 DEF WellMade

LEMMA DeletedIsWellMade ==
  ASSUME WellMade(company), NEW k, NEW co, co = [company EXCEPT !.contacts = {d \in company.contacts : d.id # k}]
  PROVE  /\ WellMade(co) /\ co.made = company.made /\ co.site = company.site
         /\ \A d : d \in co.contacts <=> d \in company.contacts /\ d.id # k
<1>1. company \in CompanyType
  BY DEF WellMade
<1>2. /\ co \in CompanyType /\ co.made = company.made /\ co.site = company.site
      /\ \A d : d \in co.contacts <=> d \in company.contacts /\ d.id # k
  BY <1>1 DEF CompanyType
<1>3. co.contacts \subseteq company.contacts
  BY <1>2
<1>4. IsFiniteSet(co.contacts)
  BY <1>3, FS_Subset DEF WellMade
<1> QED BY <1>2, <1>4 DEF WellMade

\* A contact that is changed keeps its id, and takes the fields that are sent and are no blank.
LEMMA WrittenIsRow ==
  ASSUME NEW c \in PanelAsk, NEW d \in PanelRow
  PROVE  LET w == Panel!Written(d, c) IN
           /\ w \in PanelRow /\ w.id = d.id
           /\ w.name = (IF "name" \in c.changed THEN c.row.name ELSE d.name)
           /\ w.title = (IF "title" \in c.changed /\ c.row.title # Empty THEN c.row.title ELSE d.title)
<1>1. c.changed \subseteq {"name", "title"} /\ c.row \in PanelRow
  BY DEF PanelAsk
<1>2. /\ "id" \notin Panel!Kept(c) /\ ("name" \in Panel!Kept(c) <=> "name" \in c.changed)
      /\ ("title" \in Panel!Kept(c) <=> "title" \in c.changed /\ c.row.title # Empty)
  BY <1>1 DEF Panel!Kept
<1> DEFINE w == Panel!Written(d, c)
<1>3. DOMAIN d = {"id", "name", "title"}
  BY DEF PanelRow
<1>4. w = [f \in {"id", "name", "title"} |-> IF f \in Panel!Kept(c) THEN c.row[f] ELSE d[f]]
  BY <1>3 DEF Panel!Written
<1> HIDE DEF w
<1>5. w = [id |-> w.id, name |-> w.name, title |-> w.title]
  BY <1>4
<1>6. /\ w.id = d.id /\ w.name = (IF "name" \in c.changed THEN c.row.name ELSE d.name)
      /\ w.title = (IF "title" \in c.changed /\ c.row.title # Empty THEN c.row.title ELSE d.title)
  BY <1>2, <1>4
<1>7. w \in PanelRow
  BY <1>1, <1>5, <1>6 DEF PanelRow
<1> QED BY <1>6, <1>7 DEF w

LEMMA UpdatedIsWellMade ==
  ASSUME WellMade(company), NEW c \in PanelAsk, NEW co,
         co = [company EXCEPT !.contacts = {IF d.id = c.row.id THEN Panel!Written(d, c) ELSE d : d \in company.contacts}]
  PROVE  /\ WellMade(co) /\ co.made = company.made /\ co.site = company.site
         /\ \A d \in company.contacts : (IF d.id = c.row.id THEN Panel!Written(d, c) ELSE d) \in co.contacts
         /\ \A e \in co.contacts : \E d \in company.contacts :
              e.id = d.id /\ (d.id # c.row.id => e = d) /\ (d.id = c.row.id => e = Panel!Written(d, c))
<1> DEFINE new(d) == IF d.id = c.row.id THEN Panel!Written(d, c) ELSE d
           S == company.contacts
           f == [d \in S |-> new(d)]
<1>1. company \in CompanyType /\ S \subseteq PanelRow /\ IsFiniteSet(S)
  BY DEF WellMade, CompanyType
<1>2. \A d \in S : new(d) \in PanelRow /\ new(d).id = d.id
  BY <1>1, WrittenIsRow
<1>3. \A d \in S : (d.id # c.row.id => new(d) = d) /\ (d.id = c.row.id => new(d) = Panel!Written(d, c))
  OBVIOUS
<1>4. co = [company EXCEPT !.contacts = {new(d) : d \in S}]
  OBVIOUS
<1> HIDE DEF new
<1>5. /\ co \in CompanyType /\ co.made = company.made /\ co.site = company.site
      /\ co.contacts = {new(d) : d \in S}
  <2> DEFINE T == {new(d) : d \in S}
  <2>1. T \in SUBSET PanelRow
    BY <1>2
  <2>2. co = [company EXCEPT !.contacts = T]
    BY <1>4
  <2> HIDE DEF T
  <2>3. co \in CompanyType /\ co.made = company.made /\ co.site = company.site /\ co.contacts = T
    BY <1>1, <2>1, <2>2 DEF CompanyType
  <2> QED BY <2>3 DEF T
<1>6. f \in Surjection(S, co.contacts)
  BY <1>5 DEF Surjection
<1>7. IsFiniteSet(co.contacts)
  BY <1>1, <1>6, FS_Surjection
<1>8. \A e \in co.contacts : \E d \in S : e = new(d)
  BY <1>5
<1>9. \A e \in co.contacts : e.id # 0 /\ e.id <= co.made
  BY <1>2, <1>5, <1>8 DEF WellMade
<1>10. \A e, g \in co.contacts : e.id = g.id => e = g
  <2> SUFFICES ASSUME NEW e \in co.contacts, NEW g \in co.contacts, e.id = g.id PROVE e = g
    OBVIOUS
  <2>1. PICK d \in S : e = new(d)
    BY <1>8
  <2>2. PICK h \in S : g = new(h)
    BY <1>8
  <2>3. d.id = h.id
    BY <1>2, <2>1, <2>2
  <2> QED BY <2>1, <2>2, <2>3 DEF WellMade
<1>11. WellMade(co)
  BY <1>5, <1>7, <1>9, <1>10 DEF WellMade
<1>12. \A d \in S : new(d) \in co.contacts
  BY <1>5
<1>13. \A e \in co.contacts : \E d \in S :
         e.id = d.id /\ (d.id # c.row.id => e = d) /\ (d.id = c.row.id => e = Panel!Written(d, c))
  BY <1>2, <1>3, <1>8
<1> QED BY <1>5, <1>11, <1>12, <1>13 DEF new
\* A request of a save that edits changes its state, and the company with it.
Renewed(c, d) ==
  /\ c \in requests /\ d = [c EXCEPT !.state = d.state] /\ d.state \in {"ok", "failed"} /\ c.state = "sent"
  /\ requests' = (requests \ {c}) \cup {d}
  /\ UNCHANGED <<mode, list, fetch, stage, fields, sent, told, clicks>>

LEMMA RenewedIsAlike ==
  ASSUME PanelTypeOK, NEW c, NEW d, Renewed(c, d)
  PROVE  /\ c \in PanelAsk /\ d \in PanelAsk
         /\ d.op = c.op /\ d.key = c.key /\ d.row = c.row /\ d.changed = c.changed
<1>1. c \in PanelAsk /\ d = [c EXCEPT !.state = d.state] /\ d.state \in {"ok", "failed"}
  BY DEF Renewed, PanelTypeOK
<1>2. PICK t \in {"ok", "failed"} : t = d.state
  BY <1>1
<1>3. d = [c EXCEPT !.state = t]
  BY <1>1, <1>2
<1> QED BY <1>1, <1>3 DEF PanelAsk

LEMMA RenewedKeeps ==
  ASSUME PanelInv, mode = "edit", NEW c, NEW d, Renewed(c, d), WellMade(company'),
         Ids(fields) \subseteq ContactIds(company'), d.state = "failed" => company' = company,
         c.op = "edit" /\ d.state = "ok" =>
           /\ company'.contacts = sent.list.contacts /\ company'.made = sent.list.made
           /\ sent.fields.site # Empty => company'.site = sent.fields.site,
         stage = "contacts" => Reached'
  PROVE  PanelInv'
<1>1. PanelTypeOK /\ Editing
  BY DEF PanelInv
<1>2. /\ c \in PanelAsk /\ d \in PanelAsk
      /\ d.op = c.op /\ d.key = c.key /\ d.row = c.row /\ d.changed = c.changed
  BY <1>1, RenewedIsAlike
<1>3. /\ c \in requests /\ d.state \in {"ok", "failed"} /\ c.state = "sent"
      /\ requests' = (requests \ {c}) \cup {d}
      /\ UNCHANGED <<mode, list, fetch, stage, fields, sent, told, clicks>>
  BY DEF Renewed
<1>4. PanelTypeOK'
  <2>1. PanelAsk' = PanelAsk
    BY <1>3 DEF PanelAsk
  <2>2. requests' \subseteq PanelAsk'
    BY <1>1, <1>2, <1>3, <2>1 DEF PanelTypeOK
  <2>3. WellMade(company)'
    BY DEF WellMade
  <2> QED BY <1>1, <1>3, <2>2, <2>3 DEF PanelTypeOK
<1>5. \A e \in requests : e # c => e.op # "edit"
  BY <1>1, <1>3 DEF Editing, MadeFrom
<1>6. \A e \in requests : e # c => MadeFrom(e)'
  BY <1>1, <1>3, <1>5 DEF Editing, MadeFrom, NewKeys, Panel!ChangedIn, Panel!Original
<1>7. MadeFrom(c)
  BY <1>1, <1>3 DEF Editing
<1>8. MadeFrom(d)'
  <2>1. d.op = "edit" => requests' = {d} /\ stage' = "edit" /\ Ids(fields') \subseteq Ids(sent'.fields)
    BY <1>2, <1>3, <1>7 DEF MadeFrom
  <2>2. d.op = "delete" => d.row \in sent'.list.contacts /\ d.row.id \notin Ids(sent'.fields) \cup Ids(fields')
    BY <1>2, <1>3, <1>7 DEF MadeFrom
  <2>3. d.op = "update" => /\ d.key \in DOMAIN sent'.fields.rows /\ d.row = sent'.fields.rows[d.key] /\ d.row.id # 0
                           /\ d.changed = Panel!ChangedIn(d.row)'
    BY <1>2, <1>3, <1>7 DEF MadeFrom, Panel!ChangedIn, Panel!Original
  <2>4. d.op = "add" => d.key \in NewKeys(sent'.fields) /\ d.row = sent'.fields.rows[d.key]
    BY <1>2, <1>3, <1>7 DEF MadeFrom
  <2> QED BY <1>2, <1>3, <2>1, <2>2, <2>3, <2>4 DEF MadeFrom
<1>9. \A e \in requests' : e.op # "create" /\ e.state # "running" /\ MadeFrom(e)'
  BY <1>1, <1>2, <1>3, <1>6, <1>8 DEF Editing
<1>10. \A e, g \in requests' : e.op = g.op /\ e.key = g.key /\ e.row.id = g.row.id => e = g
  <2>1. \A e \in requests : e.op = c.op /\ e.key = c.key /\ e.row.id = c.row.id => e = c
    BY <1>1, <1>3 DEF Editing
  <2>2. \A e \in requests' : e.op = d.op /\ e.key = d.key /\ e.row.id = d.row.id => e = d
    BY <1>2, <1>3, <2>1
  <2> QED BY <1>1, <1>3, <2>2 DEF Editing
<1>11. ListInStep'
  <2>1. NoNews' => NoNews /\ d.state = "failed"
    BY <1>3 DEF NoNews
  <2> QED BY <1>1, <1>3, <2>1 DEF Editing, ListInStep
<1>12. Editing'
  <2>1. (requests # {} => WellMade(sent.list) /\ Apart(sent.fields) /\ Ids(sent.fields) \subseteq ContactIds(sent.list))'
    <3>1. WellMade(sent.list) /\ Apart(sent.fields) /\ Ids(sent.fields) \subseteq ContactIds(sent.list)
      BY <1>1, <1>3 DEF Editing
    <3> QED BY <1>3, <3>1 DEF WellMade, Apart, Ids, ContactIds
  <2>2. Apart(fields)' /\ (Ids(fields) \subseteq ContactIds(company))'
    BY <1>1, <1>3 DEF Editing, Apart, Ids, ContactIds
  <2>3. stage' \in {"idle", "edit", "contacts"}
    BY <1>1, <1>3 DEF Editing
  <2>4. stage' = "edit" => \A e \in requests' : e.op = "edit"
    BY <1>1, <1>2, <1>3 DEF Editing
  <2> QED BY <1>3, <1>9, <1>10, <1>11, <2>1, <2>2, <2>3, <2>4 DEF Editing
<1>13. told' = Panel!NoFields
  BY <1>3 DEF PanelInv
<1> QED BY <1>3, <1>4, <1>12, <1>13 DEF PanelInv

\* A contact that was asked for is there still, unless it was deleted.
LEMMA FailedReaches ==
  ASSUME PanelTypeOK, Reached, NEW c, NEW d, Renewed(c, d), d.state = "failed", company' = company
  PROVE  Reached'
<1>1. d.op = c.op /\ d.key = c.key /\ d.row = c.row
  BY RenewedIsAlike
<1>2. /\ c \in requests /\ Pending(c) /\ Pending(d)
      /\ requests' = (requests \ {c}) \cup {d} /\ sent' = sent
  BY DEF Renewed, Pending
<1>3. \A e \in requests : \E g \in requests' :
        g.op = e.op /\ g.key = e.key /\ g.row = e.row /\ (Pending(e) <=> Pending(g))
  BY <1>1, <1>2
<1>4. \A g \in requests' : \E e \in requests :
        g.op = e.op /\ g.key = e.key /\ g.row = e.row /\ (Pending(e) <=> Pending(g))
  BY <1>1, <1>2
<1> DEFINE K == {i \in NewKeys(sent.fields) : \A e \in requests : e.op = "add" /\ e.key = i => ~Pending(e)}
<1>5. K' = K
  <2>1. ASSUME NEW i
        PROVE  (\A e \in requests' : e.op = "add" /\ e.key = i => ~Pending(e))
               <=> (\A e \in requests : e.op = "add" /\ e.key = i => ~Pending(e))
    BY <1>3, <1>4
  <2>2. NewKeys(sent'.fields) = NewKeys(sent.fields)
    BY <1>2
  <2> QED BY <2>1, <2>2 DEF Pending
<1>6. Matched(Made(company, sent.list.made), sent.fields.rows, K)'
  <2>1. Matched(Made(company, sent.list.made), sent.fields.rows, K)
    BY DEF Reached, ReachedWith
  <2> HIDE DEF K
  <2>2. company' = company /\ sent' = sent
    BY <1>2
  <2>3. PICK S, rows, keys : S = Made(company, sent.list.made) /\ rows = sent.fields.rows /\ keys = K
    OBVIOUS
  <2>4. Matched(S, rows, keys)
    BY <2>1, <2>3
  <2>5. Made(company', sent'.list.made) = S /\ sent'.fields.rows = rows /\ K' = keys
    BY <1>5, <2>2, <2>3
  <2>6. Matched(Made(company', sent'.list.made), sent'.fields.rows, K')
    BY <2>4, <2>5
  <2> QED BY <2>6
<1>7. \A x \in company.contacts :
        \/ x.id \in Ids(sent.fields) \/ x.id > sent.list.made
        \/ \E e \in requests' : e.op = "delete" /\ Pending(e) /\ e.row.id = x.id
  BY <1>3 DEF Reached, ReachedWith
<1>8. \A i \in DOMAIN sent.fields.rows : sent.fields.rows[i].id # 0 =>
        \E x \in company.contacts :
          /\ x.id = sent.fields.rows[i].id
          /\ \/ Panel!Shows(sent.fields.rows[i], x)
             \/ x \in sent.list.contacts /\ \E e \in requests' : e.op = "update" /\ e.key = i /\ Pending(e)
  BY <1>3 DEF Reached, ReachedWith
<1> QED BY <1>2, <1>6, <1>7, <1>8 DEF Reached, ReachedWith, Ids, Pending
\* The contacts that were added stand for the rows that are no longer to be added.
LEMMA AddedStayMatched ==
  ASSUME Reached, sent' = sent, Made(company', sent.list.made) = Made(company, sent.list.made),
         {i \in NewKeys(sent.fields) : \A e \in requests : e.op = "add" /\ e.key = i => ~Pending(e)}'
         = {i \in NewKeys(sent.fields) : \A e \in requests : e.op = "add" /\ e.key = i => ~Pending(e)}
  PROVE  Matched(Made(company, sent.list.made), sent.fields.rows,
                 {i \in NewKeys(sent.fields) : \A e \in requests : e.op = "add" /\ e.key = i => ~Pending(e)})'
<1> DEFINE K == {i \in NewKeys(sent.fields) : \A e \in requests : e.op = "add" /\ e.key = i => ~Pending(e)}
<1>1. Matched(Made(company, sent.list.made), sent.fields.rows, K)
  BY DEF Reached, ReachedWith
<1>2. K' = K
  OBVIOUS
<1> HIDE DEF K
<1>3. PICK S, rows, keys : S = Made(company, sent.list.made) /\ rows = sent.fields.rows /\ keys = K
  OBVIOUS
<1>4. Matched(S, rows, keys)
  BY <1>1, <1>3
<1>5. Made(company', sent'.list.made) = S /\ sent'.fields.rows = rows /\ K' = keys
  BY <1>2, <1>3
<1>6. Matched(Made(company', sent'.list.made), sent'.fields.rows, K')
  BY <1>4, <1>5
<1> QED BY <1>6 DEF K

\* What the requests that are left say of the rows that are still to be added.
LEMMA AddsStay ==
  ASSUME PanelTypeOK, NEW c, NEW d, Renewed(c, d), c.op # "add"
  PROVE  {i \in NewKeys(sent.fields) : \A e \in requests : e.op = "add" /\ e.key = i => ~Pending(e)}'
         = {i \in NewKeys(sent.fields) : \A e \in requests : e.op = "add" /\ e.key = i => ~Pending(e)}
<1>1. d.op = c.op /\ sent' = sent /\ requests' = (requests \ {c}) \cup {d}
  BY RenewedIsAlike DEF Renewed
<1>2. \A e : e.op = "add" => (e \in requests' <=> e \in requests)
  BY <1>1
<1> QED BY <1>1, <1>2 DEF NewKeys, Pending

LEMMA DeletedReaches ==
  ASSUME PanelTypeOK, Editing, Reached, NEW c, NEW d, Renewed(c, d), d.state = "ok", c.op = "delete",
         company'.made = company.made, company'.site = company.site,
         \A x : x \in company'.contacts <=> x \in company.contacts /\ x.id # c.row.id
  PROVE  Reached'
<1>1. /\ c \in requests /\ d.op = c.op /\ d.row = c.row /\ d.key = c.key /\ sent' = sent
      /\ requests' = (requests \ {c}) \cup {d}
  BY RenewedIsAlike DEF Renewed
<1>2. c.row \in sent.list.contacts /\ c.row.id \notin Ids(sent.fields) /\ WellMade(sent.list)
  BY <1>1 DEF Editing, MadeFrom
<1>3. c.row.id \in Nat /\ c.row.id <= sent.list.made /\ sent.list.made \in Nat
  BY <1>2 DEF WellMade, CompanyType, PanelRow
<1>4. Made(company', sent.list.made) = Made(company, sent.list.made)
  <2>1. \A x \in company.contacts : x.id \in Nat
    BY DEF PanelTypeOK, WellMade, CompanyType, PanelRow
  <2>2. \A x \in company.contacts : x.id > sent.list.made => x.id # c.row.id
    BY <1>3, <2>1
  <2> QED BY <2>2 DEF Made
<1>5. Matched(Made(company, sent.list.made), sent.fields.rows,
              {i \in NewKeys(sent.fields) : \A e \in requests : e.op = "add" /\ e.key = i => ~Pending(e)})'
  BY <1>1, <1>4, AddsStay, AddedStayMatched
<1>6. \A x \in company'.contacts :
        \/ x.id \in Ids(sent.fields) \/ x.id > sent.list.made
        \/ \E e \in requests' : e.op = "delete" /\ Pending(e) /\ e.row.id = x.id
  BY <1>1 DEF Reached, ReachedWith
<1>7. \A i \in DOMAIN sent.fields.rows : sent.fields.rows[i].id # 0 =>
        \E x \in company'.contacts :
          /\ x.id = sent.fields.rows[i].id
          /\ \/ Panel!Shows(sent.fields.rows[i], x)
             \/ x \in sent.list.contacts /\ \E e \in requests' : e.op = "update" /\ e.key = i /\ Pending(e)
  <2> SUFFICES ASSUME NEW i \in DOMAIN sent.fields.rows, sent.fields.rows[i].id # 0
               PROVE  \E x \in company'.contacts :
                        /\ x.id = sent.fields.rows[i].id
                        /\ \/ Panel!Shows(sent.fields.rows[i], x)
                           \/ x \in sent.list.contacts /\ \E e \in requests' : e.op = "update" /\ e.key = i /\ Pending(e)
    OBVIOUS
  <2>1. sent.fields.rows[i].id # c.row.id
    BY <1>2 DEF Ids
  <2>2. PICK x \in company.contacts :
          /\ x.id = sent.fields.rows[i].id
          /\ \/ Panel!Shows(sent.fields.rows[i], x)
             \/ x \in sent.list.contacts /\ \E e \in requests : e.op = "update" /\ e.key = i /\ Pending(e)
    BY DEF Reached, ReachedWith
  <2>3. \A e \in requests : e.op = "update" => e \in requests'
    BY <1>1
  <2>4. x \in company'.contacts
    BY <2>1, <2>2
  <2> QED BY <2>2, <2>3, <2>4
<1> QED BY <1>1, <1>5, <1>6, <1>7 DEF Reached, ReachedWith

LEMMA AddedReaches ==
  ASSUME PanelTypeOK, Editing, Reached, NEW c, NEW d, Renewed(c, d), d.state = "ok", c.op = "add",
         company' = Panel!Inserted(c.row)
  PROVE  Reached'
<1>1. /\ c \in requests /\ d.op = c.op /\ d.row = c.row /\ d.key = c.key /\ sent' = sent
      /\ requests' = (requests \ {c}) \cup {d} /\ c \in PanelAsk /\ Pending(c) /\ ~Pending(d)
  BY RenewedIsAlike DEF Renewed, Pending
<1>2. c.row \in PanelRow /\ WellMade(company)
  BY <1>1 DEF PanelAsk, PanelTypeOK
<1>3. c.key \in NewKeys(sent.fields) /\ c.row = sent.fields.rows[c.key]
  BY <1>1 DEF Editing, MadeFrom
<1> DEFINE x == [c.row EXCEPT !.id = company.made + 1]
<1>4. /\ company'.site = company.site /\ company'.made = company.made + 1
      /\ company'.contacts = company.contacts \cup {x} /\ x.id = company.made + 1
      /\ x \notin company.contacts /\ Panel!Alike(c.row, x)
  BY <1>2, InsertedIsWellMade
<1>5. company.made \in Nat /\ sent.list.made \in Nat /\ sent.list.made <= company.made
  BY DEF PanelTypeOK, WellMade, CompanyType, Reached, ReachedWith
<1>6. PICK y : y = x
  OBVIOUS
<1> HIDE DEF x
<1> DEFINE M == Made(company, sent.list.made)
           K == {i \in NewKeys(sent.fields) : \A e \in requests : e.op = "add" /\ e.key = i => ~Pending(e)}
<1>7. Made(company', sent'.list.made) = M \cup {y} /\ y \notin M
  BY <1>1, <1>4, <1>5, <1>6 DEF Made
<1>8. c.key \notin K
  BY <1>1
<1>9. K' = K \cup {c.key}
  <2>1. \A e \in requests : e.op = "add" /\ e.key = c.key => e = c
    BY <1>1, <1>3 DEF Editing, MadeFrom
  <2>2. \A i \in NewKeys(sent.fields) : i # c.key =>
          ((\A e \in requests' : e.op = "add" /\ e.key = i => ~Pending(e))
           <=> (\A e \in requests : e.op = "add" /\ e.key = i => ~Pending(e)))
    BY <1>1
  <2>3. \A e \in requests' : e.op = "add" /\ e.key = c.key => ~Pending(e)
    BY <1>1, <2>1
  <2> QED BY <1>1, <1>3, <2>2, <2>3 DEF NewKeys, Pending
<1>10. Matched(Made(company, sent.list.made), sent.fields.rows, K)'
  <2>1. Matched(M, sent.fields.rows, K)
    BY DEF Reached, ReachedWith
  <2> HIDE DEF K, M
  <2>2. PICK S, rows, keys, k : S = M /\ rows = sent.fields.rows /\ keys = K /\ k = c.key
    OBVIOUS
  <2>3. Matched(S \cup {y}, rows, keys \cup {k})
    BY <1>3, <1>4, <1>6, <1>7, <1>8, <2>1, <2>2, OneMoreMatched
  <2>4. Made(company', sent'.list.made) = S \cup {y} /\ sent'.fields.rows = rows /\ K' = keys \cup {k}
    BY <1>1, <1>7, <1>9, <2>2
  <2>5. Matched(Made(company', sent'.list.made), sent'.fields.rows, K')
    BY <2>3, <2>4
  <2> QED BY <2>5
<1>11. \A z \in company'.contacts :
        \/ z.id \in Ids(sent.fields) \/ z.id > sent.list.made
        \/ \E e \in requests' : e.op = "delete" /\ Pending(e) /\ e.row.id = z.id
  <2>1. \A e \in requests : e.op = "delete" => e \in requests'
    BY <1>1
  <2> QED BY <1>4, <1>5, <2>1 DEF Reached, ReachedWith
<1>12. \A i \in DOMAIN sent.fields.rows : sent.fields.rows[i].id # 0 =>
        \E z \in company'.contacts :
          /\ z.id = sent.fields.rows[i].id
          /\ \/ Panel!Shows(sent.fields.rows[i], z)
             \/ z \in sent.list.contacts /\ \E e \in requests' : e.op = "update" /\ e.key = i /\ Pending(e)
  <2>1. \A e \in requests : e.op = "update" => e \in requests'
    BY <1>1
  <2> QED BY <1>4, <2>1 DEF Reached, ReachedWith
<1>13. sent'.list.made <= company'.made
  BY <1>1, <1>4, <1>5
<1> QED BY <1>1, <1>4, <1>10, <1>11, <1>12, <1>13 DEF Reached, ReachedWith

\* A row and the contact it was made from differ where the request says so.
LEMMA ChangesAreKnown ==
  ASSUME NEW row \in PanelRow
  PROVE  /\ "name" \in Panel!ChangedIn(row) <=> row.name # Panel!Original(row).name
         /\ "title" \in Panel!ChangedIn(row) <=> row.title # Panel!Original(row).title
  BY DEF Panel!ChangedIn

LEMMA OriginalIsTheContact ==
  ASSUME WellMade(sent.list), NEW row, NEW x \in sent.list.contacts, x.id = row.id
  PROVE  Panel!Original(row) = x
  BY DEF Panel!Original, WellMade

LEMMA UpdatedReaches ==
  ASSUME PanelTypeOK, Editing, Reached, NEW c, NEW d, Renewed(c, d), d.state = "ok", c.op = "update",
         company'.made = company.made, company'.site = company.site,
         \A x \in company.contacts : (IF x.id = c.row.id THEN Panel!Written(x, c) ELSE x) \in company'.contacts,
         \A e \in company'.contacts : \E x \in company.contacts :
           e.id = x.id /\ (x.id # c.row.id => e = x) /\ (x.id = c.row.id => e = Panel!Written(x, c))
  PROVE  Reached'
<1>1. /\ c \in requests /\ d.op = c.op /\ d.row = c.row /\ d.key = c.key /\ sent' = sent
      /\ requests' = (requests \ {c}) \cup {d} /\ c \in PanelAsk
  BY RenewedIsAlike DEF Renewed
<1>2. /\ c.key \in DOMAIN sent.fields.rows /\ c.row = sent.fields.rows[c.key] /\ c.row.id # 0
      /\ c.changed = Panel!ChangedIn(c.row) /\ c.row \in PanelRow
      /\ WellMade(sent.list) /\ Apart(sent.fields) /\ Ids(sent.fields) \subseteq ContactIds(sent.list)
  BY <1>1 DEF Editing, MadeFrom, PanelAsk
<1>3. \A x \in company.contacts : x \in PanelRow
  BY DEF PanelTypeOK, WellMade, CompanyType
<1>4. c.row.id \in Nat /\ c.row.id <= sent.list.made /\ sent.list.made \in Nat
  <2>1. c.row.id \in ContactIds(sent.list)
    BY <1>2 DEF Ids
  <2>2. PICK x \in sent.list.contacts : x.id = c.row.id
    BY <2>1 DEF ContactIds
  <2> QED BY <1>2, <2>2 DEF WellMade, CompanyType, PanelRow
<1>5. Made(company', sent.list.made) = Made(company, sent.list.made)
  <2>1. \A x \in company.contacts : x.id > sent.list.made => x.id # c.row.id
    BY <1>3, <1>4 DEF PanelRow
  <2>2. \A x \in company.contacts : x.id > sent.list.made => x \in company'.contacts
    BY <2>1
  <2>3. \A e \in company'.contacts : e.id > sent.list.made => e \in company.contacts
    BY <2>1
  <2> QED BY <2>2, <2>3 DEF Made
<1>6. Matched(Made(company, sent.list.made), sent.fields.rows,
              {i \in NewKeys(sent.fields) : \A e \in requests : e.op = "add" /\ e.key = i => ~Pending(e)})'
  BY <1>1, <1>5, AddsStay, AddedStayMatched
<1>7. \A x \in company'.contacts :
        \/ x.id \in Ids(sent.fields) \/ x.id > sent.list.made
        \/ \E e \in requests' : e.op = "delete" /\ Pending(e) /\ e.row.id = x.id
  <2>1. \A e \in requests : e.op = "delete" => e \in requests'
    BY <1>1
  <2> QED BY <2>1 DEF Reached, ReachedWith
<1>8. \A i \in DOMAIN sent.fields.rows : sent.fields.rows[i].id # 0 =>
        \E z \in company'.contacts :
          /\ z.id = sent.fields.rows[i].id
          /\ \/ Panel!Shows(sent.fields.rows[i], z)
             \/ z \in sent.list.contacts /\ \E e \in requests' : e.op = "update" /\ e.key = i /\ Pending(e)
  <2> SUFFICES ASSUME NEW i \in DOMAIN sent.fields.rows, sent.fields.rows[i].id # 0
               PROVE  \E z \in company'.contacts :
                        /\ z.id = sent.fields.rows[i].id
                        /\ \/ Panel!Shows(sent.fields.rows[i], z)
                           \/ z \in sent.list.contacts /\ \E e \in requests' : e.op = "update" /\ e.key = i /\ Pending(e)
    OBVIOUS
  <2>1. PICK x \in company.contacts :
          /\ x.id = sent.fields.rows[i].id
          /\ \/ Panel!Shows(sent.fields.rows[i], x)
             \/ x \in sent.list.contacts /\ \E e \in requests : e.op = "update" /\ e.key = i /\ Pending(e)
    BY DEF Reached, ReachedWith
  <2>2. CASE i = c.key
    <3> DEFINE w == Panel!Written(x, c)
    <3>1. x.id = c.row.id /\ sent.fields.rows[i] = c.row
      BY <1>2, <2>1, <2>2
    <3>2. w \in company'.contacts
      BY <3>1
    <3>3. /\ w.id = x.id /\ w.name = (IF "name" \in c.changed THEN c.row.name ELSE x.name)
          /\ w.title = (IF "title" \in c.changed /\ c.row.title # Empty THEN c.row.title ELSE x.title)
      BY <1>1, <1>3, WrittenIsRow
    <3> HIDE DEF w
    <3>4. CASE Panel!Shows(sent.fields.rows[i], x)
      BY <3>1, <3>2, <3>3, <3>4 DEF Panel!Shows
    <3>5. CASE x \in sent.list.contacts
      <4>1. Panel!Original(c.row) = x
        BY <1>2, <3>1, <3>5, OriginalIsTheContact
      <4>2. /\ "name" \in c.changed <=> c.row.name # x.name
            /\ "title" \in c.changed <=> c.row.title # x.title
        BY <1>2, <4>1, ChangesAreKnown
      <4> QED BY <3>1, <3>2, <3>3, <4>2 DEF Panel!Shows
    <3> QED BY <2>1, <3>4, <3>5
  <2>3. CASE i # c.key
    <3>1. x.id # c.row.id
      BY <1>2, <2>1, <2>3 DEF Apart
    <3>2. x \in company'.contacts
      BY <3>1
    <3>3. \A e \in requests : e.key = i => e \in requests'
      BY <1>1, <2>3
    <3> QED BY <2>1, <3>2, <3>3
  <2> QED BY <2>2, <2>3
<1> QED BY <1>1, <1>6, <1>7, <1>8 DEF Reached, ReachedWith

LEMMA PanelServeKeeps == ASSUME PanelInv, Panel!Serve PROVE PanelInv'
<1>1. PICK c \in requests :
        /\ c.state = "sent" /\ c.op # "create"
        /\ Panel!Step(c, IF Panel!Accepted(c) THEN "ok" ELSE "failed")
        /\ company' = IF Panel!Accepted(c) THEN Panel!Effect(c) ELSE company
        /\ UNCHANGED <<mode, list, fetch, stage, fields, sent, told, clicks>>
  BY DEF Panel!Serve, Panel!panel, Panel!bounds
<1>2. PanelTypeOK /\ WellMade(company) /\ c \in PanelAsk
  BY <1>1 DEF PanelInv, PanelTypeOK
<1>3. mode = "edit" /\ Editing
  BY <1>1, <1>2 DEF PanelInv, Creating, PanelTypeOK
<1>4. PICK t \in {"ok", "failed"} : t = IF Panel!Accepted(c) THEN "ok" ELSE "failed"
  OBVIOUS
<1>5. PICK d : d = [c EXCEPT !.state = t]
  OBVIOUS
<1>6. d.state = t
  BY <1>2, <1>5 DEF PanelAsk
<1>7. Renewed(c, d)
  BY <1>1, <1>4, <1>5, <1>6 DEF Renewed, Panel!Step
<1>8. Ids(fields) \subseteq ContactIds(company) /\ MadeFrom(c)
  BY <1>1, <1>3 DEF Editing
<1>9. CASE t = "failed"
  <2>1. company' = company /\ d.state # "ok"
    BY <1>1, <1>4, <1>6, <1>9
  <2>2. stage = "contacts" => Reached'
    BY <1>2, <1>3, <1>6, <1>7, <1>9, <2>1, FailedReaches DEF Editing
  <2> QED BY <1>2, <1>3, <1>7, <1>8, <2>1, <2>2, RenewedKeeps
<1>10. CASE t = "ok"
  <2>1. company' = Panel!Effect(c) /\ d.state = "ok" /\ Panel!Accepted(c) /\ d.state # "failed"
    BY <1>1, <1>4, <1>6, <1>10
  <2>2. CASE c.op = "edit"
    <3>1. stage = "edit" /\ company = sent.list /\ company.contacts = sent.list.contacts /\ company.made = sent.list.made
      BY <1>1, <1>8, <2>2 DEF MadeFrom
    <3>2. CASE sent.fields.site = Empty
      <4>1. company' = company
        BY <2>1, <2>2, <3>2 DEF Panel!Effect
      <4> QED BY <1>2, <1>3, <1>7, <1>8, <2>1, <3>1, <3>2, <4>1, RenewedKeeps
    <3>3. CASE sent.fields.site # Empty
      <4>1. company' = [company EXCEPT !.site = sent.fields.site]
        BY <2>1, <2>2, <3>3 DEF Panel!Effect
      <4>2. sent.fields.site \in Sites
        BY <1>2, <3>3 DEF PanelTypeOK, FormType
      <4>3. /\ WellMade(company') /\ company'.contacts = company.contacts /\ company'.made = company.made
            /\ company'.site = sent.fields.site
        BY <1>2, <4>1, <4>2, EditedIsWellMade
      <4>4. Ids(fields) \subseteq ContactIds(company')
        BY <1>8, <4>3 DEF ContactIds
      <4> QED BY <1>3, <1>7, <2>1, <3>1, <4>3, <4>4, RenewedKeeps
    <3> QED BY <3>2, <3>3
  <2>3. CASE c.op = "delete"
    <3>1. company' = [company EXCEPT !.contacts = {x \in company.contacts : x.id # c.row.id}]
      BY <2>1, <2>3 DEF Panel!Effect
    <3>2. /\ WellMade(company') /\ company'.made = company.made /\ company'.site = company.site
          /\ \A x : x \in company'.contacts <=> x \in company.contacts /\ x.id # c.row.id
      BY <1>2, <3>1, DeletedIsWellMade
    <3>3. c.row.id \notin Ids(fields)
      BY <1>8, <2>3 DEF MadeFrom
    <3>4. Ids(fields) \subseteq ContactIds(company')
      BY <1>8, <3>2, <3>3 DEF ContactIds
    <3>5. stage = "contacts" => Reached'
      BY <1>2, <1>3, <1>7, <2>1, <2>3, <3>2, DeletedReaches DEF Editing
    <3> QED BY <1>3, <1>7, <2>1, <2>3, <3>2, <3>4, <3>5, RenewedKeeps
  <2>4. CASE c.op = "add"
    <3>1. company' = Panel!Inserted(c.row) /\ c.row \in PanelRow
      BY <1>2, <2>1, <2>4 DEF Panel!Effect, PanelAsk
    <3>2. WellMade(company') /\ company.contacts \subseteq company'.contacts
      BY <1>2, <3>1, InsertedIsWellMade
    <3>3. Ids(fields) \subseteq ContactIds(company')
      BY <1>8, <3>2 DEF ContactIds
    <3>4. stage = "contacts" => Reached'
      BY <1>2, <1>3, <1>7, <2>1, <2>4, <3>1, AddedReaches DEF Editing
    <3> QED BY <1>3, <1>7, <2>1, <2>4, <3>2, <3>3, <3>4, RenewedKeeps
  <2>5. CASE c.op = "update"
    <3>1. company' = [company EXCEPT !.contacts =
                        {IF x.id = c.row.id THEN Panel!Written(x, c) ELSE x : x \in company.contacts}]
      BY <2>1, <2>5 DEF Panel!Effect
    <3>2. /\ WellMade(company') /\ company'.made = company.made /\ company'.site = company.site
          /\ \A x \in company.contacts : (IF x.id = c.row.id THEN Panel!Written(x, c) ELSE x) \in company'.contacts
          /\ \A e \in company'.contacts : \E x \in company.contacts :
               e.id = x.id /\ (x.id # c.row.id => e = x) /\ (x.id = c.row.id => e = Panel!Written(x, c))
      BY <1>2, <3>1, UpdatedIsWellMade
    <3>3. \A x \in company.contacts : x \in PanelRow
      BY <1>2 DEF WellMade, CompanyType
    <3>4. \A x \in company.contacts : \E e \in company'.contacts : e.id = x.id
      BY <1>2, <3>2, <3>3, WrittenIsRow
    <3>5. Ids(fields) \subseteq ContactIds(company')
      BY <1>8, <3>4 DEF ContactIds
    <3>6. stage = "contacts" => Reached'
      BY <1>2, <1>3, <1>7, <2>1, <2>5, <3>2, UpdatedReaches DEF Editing
    <3> QED BY <1>3, <1>7, <2>1, <2>5, <3>2, <3>5, <3>6, RenewedKeeps
  <2> QED BY <1>1, <1>2, <2>2, <2>3, <2>4, <2>5 DEF PanelAsk
<1> QED BY <1>4, <1>9, <1>10

LEMMA LoseKeeps == ASSUME PanelInv, Panel!Lose PROVE PanelInv'
<1>1. PICK c \in requests :
        /\ c.state \in {"sent", "running"} /\ Panel!Step(c, "failed")
        /\ UNCHANGED <<mode, company, list, fetch, stage, fields, sent, told, clicks>>
  BY DEF Panel!Lose, Panel!panel
<1>2. PanelTypeOK /\ WellMade(company) /\ c \in PanelAsk
  BY <1>1 DEF PanelInv, PanelTypeOK
<1>3. PICK d : d = [c EXCEPT !.state = "failed"]
  OBVIOUS
<1>4. d \in PanelAsk /\ d.state = "failed" /\ d.op = c.op /\ requests' = (requests \ {c}) \cup {d}
  BY <1>1, <1>2, <1>3 DEF PanelAsk, Panel!Step
<1>5. CASE mode = "create"
  <2>1. PanelTypeOK'
    <3>1. PanelAsk' = PanelAsk
      BY <1>1 DEF PanelAsk
    <3>2. requests' \subseteq PanelAsk'
      BY <1>2, <1>4, <3>1 DEF PanelTypeOK
    <3>3. WellMade(company)'
      BY <1>1, <1>2 DEF WellMade
    <3> QED BY <1>1, <1>2, <3>2, <3>3 DEF PanelTypeOK
  <2>2. Ids(fields) = {} /\ Ids(sent.fields) = {} /\ requests = {c} /\ c.op = "create" /\ stage = "create"
    BY <1>1, <1>5 DEF PanelInv, Creating
  <2>3. Creating'
    BY <1>1, <1>4, <2>2 DEF Creating, Ids
  <2>4. told' = Panel!NoFields
    BY <1>1 DEF PanelInv
  <2> QED BY <1>1, <1>5, <2>1, <2>3, <2>4 DEF PanelInv
<1>6. CASE mode = "edit"
  <2>1. Editing /\ c.state = "sent"
    BY <1>1, <1>6 DEF PanelInv, Editing
  <2>2. Renewed(c, d)
    BY <1>1, <1>3, <1>4, <2>1 DEF Renewed, Panel!Step
  <2>3. stage = "contacts" => Reached'
    BY <1>1, <1>2, <1>4, <2>1, <2>2, FailedReaches DEF Editing
  <2>4. Ids(fields) \subseteq ContactIds(company')
    BY <1>1, <2>1 DEF Editing, ContactIds
  <2>5. WellMade(company') /\ company' = company /\ d.state # "ok"
    BY <1>1, <1>2, <1>4
  <2> QED BY <1>6, <2>2, <2>3, <2>4, <2>5, RenewedKeeps
<1> QED BY <1>2, <1>5, <1>6 DEF PanelTypeOK

LEMMA FailsKeeps == ASSUME PanelInv, Panel!Fails PROVE PanelInv'
<1>1. PICK c \in requests :
        /\ c.state = "failed" /\ requests' = requests \ {c}
        /\ stage' = IF c.save = clicks THEN "idle" ELSE stage
        /\ UNCHANGED <<mode, company, list, fetch, fields, sent, told, clicks>>
  BY DEF Panel!Fails, Panel!bounds
<1>2. PanelTypeOK /\ c \in PanelAsk /\ WellMade(company)
  BY <1>1 DEF PanelInv, PanelTypeOK
<1>3. stage' = "idle"
  BY <1>1, <1>2 DEF PanelAsk
<1>4. PanelTypeOK'
  <2>1. PanelAsk' = PanelAsk
    BY <1>1 DEF PanelAsk
  <2>2. requests' \subseteq PanelAsk'
    BY <1>1, <1>2, <2>1 DEF PanelTypeOK
  <2>3. WellMade(company)'
    BY <1>1, <1>2 DEF WellMade
  <2> QED BY <1>1, <1>2, <1>3, <2>2, <2>3 DEF PanelTypeOK
<1>5. told' = Panel!NoFields
  BY <1>1 DEF PanelInv
<1>6. CASE mode = "create"
  <2>1. Ids(fields) = {} /\ Ids(sent.fields) = {} /\ requests = {c}
    BY <1>1, <1>6 DEF PanelInv, Creating
  <2>2. Creating'
    BY <1>1, <2>1 DEF Creating, Ids
  <2> QED BY <1>1, <1>4, <1>5, <1>6, <2>2 DEF PanelInv
<1>7. CASE mode = "edit"
  <2>1. Editing
    BY <1>7 DEF PanelInv
  <2>2. \A e \in requests' : e.op # "edit"
    BY <1>1, <2>1 DEF Editing, MadeFrom
  <2>3. \A e \in requests' : MadeFrom(e)'
    BY <1>1, <2>1, <2>2 DEF Editing, MadeFrom, NewKeys, Panel!ChangedIn, Panel!Original
  <2>4. ListInStep'
    <3>1. NoNews' => NoNews
      BY <1>1 DEF NoNews
    <3> QED BY <1>1, <2>1, <3>1 DEF Editing, ListInStep
  <2>5. (requests # {} => WellMade(sent.list) /\ Apart(sent.fields) /\ Ids(sent.fields) \subseteq ContactIds(sent.list))'
    <3>1. WellMade(sent.list) /\ Apart(sent.fields) /\ Ids(sent.fields) \subseteq ContactIds(sent.list)
      BY <1>1, <2>1 DEF Editing
    <3> QED BY <1>1, <3>1 DEF WellMade, Apart, Ids, ContactIds
  <2>6. Apart(fields)' /\ (Ids(fields) \subseteq ContactIds(company))'
    BY <1>1, <2>1 DEF Editing, Apart, Ids, ContactIds
  <2>7. /\ \A e \in requests' : e.op # "create" /\ e.state # "running"
        /\ \A e, g \in requests' : e.op = g.op /\ e.key = g.key /\ e.row.id = g.row.id => e = g
    BY <1>1, <2>1 DEF Editing
  <2>8. Editing'
    BY <1>3, <2>3, <2>4, <2>5, <2>6, <2>7 DEF Editing
  <2> QED BY <1>1, <1>4, <1>5, <1>7, <2>8 DEF PanelInv
<1> QED BY <1>2, <1>6, <1>7 DEF PanelTypeOK

-----------------------------------------------------------------------------
(* A company is made                                                         *)

\* The one request of a panel that makes a company.
LEMMA OneCreation ==
  ASSUME PanelInv, NEW c \in requests, c.op = "create" \/ c.state = "running"
  PROVE  /\ mode = "create" /\ Creating /\ requests = {c} /\ c.op = "create" /\ stage = "create"
         /\ c \in PanelAsk /\ Ids(fields) = {} /\ Ids(sent.fields) = {} /\ told = Panel!NoFields
         /\ sent.fields \in FormType /\ WellMade(company)
<1>1. mode # "edit"
  BY DEF PanelInv, Editing
<1> QED BY <1>1 DEF PanelInv, PanelTypeOK, Creating

\* The request goes on, and the company is what has been made of it.
LEMMA CreationKeeps ==
  ASSUME PanelInv, NEW c \in requests, c.op = "create" \/ c.state = "running", NEW d \in PanelAsk,
         requests' = {d}, d.op = "create", d.state \in {"running", "ok"},
         UNCHANGED <<mode, list, fetch, stage, fields, sent, told, clicks>>,
         WellMade(company'), company'.site = sent.fields.site,
         Matched(company'.contacts, sent.fields.rows, NewKeys(sent.fields) \ Panel!ToCreate(d)),
         d.state = "ok" => Panel!ToCreate(d) = {}
  PROVE  PanelInv'
<1>1. PanelTypeOK
  BY DEF PanelInv
<1>2. PanelTypeOK'
  <2>1. PanelAsk' = PanelAsk
    BY DEF PanelAsk
  <2>2. requests' \subseteq PanelAsk'
    BY <1>1, <2>1
  <2> QED BY <1>1, <2>2 DEF PanelTypeOK
<1>3. /\ mode = "create" /\ stage = "create" /\ Ids(fields) = {} /\ Ids(sent.fields) = {} /\ told = Panel!NoFields
  BY OneCreation
<1>4. Panel!ToCreate(d)' = Panel!ToCreate(d)
  BY DEF Panel!ToCreate, Panel!Rows, Panel!NotBlank
<1>5. NewKeys(sent.fields)' = NewKeys(sent.fields)
  BY DEF NewKeys
<1>6. PICK S, rows, keys : S = company'.contacts /\ rows = sent.fields.rows /\ keys = NewKeys(sent.fields) \ Panel!ToCreate(d)
  OBVIOUS
<1>7. Matched(S, rows, keys)
  BY <1>6
<1>8. company'.contacts = S /\ sent'.fields.rows = rows /\ NewKeys(sent'.fields) \ Panel!ToCreate(d)' = keys
  BY <1>4, <1>5, <1>6
<1>9. Matched(company'.contacts, sent'.fields.rows, NewKeys(sent'.fields) \ Panel!ToCreate(d)')
  BY <1>7, <1>8
<1>10. Creating'
  BY <1>3, <1>4, <1>9 DEF Creating, Ids
<1> QED BY <1>2, <1>3, <1>10 DEF PanelInv

LEMMA CreateCompanyKeeps == ASSUME PanelInv, Panel!CreateCompany PROVE PanelInv'
<1>1. PICK c \in requests :
        /\ c.state = "sent" /\ c.op = "create" /\ Panel!Step(c, "running")
        /\ company' = [Panel!NoCompany EXCEPT !.site = sent.fields.site]
        /\ UNCHANGED <<mode, list, fetch, stage, fields, sent, told, clicks>>
  BY DEF Panel!CreateCompany, Panel!panel, Panel!bounds
<1>2. /\ Creating /\ requests = {c} /\ c \in PanelAsk /\ Ids(sent.fields) = {} /\ sent.fields \in FormType
  BY <1>1, OneCreation
<1>3. PICK d : d = [c EXCEPT !.state = "running"]
  OBVIOUS
<1>4. d \in PanelAsk /\ d.state = "running" /\ d.op = "create" /\ d.done = 0 /\ requests' = {d}
  BY <1>1, <1>2, <1>3 DEF PanelAsk, Panel!Step, Creating
<1>5. /\ company' \in CompanyType /\ company'.contacts = {} /\ company'.site = sent.fields.site
  BY <1>1, <1>2 DEF Panel!NoCompany, CompanyType, FormType
<1>6. WellMade(company')
  BY <1>5, FS_EmptySet DEF WellMade
<1>7. NewKeys(sent.fields) \ Panel!ToCreate(d) = {}
  <2>1. \A i \in NewKeys(sent.fields) : i \in Nat /\ i > 0
    BY <1>2 DEF NewKeys, FormType
  <2> QED BY <1>4, <2>1 DEF NewKeys, Panel!ToCreate, Panel!Rows
<1>8. Matched(company'.contacts, sent.fields.rows, NewKeys(sent.fields) \ Panel!ToCreate(d))
  BY <1>5, <1>7, NoneMatched
<1>9. d.state # "ok"
  BY <1>4
<1> QED BY <1>1, <1>4, <1>5, <1>6, <1>8, <1>9, CreationKeeps

LEMMA CreateContactKeeps == ASSUME PanelInv, Panel!CreateContact PROVE PanelInv'
<1>1. PICK c \in requests :
        /\ c.state = "running"
        /\ IF Panel!ToCreate(c) # {}
           THEN LET i == Panel!Min(Panel!ToCreate(c)) IN
                /\ company' = Panel!Inserted(Panel!Rows[i])
                /\ requests' = (requests \ {c}) \cup {[c EXCEPT !.done = i]}
           ELSE Panel!Step(c, "ok") /\ UNCHANGED company
        /\ UNCHANGED <<mode, list, fetch, stage, fields, sent, told, clicks>>
  BY DEF Panel!CreateContact, Panel!panel, Panel!bounds
<1>2. /\ Creating /\ requests = {c} /\ c \in PanelAsk /\ c.op = "create" /\ Ids(sent.fields) = {}
      /\ sent.fields \in FormType /\ WellMade(company)
  BY <1>1, OneCreation
<1>3. /\ company.site = sent.fields.site
      /\ Matched(company.contacts, sent.fields.rows, NewKeys(sent.fields) \ Panel!ToCreate(c))
  BY <1>1, <1>2 DEF Creating
<1>4. CASE Panel!ToCreate(c) = {}
  <2>1. PICK d : d = [c EXCEPT !.state = "ok"]
    OBVIOUS
  <2>2. d \in PanelAsk /\ d.state = "ok" /\ d.op = "create" /\ d.done = c.done /\ requests' = {d}
    BY <1>1, <1>2, <1>4, <2>1 DEF PanelAsk, Panel!Step
  <2>3. Panel!ToCreate(d) = Panel!ToCreate(c)
    BY <2>2 DEF Panel!ToCreate
  <2> QED BY <1>1, <1>2, <1>3, <1>4, <2>2, <2>3, CreationKeeps
<1>5. CASE Panel!ToCreate(c) # {}
  <2>1. \A i \in Panel!ToCreate(c) : i \in NewKeys(sent.fields) /\ i \in Nat /\ i > c.done /\ sent.fields.rows[i] \in PanelRow
    <3>1. \A i \in DOMAIN sent.fields.rows : sent.fields.rows[i].id = 0
      BY <1>2 DEF Ids
    <3>2. \A i \in DOMAIN sent.fields.rows : i \in Nat /\ sent.fields.rows[i] \in PanelRow
      <4>1. sent.fields.rows \in Seq(PanelRow)
        BY <1>2 DEF FormType
      <4> QED BY <4>1
    <3>3. \A i \in Panel!ToCreate(c) : i \in DOMAIN sent.fields.rows /\ i > c.done /\ Panel!NotBlank(sent.fields.rows[i])
      BY DEF Panel!ToCreate, Panel!Rows
    <3> QED BY <3>1, <3>2, <3>3 DEF NewKeys
  <2>2. PICK i \in Panel!ToCreate(c) : \A j \in Panel!ToCreate(c) : i <= j
    BY <1>5, <2>1, Least
  <2>3. Panel!Min(Panel!ToCreate(c)) \in Panel!ToCreate(c)
        /\ \A j \in Panel!ToCreate(c) : Panel!Min(Panel!ToCreate(c)) <= j
    BY <2>2 DEF Panel!Min
  <2>4. Panel!Min(Panel!ToCreate(c)) = i
    BY <2>1, <2>2, <2>3
  <2>5. PICK d : d = [c EXCEPT !.done = i]
    OBVIOUS
  <2>6. d \in PanelAsk /\ d.state = "running" /\ d.op = "create" /\ d.done = i /\ requests' = {d}
    BY <1>1, <1>2, <1>5, <2>1, <2>4, <2>5 DEF PanelAsk
  <2>7. company' = Panel!Inserted(sent.fields.rows[i])
    BY <1>1, <1>5, <2>4 DEF Panel!Rows
  <2> DEFINE x == [sent.fields.rows[i] EXCEPT !.id = company.made + 1]
  <2>8. /\ WellMade(company') /\ company'.site = company.site
        /\ company'.contacts = company.contacts \cup {x} /\ x \notin company.contacts
        /\ Panel!Alike(sent.fields.rows[i], x)
    BY <1>2, <2>1, <2>7, InsertedIsWellMade
  <2> HIDE DEF x
  <2>9. \A j : j \in Panel!ToCreate(d) <=> j \in Panel!ToCreate(c) /\ j # i
    <3>1. \A j \in Panel!ToCreate(c) : j # i <=> j > i
      BY <2>1, <2>2
    <3>2. \A j \in DOMAIN sent.fields.rows : j > i => j > c.done
      BY <1>2, <2>1 DEF FormType, PanelAsk
    <3> QED BY <2>2, <2>6, <3>1, <3>2 DEF Panel!ToCreate, Panel!Rows
  <2> DEFINE K == NewKeys(sent.fields) \ Panel!ToCreate(c)
  <2>10. NewKeys(sent.fields) \ Panel!ToCreate(d) = K \cup {i} /\ i \notin K
    BY <2>1, <2>2, <2>9
  <2> HIDE DEF K
  <2>11. Matched(company.contacts \cup {x}, sent.fields.rows, K \cup {i})
    BY <1>3, <2>8, <2>10, OneMoreMatched DEF K
  <2>12. d.state # "ok" /\ Matched(company'.contacts, sent.fields.rows, NewKeys(sent.fields) \ Panel!ToCreate(d))
    BY <2>6, <2>8, <2>10, <2>11
  <2> QED BY <1>1, <1>3, <2>6, <2>8, <2>12, CreationKeeps
<1> QED BY <1>4, <1>5

-----------------------------------------------------------------------------
(* The answers                                                               *)

\* Once nothing is under way, what was to be reached is what the form was sent with.
LEMMA ReachedMatches ==
  ASSUME PanelTypeOK, WellMade(sent.list), Ids(sent.fields) \subseteq ContactIds(sent.list), ReachedWith({})
  PROVE  Matches(sent.fields, company)
<1>1. \A x \in company.contacts : x.id \in Nat
  BY DEF PanelTypeOK, WellMade, CompanyType, PanelRow
<1>2. \A k \in Ids(sent.fields) : k \in Nat /\ sent.list.made \in Nat /\ k <= sent.list.made
  BY DEF WellMade, CompanyType, PanelRow, ContactIds
<1>3. \A x \in company.contacts : x.id \notin Ids(sent.fields) <=> x.id > sent.list.made
  <2>1. \A x \in company.contacts : x.id \in Ids(sent.fields) \/ x.id > sent.list.made
    BY DEF ReachedWith
  <2> QED BY <1>1, <1>2, <2>1
<1>4. {x \in company.contacts : x.id \notin Ids(sent.fields)} = Made(company, sent.list.made)
  BY <1>3 DEF Made
<1>5. NewKeys(sent.fields) = {i \in NewKeys(sent.fields) : \A e \in {} : e.op = "add" /\ e.key = i => ~Pending(e)}
  OBVIOUS
<1>6. Matched({x \in company.contacts : x.id \notin Ids(sent.fields)}, sent.fields.rows, NewKeys(sent.fields))
  <2>1. Matched(Made(company, sent.list.made), sent.fields.rows,
                {i \in NewKeys(sent.fields) : \A e \in {} : e.op = "add" /\ e.key = i => ~Pending(e)})
    BY DEF ReachedWith
  <2> QED BY <1>4, <1>5, <2>1
<1>7. \A i \in DOMAIN sent.fields.rows : sent.fields.rows[i].id # 0 =>
        \E x \in company.contacts : x.id = sent.fields.rows[i].id /\ Panel!Shows(sent.fields.rows[i], x)
  BY DEF ReachedWith
<1>8. sent.fields.site # Empty => company.site = sent.fields.site
  BY DEF ReachedWith
<1> QED BY <1>6, <1>7, <1>8 DEF Matches

\* An answer that was good leaves nothing to be done.
LEMMA AnswerReaches ==
  ASSUME Reached, NEW c \in requests, c.state = "ok"
  PROVE  ReachedWith(requests \ {c})
<1>1. \A e \in requests : Pending(e) => e \in requests \ {c}
  BY DEF Pending
<1> DEFINE K(asked) == {i \in NewKeys(sent.fields) : \A e \in asked : e.op = "add" /\ e.key = i => ~Pending(e)}
<1>2. K(requests \ {c}) = K(requests)
  BY <1>1
<1>3. Matched(Made(company, sent.list.made), sent.fields.rows, K(requests))
  BY DEF Reached, ReachedWith
<1> HIDE DEF K
<1>4. Matched(Made(company, sent.list.made), sent.fields.rows, K(requests \ {c}))
  BY <1>2, <1>3
<1>5. \A x \in company.contacts :
        \/ x.id \in Ids(sent.fields) \/ x.id > sent.list.made
        \/ \E e \in requests \ {c} : e.op = "delete" /\ Pending(e) /\ e.row.id = x.id
  BY <1>1 DEF Reached, ReachedWith
<1>6. \A i \in DOMAIN sent.fields.rows : sent.fields.rows[i].id # 0 =>
        \E x \in company.contacts :
          /\ x.id = sent.fields.rows[i].id
          /\ \/ Panel!Shows(sent.fields.rows[i], x)
             \/ x \in sent.list.contacts /\ \E e \in requests \ {c} : e.op = "update" /\ e.key = i /\ Pending(e)
  BY <1>1 DEF Reached, ReachedWith
<1> QED BY <1>4, <1>5, <1>6 DEF Reached, ReachedWith, K

\* What a save asks for when the company was edited.
LEMMA Asks ==
  ASSUME PanelTypeOK, WellMade(sent.list), Apart(sent.fields)
  PROVE  \A e \in Panel!Reconcile :
           /\ e \in PanelAsk /\ e.state = "sent" /\ e.op \in {"delete", "update", "add"}
           /\ e.op = "delete" => e.key = 0 /\ e.row \in sent.list.contacts /\ e.row.id \notin Ids(sent.fields)
           /\ e.op = "update" => /\ e.key \in DOMAIN sent.fields.rows /\ e.row = sent.fields.rows[e.key] /\ e.row.id # 0
                                 /\ e.changed = Panel!ChangedIn(e.row)
           /\ e.op = "add" => e.key \in NewKeys(sent.fields) /\ e.row = sent.fields.rows[e.key] /\ e.changed = {}
           /\ e.op = "delete" => e.changed = {}
           /\ e.save = clicks /\ e.done = 0
           /\ e = [op |-> e.op, key |-> e.key, row |-> e.row, changed |-> e.changed, save |-> clicks,
                   state |-> "sent", done |-> 0]
<1> DEFINE Rows == sent.fields.rows
           Ask(op, key, row, changed) == [op |-> op, key |-> key, row |-> row, changed |-> changed,
                                          save |-> clicks, state |-> "sent", done |-> 0]
<1>1. Panel!Rows = Rows /\ Rows \in Seq(PanelRow) /\ sent.list.contacts \subseteq PanelRow /\ clicks \in Nat
  BY DEF Panel!Rows, PanelTypeOK, FormType, WellMade, CompanyType
<1>2. \A i \in DOMAIN Rows : i \in Nat /\ Rows[i] \in PanelRow
  BY <1>1
<1>3. \A row : Panel!ChangedIn(row) \subseteq {"name", "title"}
  BY DEF Panel!ChangedIn
<1> SUFFICES ASSUME NEW e \in Panel!Reconcile
             PROVE  /\ e \in PanelAsk /\ e.state = "sent" /\ e.op \in {"delete", "update", "add"}
                    /\ e.op = "delete" => e.key = 0 /\ e.row \in sent.list.contacts /\ e.row.id \notin Ids(sent.fields)
                    /\ e.op = "update" => /\ e.key \in DOMAIN Rows /\ e.row = Rows[e.key] /\ e.row.id # 0
                                          /\ e.changed = Panel!ChangedIn(e.row)
                    /\ e.op = "add" => e.key \in NewKeys(sent.fields) /\ e.row = Rows[e.key] /\ e.changed = {}
                    /\ e.op = "delete" => e.changed = {}
                    /\ e.save = clicks /\ e.done = 0
                    /\ e = [op |-> e.op, key |-> e.key, row |-> e.row, changed |-> e.changed, save |-> clicks,
                            state |-> "sent", done |-> 0]
  OBVIOUS
<1> HIDE DEF Rows
<1>4. CASE e \in Panel!Deletions
  <2>1. PICK x \in sent.list.contacts : (\A i \in DOMAIN Rows : Rows[i].id # x.id) /\ e = Ask("delete", 0, x, {})
    BY <1>1, <1>4 DEF Panel!Deletions, Panel!Request
  <2>2. x.id # 0 /\ x \in PanelRow
    BY <1>1 DEF WellMade
  <2>3. x.id \notin Ids(sent.fields)
    BY <2>1 DEF Ids, Rows
  <2> QED BY <1>1, <2>1, <2>2, <2>3 DEF PanelAsk
<1>5. CASE e \in Panel!Updates
  <2>1. PICK i \in DOMAIN Rows : /\ \E x \in sent.list.contacts : x.id = Rows[i].id
                                 /\ e = Ask("update", i, Rows[i], Panel!ChangedIn(Rows[i]))
    BY <1>1, <1>5 DEF Panel!Updates, Panel!Request
  <2>2. Rows[i].id # 0
    BY <2>1 DEF WellMade
  <2>3. PICK row, changed : row = Rows[i] /\ changed = Panel!ChangedIn(row)
    OBVIOUS
  <2>4. e = Ask("update", i, row, changed) /\ row \in PanelRow /\ changed \subseteq {"name", "title"} /\ i \in Nat
    BY <1>2, <1>3, <2>1, <2>3
  <2> QED BY <1>1, <2>2, <2>3, <2>4 DEF PanelAsk
<1>6. CASE e \in Panel!Additions
  <2>1. PICK i \in DOMAIN Rows : Rows[i].id = 0 /\ Panel!NotBlank(Rows[i]) /\ e = Ask("add", i, Rows[i], {})
    BY <1>1, <1>6 DEF Panel!Additions, Panel!Request
  <2>2. i \in NewKeys(sent.fields)
    BY <2>1 DEF NewKeys, Rows
  <2>3. PICK row : row = Rows[i]
    OBVIOUS
  <2>4. e = Ask("add", i, row, {}) /\ row \in PanelRow /\ i \in Nat
    BY <1>2, <2>1, <2>3
  <2> QED BY <1>1, <2>2, <2>3, <2>4 DEF PanelAsk
<1> QED BY <1>4, <1>5, <1>6 DEF Panel!Reconcile

\* It asks for all that is left to reach.
LEMMA AsksForAll ==
  ASSUME PanelTypeOK, WellMade(sent.list), Apart(sent.fields), Ids(sent.fields) \subseteq ContactIds(sent.list),
         company.contacts = sent.list.contacts, company.made = sent.list.made,
         sent.fields.site # Empty => company.site = sent.fields.site
  PROVE  ReachedWith(Panel!Reconcile)
<1> DEFINE Rows == sent.fields.rows
           Ask(op, key, row, changed) == [op |-> op, key |-> key, row |-> row, changed |-> changed,
                                          save |-> clicks, state |-> "sent", done |-> 0]
<1>1. Panel!Rows = Rows /\ company.made \in Nat
  BY DEF Panel!Rows, PanelTypeOK, WellMade, CompanyType
<1>2. \A x \in company.contacts : x.id \in Nat /\ x.id # 0 /\ x.id <= company.made
  BY DEF PanelTypeOK, WellMade, CompanyType, PanelRow
<1>3. \A x \in company.contacts :
        \/ x.id \in Ids(sent.fields) \/ x.id > sent.list.made
        \/ \E e \in Panel!Reconcile : e.op = "delete" /\ Pending(e) /\ e.row.id = x.id
  <2> SUFFICES ASSUME NEW x \in company.contacts, x.id \notin Ids(sent.fields)
               PROVE  \E e \in Panel!Reconcile : e.op = "delete" /\ Pending(e) /\ e.row.id = x.id
    OBVIOUS
  <2>1. \A i \in DOMAIN Rows : Rows[i].id # x.id
    BY <1>2 DEF Ids
  <2>2. Ask("delete", 0, x, {}) \in Panel!Deletions
    BY <1>1, <2>1 DEF Panel!Deletions, Panel!Request
  <2> QED BY <2>2 DEF Panel!Reconcile, Pending
<1>4. \A i \in DOMAIN sent.fields.rows : sent.fields.rows[i].id # 0 =>
        \E x \in company.contacts :
          /\ x.id = sent.fields.rows[i].id
          /\ \/ Panel!Shows(sent.fields.rows[i], x)
             \/ x \in sent.list.contacts /\ \E e \in Panel!Reconcile : e.op = "update" /\ e.key = i /\ Pending(e)
  <2> SUFFICES ASSUME NEW i \in DOMAIN Rows, Rows[i].id # 0
               PROVE  \E x \in company.contacts :
                        /\ x.id = Rows[i].id
                        /\ \/ Panel!Shows(Rows[i], x)
                           \/ x \in sent.list.contacts /\ \E e \in Panel!Reconcile : e.op = "update" /\ e.key = i /\ Pending(e)
    OBVIOUS
  <2>1. PICK x \in sent.list.contacts : x.id = Rows[i].id
    BY DEF Ids, ContactIds
  <2>2. CASE Panel!ChangedIn(Rows[i]) # {}
    <3>1. Ask("update", i, Rows[i], Panel!ChangedIn(Rows[i])) \in Panel!Updates
      BY <1>1, <2>1, <2>2 DEF Panel!Updates, Panel!Request
    <3> QED BY <2>1, <3>1 DEF Panel!Reconcile, Pending
  <2>3. CASE Panel!ChangedIn(Rows[i]) = {}
    <3>1. Panel!Original(Rows[i]) = x /\ Rows[i] \in PanelRow
      <4>1. sent.fields.rows \in Seq(PanelRow)
        BY DEF PanelTypeOK, FormType
      <4> QED BY <2>1, <4>1, OriginalIsTheContact
    <3>2. Rows[i].name = x.name /\ Rows[i].title = x.title
      BY <2>3, <3>1, ChangesAreKnown
    <3> QED BY <2>1, <3>2 DEF Panel!Shows
  <2> QED BY <2>2, <2>3
<1>5. Made(company, sent.list.made) = {}
  BY <1>1, <1>2 DEF Made
<1>6. {i \in NewKeys(sent.fields) : \A e \in Panel!Reconcile : e.op = "add" /\ e.key = i => ~Pending(e)} = {}
  <2> SUFFICES ASSUME NEW i \in NewKeys(sent.fields)
               PROVE  \E e \in Panel!Reconcile : e.op = "add" /\ e.key = i /\ Pending(e)
    OBVIOUS
  <2>1. Ask("add", i, Rows[i], {}) \in Panel!Additions
    BY <1>1 DEF Panel!Additions, Panel!Request, NewKeys
  <2> QED BY <2>1 DEF Panel!Reconcile, Pending
<1>7. Matched(Made(company, sent.list.made), sent.fields.rows,
              {i \in NewKeys(sent.fields) : \A e \in Panel!Reconcile : e.op = "add" /\ e.key = i => ~Pending(e)})
  BY <1>5, <1>6, NoneMatched
<1>8. sent.list.made <= company.made
  BY <1>1
<1> QED BY <1>3, <1>4, <1>7, <1>8 DEF ReachedWith

LEMMA ReachedStays ==
  ASSUME NEW R, ReachedWith(R), requests' = R, UNCHANGED <<company, sent>>
  PROVE  Reached'
  BY DEF Reached, ReachedWith, Made, NewKeys, Ids, Pending

\* What an answer leaves as it is.
AnswerStep ==
  /\ UNCHANGED <<mode, company, list, sent, clicks>>
  /\ fetch' = [step |-> "asked", read |-> Panel!NoCompany]

LEMMA AnswerTypes ==
  ASSUME PanelTypeOK, AnswerStep, requests' \subseteq PanelAsk, fields' \in FormType, stage' \in {"idle", "create", "edit", "contacts"}
  PROVE  PanelTypeOK'
<1>1. Panel!NoCompany \in CompanyType
  BY DEF Panel!NoCompany, CompanyType
<1> HIDE DEF Panel!NoCompany
<1>2. requests' \subseteq PanelAsk'
  BY DEF PanelAsk, AnswerStep
<1>3. fetch' \in [step : {"none", "asked", "read"}, read : CompanyType]
  BY <1>1 DEF AnswerStep
<1>4. WellMade(company)'
  BY DEF PanelTypeOK, AnswerStep, WellMade
<1> QED BY <1>2, <1>3, <1>4 DEF PanelTypeOK, AnswerStep

LEMMA SucceedsKeeps == ASSUME PanelInv, Panel!Succeeds PROVE PanelInv'
<1>1. PICK c \in requests :
        /\ c.state = "ok" /\ fetch' = [Panel!NotAsked EXCEPT !.step = "asked"]
        /\ LET rest == IF c.op = "edit" THEN Panel!Reconcile ELSE {} IN
           /\ requests' = (requests \ {c}) \cup rest
           /\ IF stage # "idle" /\ c.save = clicks /\ {d \in requests \ {c} : d.save = clicks} \cup rest = {}
              THEN Panel!Finish
              ELSE stage' = (IF c.op = "edit" THEN "contacts" ELSE stage) /\ UNCHANGED <<shown, fields, told>>
        /\ UNCHANGED <<mode, company, list, sent, clicks>>
  BY DEF Panel!Succeeds, Panel!bounds
<1>2. /\ PanelTypeOK /\ WellMade(company) /\ c \in PanelAsk /\ c.save = clicks /\ told = Panel!NoFields
      /\ fields \in FormType /\ sent.fields \in FormType
  BY <1>1 DEF PanelInv, PanelTypeOK, PanelAsk
<1>3. AnswerStep
  <2>1. fetch' = [step |-> "asked", read |-> Panel!NoCompany]
    BY <1>1 DEF Panel!NotAsked
  <2> QED BY <1>1, <2>1 DEF AnswerStep
<1>4. ListInStep'
  BY <1>3 DEF AnswerStep, ListInStep
<1>5. {d \in requests \ {c} : d.save = clicks} = requests \ {c}
  BY <1>2 DEF PanelTypeOK, PanelAsk
<1>6. CASE mode = "create"
  <2>1. /\ Creating /\ requests = {c} /\ c.op = "create" /\ stage = "create"
        /\ Ids(sent.fields) = {}
    BY <1>1, <1>6 DEF PanelInv, Creating
  <2>2. requests' = {} /\ Panel!Finish
    BY <1>1, <1>2, <1>5, <2>1
  <2>3. fields' = Panel!FieldsOf(company) /\ stage' = "idle" /\ told' = sent.fields
    BY <1>6, <2>2 DEF Panel!Finish
  <2>4. fields' \in FormType /\ Ids(fields') = {}
    BY <1>2, <1>6, <2>3, FormOfCompany
  <2>5. Matches(sent.fields, company)
    <3>1. /\ company.site = sent.fields.site
          /\ Matched(company.contacts, sent.fields.rows, NewKeys(sent.fields) \ Panel!ToCreate(c))
          /\ Panel!ToCreate(c) = {}
      BY <1>1, <2>1 DEF Creating
    <3>2. NewKeys(sent.fields) \ Panel!ToCreate(c) = NewKeys(sent.fields)
      BY <3>1
    <3>3. {x \in company.contacts : x.id \notin Ids(sent.fields)} = company.contacts
      BY <2>1
    <3>4. Matched({x \in company.contacts : x.id \notin Ids(sent.fields)}, sent.fields.rows, NewKeys(sent.fields))
      BY <3>1, <3>2, <3>3
    <3>5. \A i \in DOMAIN sent.fields.rows : sent.fields.rows[i].id = 0
      BY <2>1 DEF Ids
    <3> QED BY <3>1, <3>4, <3>5 DEF Matches
  <2>6. PanelTypeOK'
    BY <1>2, <1>3, <2>2, <2>3, <2>4, AnswerTypes
  <2>7. Creating'
    <3>1. sent' = sent
      BY <1>1
    <3> QED BY <2>1, <2>2, <2>4, <3>1 DEF Creating
  <2>8. told' \in FormType /\ Matches(told', company')
    BY <1>1, <1>2, <2>3, <2>5
  <2> QED BY <1>1, <1>6, <2>2, <2>3, <2>6, <2>7, <2>8 DEF PanelInv
<1>7. CASE mode = "edit"
  <2>1. /\ Editing /\ MadeFrom(c) /\ WellMade(sent.list) /\ Apart(sent.fields)
        /\ Ids(sent.fields) \subseteq ContactIds(sent.list) /\ Apart(fields) /\ Ids(fields) \subseteq ContactIds(company)
    BY <1>1, <1>7 DEF PanelInv, Editing
  <2>2. fields' = fields /\ stage' \in {"idle", "contacts"}
    BY <1>1, <1>2, <1>5, <1>7, <2>1 DEF Panel!Finish, Editing, MadeFrom
  \* What is asked for next, and how far the company has come with it.
  <2> DEFINE R == requests'
  <2>3. /\ R \subseteq PanelAsk
        /\ \A e \in R : e.op # "create" /\ e.op # "edit" /\ e.state # "running" /\ MadeFrom(e)'
        /\ \A e, g \in R : e.op = g.op /\ e.key = g.key /\ e.row.id = g.row.id => e = g
        /\ (stage # "idle" => ReachedWith(R))
    <3>1. CASE c.op = "edit"
      <4>1. /\ requests = {c} /\ stage = "edit" /\ Ids(fields) \subseteq Ids(sent.fields)
            /\ company.contacts = sent.list.contacts /\ company.made = sent.list.made
            /\ sent.fields.site # Empty => company.site = sent.fields.site
        BY <1>1, <2>1, <3>1 DEF MadeFrom
      <4>2. R = Panel!Reconcile
        BY <1>1, <3>1, <4>1
      <4>3. ReachedWith(Panel!Reconcile)
        BY <1>2, <2>1, <4>1, AsksForAll
      <4>4. \A e \in R :
               /\ e \in PanelAsk /\ e.state = "sent" /\ e.op \in {"delete", "update", "add"}
               /\ e.op = "delete" => e.key = 0 /\ e.row \in sent.list.contacts /\ e.row.id \notin Ids(sent.fields)
               /\ e.op = "update" => /\ e.key \in DOMAIN sent.fields.rows /\ e.row = sent.fields.rows[e.key] /\ e.row.id # 0
                                     /\ e.changed = Panel!ChangedIn(e.row)
               /\ e.op = "add" => e.key \in NewKeys(sent.fields) /\ e.row = sent.fields.rows[e.key] /\ e.changed = {}
               /\ e.op = "delete" => e.changed = {}
               /\ e = [op |-> e.op, key |-> e.key, row |-> e.row, changed |-> e.changed, save |-> clicks,
                       state |-> "sent", done |-> 0]
        BY <1>2, <2>1, <4>2, Asks
      <4>5. ASSUME NEW e \in R PROVE MadeFrom(e)'
        <5>1. sent' = sent /\ fields' = fields
          BY <1>1, <2>2
        <5>2. Panel!ChangedIn(e.row)' = Panel!ChangedIn(e.row)
          BY <5>1 DEF Panel!ChangedIn, Panel!Original
        <5>3. CASE e.op = "delete"
          BY <4>1, <4>4, <5>1, <5>3 DEF MadeFrom
        <5>4. CASE e.op = "update"
          BY <4>4, <5>1, <5>2, <5>4 DEF MadeFrom
        <5>5. CASE e.op = "add"
          BY <4>4, <5>1, <5>5 DEF MadeFrom
        <5> QED BY <4>4, <5>3, <5>4, <5>5
      <4>6. ASSUME NEW e \in R, NEW g \in R, e.op = g.op, e.key = g.key, e.row.id = g.row.id PROVE e = g
        <5>1. e.row = g.row /\ e.changed = g.changed
          <6>1. CASE e.op = "delete"
            BY <2>1, <4>4, <4>6, <6>1 DEF WellMade
          <6>2. CASE e.op = "update"
            <7>1. e.row = sent.fields.rows[e.key] /\ e.changed = Panel!ChangedIn(e.row)
              BY <4>4, <6>2
            <7>2. g.row = sent.fields.rows[g.key] /\ g.changed = Panel!ChangedIn(g.row)
              BY <4>4, <4>6, <6>2
            <7>3. e.row = g.row
              BY <4>6, <7>1, <7>2
            <7> QED BY <7>1, <7>2, <7>3
          <6>3. CASE e.op = "add"
            BY <4>4, <4>6, <6>3
          <6> QED BY <4>4, <6>1, <6>2, <6>3
        <5> QED BY <4>4, <4>6, <5>1
      <4> QED BY <4>2, <4>3, <4>4, <4>5, <4>6
    <3>2. CASE c.op # "edit"
      <4>1. R = requests \ {c} /\ stage # "edit"
        BY <1>1, <2>1, <3>2 DEF Editing
      <4>2. stage # "idle" => Reached
        BY <2>1, <4>1 DEF Editing
      <4>3. \A e \in R : e.op # "edit"
        BY <1>1, <2>1, <4>1 DEF Editing, MadeFrom
      <4>4. ASSUME NEW e \in R PROVE MadeFrom(e)'
        <5>1. sent' = sent /\ fields' = fields /\ e.op # "edit"
          BY <1>1, <2>2, <4>3
        <5>2. Panel!ChangedIn(e.row)' = Panel!ChangedIn(e.row)
          BY <5>1 DEF Panel!ChangedIn, Panel!Original
        <5>3. MadeFrom(e)
          BY <2>1, <4>1 DEF Editing
        <5> QED BY <5>1, <5>2, <5>3 DEF MadeFrom
      <4>5. stage # "idle" => ReachedWith(R)
        BY <1>1, <4>1, <4>2, AnswerReaches
      <4> QED BY <1>2, <2>1, <4>1, <4>3, <4>4, <4>5 DEF Editing, PanelTypeOK
    <3> QED BY <3>1, <3>2
  <2>4. PanelTypeOK'
    BY <1>2, <1>3, <2>2, <2>3, AnswerTypes
  <2>5. stage' = "contacts" => Reached'
    <3>1. stage' = "contacts" => stage # "idle"
      BY <1>1, <2>1 DEF MadeFrom, Panel!Finish
    <3> QED BY <1>1, <2>3, <3>1, ReachedStays
  <2>6. Editing'
    <3>1. WellMade(sent.list)' /\ Apart(sent.fields)' /\ (Ids(sent.fields) \subseteq ContactIds(sent.list))'
      BY <1>1, <2>1 DEF WellMade, Apart, Ids, ContactIds
    <3>2. Apart(fields)' /\ (Ids(fields) \subseteq ContactIds(company))'
      BY <1>1, <2>1, <2>2 DEF Apart, Ids, ContactIds
    <3> QED BY <1>4, <2>2, <2>3, <2>5, <3>1, <3>2 DEF Editing
  <2>7. (told # Panel!NoFields => stage = "idle" /\ requests = {} /\ told \in FormType /\ Matches(told, company))'
    <3>1. CASE Panel!Finish /\ stage # "idle" /\ R = {}
      <4>1. ReachedWith({})
        BY <2>3, <3>1
      <4>2. Matches(sent.fields, company)
        BY <1>2, <2>1, <4>1, ReachedMatches
      <4>3. told' = sent.fields /\ stage' = "idle"
        BY <3>1 DEF Panel!Finish
      <4> QED BY <1>1, <1>2, <3>1, <4>2, <4>3
    <3>2. CASE told' = told
      BY <1>2, <3>2 DEF Panel!NoFields
    <3> QED BY <1>1, <1>5, <3>1, <3>2
  <2> QED BY <1>1, <1>7, <2>4, <2>6, <2>7 DEF PanelInv
<1> QED BY <1>2, <1>6, <1>7 DEF PanelTypeOK

-----------------------------------------------------------------------------
(* The panel                                                                 *)

LEMMA PanelStarts == ASSUME Panel!Init PROVE PanelInv
<1>1. /\ mode \in {"edit", "create"} /\ list = company /\ stage = "idle" /\ requests = {} /\ clicks = 0
      /\ fetch = [step |-> "none", read |-> Panel!NoCompany] /\ told = Panel!NoFields
      /\ fields = Panel!FieldsOf(company)
      /\ sent = [fields |-> Panel!NoFields, list |-> Panel!NoCompany]
  BY DEF Panel!Init, Panel!NotAsked, Panel!Nothing
<1>2. Panel!NoCompany \in CompanyType /\ Panel!NoCompany.contacts = {}
  BY DEF Panel!NoCompany, CompanyType
<1>3. Panel!NoFields \in FormType /\ Panel!NoFields.rows = <<>>
  BY DEF Panel!NoFields, FormType
<1>4. WellMade(company)
  <2>1. CASE mode = "create"
    <3>1. company = Panel!NoCompany
      BY <2>1 DEF Panel!Init
    <3> HIDE DEF Panel!NoCompany
    <3> QED BY <1>2, <3>1, FS_EmptySet DEF WellMade
  <2>2. CASE mode = "edit"
    <3>1. PICK n \in Names, t \in Titles \cup {Empty} :
            company = [site |-> Empty, contacts |-> {[id |-> 1, name |-> n, title |-> t]}, made |-> 1]
      BY <2>2 DEF Panel!Init
    <3>2. PICK x : x = [id |-> 1, name |-> n, title |-> t]
      OBVIOUS
    <3>3. x \in PanelRow /\ x.id = 1
      BY <3>2 DEF PanelRow
    <3>4. company \in CompanyType /\ company.contacts = {x} /\ company.made = 1
      BY <3>1, <3>2, <3>3 DEF CompanyType
    <3>5. IsFiniteSet({x})
      BY FS_Singleton
    <3> QED BY <3>3, <3>4, <3>5 DEF WellMade
  <2> QED BY <1>1, <2>1, <2>2
<1>5. /\ fields \in FormType /\ Apart(fields) /\ Ids(fields) \subseteq ContactIds(company)
      /\ mode = "create" => Ids(fields) = {}
  BY <1>1, <1>4, FormOfCompany
<1>6. PanelTypeOK
  <2> HIDE DEF Panel!NoCompany, Panel!NoFields
  <2>1. sent \in [fields : FormType, list : CompanyType] /\ fetch \in [step : {"none", "asked", "read"}, read : CompanyType]
    BY <1>1, <1>2, <1>3
  <2>2. list \in CompanyType
    BY <1>1, <1>4 DEF WellMade
  <2> QED BY <1>1, <1>4, <1>5, <2>1, <2>2 DEF PanelTypeOK
<1>7. Ids(sent.fields) = {}
  BY <1>1, <1>3 DEF Ids
<1>8. mode = "create" => Creating
  BY <1>1, <1>5, <1>7 DEF Creating
<1>9. mode = "edit" => Editing
  BY <1>1, <1>5 DEF Editing, ListInStep, NoNews
<1> QED BY <1>1, <1>6, <1>8, <1>9 DEF PanelInv

LEMMA PanelKeeps ==
  ASSUME PanelInv, Panel!Next \/ UNCHANGED paneling
  PROVE  PanelInv'
<1>1. CASE Panel!Open
  BY <1>1, StillForm DEF Panel!Open, Panel!bounds
<1>2. CASE UNCHANGED paneling
  BY <1>2, StillForm DEF paneling
<1> QED
  BY <1>1, <1>2, setFieldKeeps, setContactDraftFieldKeeps, addContactDraftKeeps, removeContactDraftKeeps, handleCloseKeeps,
     handleSubmitKeeps, PanelServeKeeps, CreateCompanyKeeps, CreateContactKeeps, LoseKeeps, SucceedsKeeps, FailsKeeps,
     ReadListKeeps, ShowListKeeps DEF Panel!Next

LEMMA MatchedIsStored == ASSUME PanelInv PROVE Panel!SavedIsStored
<1> SUFFICES ASSUME told # Panel!NoFields PROVE Panel!SavedIsStored
  BY DEF Panel!SavedIsStored
<1>1. told \in FormType /\ Matches(told, company) /\ WellMade(company)
  BY DEF PanelInv, PanelTypeOK
<1>2. Panel!RowIds = Ids(told) /\ Panel!NewRows = NewKeys(told)
  BY DEF Panel!RowIds, Ids, Panel!NewRows, NewKeys
<1> DEFINE S == {x \in company.contacts : x.id \notin Ids(told)}
<1>3. Panel!OtherContacts = S
  BY <1>2 DEF Panel!OtherContacts
<1>4. IsFiniteSet(S)
  BY <1>1, FS_Subset DEF WellMade
<1>5. Matched(S, told.rows, NewKeys(told))
  BY <1>1 DEF Matches
<1> HIDE DEF S
<1>6. /\ Cardinality(NewKeys(told)) = Cardinality(S)
      /\ \A c \in S : Cardinality({i \in NewKeys(told) : Panel!Alike(told.rows[i], c)}) = Cardinality({d \in S : Panel!Alike(d, c)})
  BY <1>4, <1>5, MatchedAreAsMany
<1>7. Panel!Cardinality(Panel!NewRows) = Panel!Cardinality(Panel!OtherContacts)
  BY <1>2, <1>3, <1>6, SameCount
<1>8. \A c \in Panel!OtherContacts :
        Panel!Cardinality({i \in Panel!NewRows : Panel!Alike(told.rows[i], c)})
        = Panel!Cardinality({d \in Panel!OtherContacts : Panel!Alike(d, c)})
  BY <1>2, <1>3, <1>6, SameCount
<1> QED BY <1>1, <1>7, <1>8 DEF Panel!SavedIsStored, Matches

\* What the panel of a company holds whatever order the answers come in.
THEOREM PanelHolds == OfficeSpec => []PanelInv
<1>1. OfficeInit => PanelInv
  BY PanelStarts DEF OfficeInit
<1>2. PanelInv /\ [OfficeNext]_<<scene, vars, asking, paneling>> => PanelInv'
  <2> SUFFICES ASSUME PanelInv, [OfficeNext]_<<scene, vars, asking, paneling>> PROVE PanelInv'
    OBVIOUS
  <2>1. Panel!Next \/ UNCHANGED paneling
    BY DEF OfficeNext
  <2> QED BY <2>1, PanelKeeps
<1> QED BY <1>1, <1>2, PTL DEF OfficeSpec

-----------------------------------------------------------------------------
(* What a form was told is stored, is stored.                                *)

\* An estimate is whole once its form heard of it, the draft that was saved last is the one draft
\* there is, and the contacts of a company are the rows of the panel that was saved.
THEOREM RequestsKept == OfficeSpec => []RequestsAreKept
<1>1. AskInv /\ PanelInv => RequestsAreKept
  BY AskedIsKept, MatchedIsStored DEF RequestsAreKept
<1> QED BY <1>1, AskingHolds, PanelHolds, PTL
===============================================================================
