----------------------------- MODULE MCCrewRates -----------------------------
(* Two lines priced from the rate.  The first is stored at the formula's price  *)
(* at the lower rate or without a price.                                        *)
EXTENDS CrewRates

CONSTANTS mow, trim

MCLines == {mow, trim}
MCKindOf == [l \in MCLines |-> "hours"]
MCFirstRows == {[l \in MCLines |-> IF l = mow THEN p ELSE Absent] : p \in {8, Blank}}
MCFirstRates == {20, NoRate}
=============================================================================
