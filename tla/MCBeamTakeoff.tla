---------------------------- MODULE MCBeamTakeoff -----------------------------
(***************************************************************************)
(* Instances of BeamTakeoff.  The numbers an estimator types, 0 and 5, are *)
(* no version of the measurement and no sum of versions, so a section that *)
(* holds one of them was touched (0 is also the empty section).            *)
(***************************************************************************)
EXTENDS BeamTakeoff

CONSTANTS c1, c2, p1, p2

MCOneClick == {c1}
MCTwoClicks == {c1, c2}
MCOneTask == {p1}
MCTwoTasks == {p1, p2}

\* 10, 11: the first delivery and one edit of it.
MCValue == <<10, 11, 12>>
MCEntered == {0, 5}

MCAnswers == {"ok", "refused"}
MCLosesAnswers == {"ok", "refused", "lost"}
=============================================================================
