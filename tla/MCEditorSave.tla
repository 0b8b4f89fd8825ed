----------------------------- MODULE MCEditorSave -----------------------------
(* A maintenance estimate of one section with one line, an install estimate of  *)
(* one section whose line has two labour items of one rate.                      *)
EXTENDS EditorSave, TLC

CONSTANTS s1, l1, c1, c2, m1, m2, m3, m4, n1, n2, root, unrated, optional, grown, plain

MCLoaded == [maintenance |-> s1 :> Node(root, plain) @@ l1 :> Node(s1, plain),
             install |-> s1 :> Node(root, plain) @@ l1 :> Node(s1, plain)
                           @@ c1 :> Node(l1, plain) @@ c2 :> Node(l1, plain)]
MCServerIds == {s1, l1, c1, c2, m1, m2, m3, m4}
MCLocalIds == {n1, n2}
MCVals == {plain, grown, unrated, optional}
\* One standard line with its labour item; a line sold for grown is stored as plain.
MCStandard == <<Node(root, plain), Node(1, plain)>>
MCCrewPrice == [v \in MCVals |-> IF v = grown THEN plain ELSE v]

=============================================================================
