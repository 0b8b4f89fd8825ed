---------------------------- MODULE MCAspireSync ------------------------------
(* A small instance of AspireSync. *)
EXTENDS AspireSync

CONSTANTS e1, e2, w1, w2

MCEstimate == {e1, e2}
MCWorker == {w1, w2}

\* Two tasks of one estimate and a process that dies, sync off at first or on; two
\* tasks of two estimates; a sweep beside one task at a time, with answers that arrive,
\* or that get lost.
MCEnvironment ==
    [answers : {{"id", "refused", "lost"}}, enabled : BOOLEAN, sweeping : {FALSE},
     tasks : {2}, estimates : {1}, crashes : {TRUE}]
    \cup [answers : {{"id"}}, enabled : {TRUE}, sweeping : {FALSE},
          tasks : {2}, estimates : {2}, crashes : {FALSE}]
    \cup [answers : {{"id", "refused"}}, enabled : {TRUE}, sweeping : {TRUE},
          tasks : {1}, estimates : {2}, crashes : {FALSE}]
    \cup [answers : {{"id", "lost"}}, enabled : {TRUE}, sweeping : {TRUE},
          tasks : {1}, estimates : {1}, crashes : {FALSE}]
=============================================================================
