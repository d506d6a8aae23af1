------------------------------ MODULE MCPolicy -------------------------------
(***************************************************************************)
(* The rules at every threshold and the score just below it.               *)
(***************************************************************************)
EXTENDS Policy

MCScores ==
  LET thresholds == {250, 300, 400, 500, 700, 800, 900}
  IN  thresholds \cup {t - 1 : t \in thresholds} \cup {0, 1000}
=============================================================================
