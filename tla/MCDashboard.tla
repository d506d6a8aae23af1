----------------------------- MODULE MCDashboard ------------------------------
(***************************************************************************)
(* Readings whose scores are 80, 79.9, 40 and 39.9: both sides of the      *)
(* thresholds that the page and the ML engine each have.                   *)
(***************************************************************************)
EXTENDS Dashboard

MCAnomalies == {0, -5}
MCThreats == {0, 667}
MCOffset == -3
MCScenarios == {"trusted", "hacker"}
=============================================================================
