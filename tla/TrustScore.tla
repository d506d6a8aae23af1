----------------------------- MODULE TrustScore ------------------------------
(***************************************************************************)
(* How the ML engine turns the outputs of its two models into a score and  *)
(* a recommendation (ml-engine/app/services/feature_engineering.py).       *)
(*                                                                         *)
(* Scores are in tenths (0..1000), as the code rounds to one decimal; the  *)
(* anomaly score and the threat probability are in thousandths.            *)
(***************************************************************************)
EXTENDS Integers

Clamp(lo, hi, x) == IF x < lo THEN lo ELSE IF x > hi THEN hi ELSE x

(* x / 10 rounded to an integer, ties to the even one, as Python's round.  *)
RoundTenth(x) ==
  LET q == x \div 10
      r == x % 10
  IN  IF r < 5 \/ (r = 5 /\ q % 2 = 0) THEN q ELSE q + 1

compute_trust_score_Flipped(anomaly, threat) ==
  Clamp(0, 1000, RoundTenth(2 * Clamp(0, 2000, 1000 - anomaly) + 6 * (1000 - threat)))

compute_trust_score_Swapped(anomaly, threat) ==
  Clamp(0, 1000, RoundTenth(3 * Clamp(0, 2000, anomaly + 1000) + 4 * (1000 - threat)))

compute_trust_score_NotNormalized(anomaly, threat) ==
  RoundTenth(4 * anomaly + 6 * (1000 - threat))

(* 40% normality, (anomaly + 1) * 50 clamped to 0..100, and 60% absence of *)
(* threat, (1 - threat) * 100.                                             *)
compute_trust_score(anomaly, threat) ==
  Clamp(0, 1000, RoundTenth(2 * Clamp(0, 2000, anomaly + 1000) + 6 * (1000 - threat)))

determine_action(score) ==
  IF score >= 800 THEN "ALLOW" ELSE IF score >= 400 THEN "CHALLENGE" ELSE "DENY"
=============================================================================
