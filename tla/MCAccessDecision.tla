-------------------------- MODULE MCAccessDecision ---------------------------
(***************************************************************************)
(* Readings over the whole range of both models, and what the slides say   *)
(* of the demo scenarios.                                                  *)
(***************************************************************************)
EXTENDS AccessDecision

(* sklearn's score_samples is the negated anomaly score -2^(-E/c(n)): with *)
(* 256 samples a path is at most 8 + c(249) long, so it is below -0.29.    *)
MCAnomalies == {-1000, -900, -800, -700, -600, -500, -450, -400, -350, -300, -291}
MCThreats == {0, 100, 200, 300, 320, 333, 334, 335, 400, 500, 600, 650, 666, 667, 668, 670,
              700, 800, 900, 1000}

(* The guarantees do not lean on that figure: any negative score, and 0.   *)
MCAllAnomalies == MCAnomalies \cup {-200, -100, -10, 0}

(* contamination 0.05 puts the offset among these scores.                  *)
MCOffset == -550

(* slide.md:124, "Trusted Employee ... ALLOW - Trust >= 80": at least the  *)
(* most normal and least threatening request there is, from a trusted      *)
(* device, is allowed.                                                     *)
TrustedEmployeeAllowed ==
  Scored /\ trusted /\ reading = [anomaly |-> -291, threat |-> 0] => result.action = "ALLOW"
=============================================================================
