--------------------------- MODULE AccessDecision ----------------------------
(***************************************************************************)
(* One access decision from end to end, as the dashboard page runs it      *)
(* (dashboard/src/app/dashboard/page.tsx): the ML engine scores the        *)
(* request, then the policy engine is asked about that score, and both     *)
(* results are shown.  The rules are those of Policy, the arithmetic that  *)
(* of TrustScore.                                                          *)
(*                                                                         *)
(* What the two models say of a request is a reading: any anomaly score    *)
(* and any threat probability (in thousandths) of the given sets.          *)
(***************************************************************************)
EXTENDS TrustScore

CONSTANTS Anomalies,   (* what score_samples returns: external, -1000..0      *)
          Threats,     (* what predict_proba returns: external, 0..1000       *)
          Offset,      (* external: score_samples below it is an anomaly      *)
          NoScore      (* a body without a trust_score                        *)

ASSUME DecisionAssumption ==
  /\ Anomalies \subseteq -1000..0 /\ Threats \subseteq 0..1000
  /\ Offset \in Int /\ NoScore \notin Int

VARIABLES pc,       (* where runScore stands                                  *)
          trusted,  (* device_trusted of the input runScore works on          *)
          reading,  (* ghost: what the models said of the latest request      *)
          result,   (* the result on the page: trust_score, action, anomaly   *)
          opa       (* the decision of the policy engine on the page          *)

vars == <<pc, trusted, reading, result, opa>>

Readings == [anomaly : Anomalies, threat : Threats]
NoReading == [anomaly |-> 0, threat |-> 0]
Results == [kind : {"none", "scored", "detail", "error"},
            score : 0..1000 \cup {NoScore},
            action : {"none", "ALLOW", "CHALLENGE", "DENY"},
            anomaly : BOOLEAN]
Unscored(k) == [kind |-> k, score |-> NoScore, action |-> "none", anomaly |-> FALSE]

TypeOK ==
  /\ pc \in {"idle", "ml", "opa"}
  /\ trusted \in BOOLEAN
  /\ reading \in Readings \cup {NoReading}
  /\ result \in Results
  /\ opa \in {"none", "ALLOW", "CHALLENGE", "DENY"}

(* Before the first run there is no input, and trusted is not looked at.   *)
Init ==
  /\ pc = "idle" /\ trusted \in BOOLEAN /\ reading = NoReading
  /\ result = Unscored("none") /\ opa = "none"

(* What the page asks of the policy engine.  A score the ML engine did not *)
(* give is left out of the query, and its anomaly flag counts as clean.    *)
Query == [trust_score |-> result.score, device_trusted |-> IF trusted THEN "true" ELSE "false",
          ip_reputation |-> IF result.anomaly THEN "suspicious" ELSE "clean",
          account_locked |-> FALSE, device_type |-> "other",
          anomaly_detected |-> FALSE, anomaly_type |-> "none", scoring |-> "normal"]

Rules == INSTANCE Policy WITH input <- Query, Scores <- 0..1000
-----------------------------------------------------------------------------
RunScore_KeepsOpa(d) ==
  /\ pc = "idle"
  /\ pc' = "ml" /\ trusted' = d
  /\ result' = Unscored("none")
  /\ UNCHANGED <<reading, opa>>

(* The button, which is disabled while a run is under way.                 *)
RunScore(d) ==
  /\ pc = "idle"
  /\ pc' = "ml" /\ trusted' = d
  /\ result' = Unscored("none") /\ opa' = "none"
  /\ UNCHANGED reading

(* The ML engine answers with a score.                                     *)
ScoreAnswered ==
  /\ pc = "ml"
  /\ \E r \in Readings :
       LET score == compute_trust_score(r.anomaly, r.threat)
       IN  /\ reading' = r
           /\ result' = [kind |-> "scored", score |-> score,
                         action |-> determine_action(score), anomaly |-> r.anomaly < Offset]
  /\ pc' = "opa"
  /\ UNCHANGED <<trusted, opa>>

(* The ML engine answers with an error (500, 422): the page does not look  *)
(* at the status, shows the body as a result and goes on with it.          *)
ScoreRefused ==
  /\ pc = "ml"
  /\ result' = Unscored("detail")
  /\ pc' = "opa"
  /\ UNCHANGED <<trusted, reading, opa>>

(* No answer, or none that is JSON.                                        *)
ScoreFails ==
  /\ pc = "ml"
  /\ result' = Unscored("error")
  /\ pc' = "idle"
  /\ UNCHANGED <<trusted, reading, opa>>

(* The policy engine answers through the dashboard's own route; a query    *)
(* whose rules conflict is an error without a result.                      *)
OpaAnswers ==
  /\ pc = "opa"
  /\ LET d == Rules!TrustDecision(Query)
     IN  opa' = IF d = "conflict" THEN "none" ELSE d
  /\ pc' = "idle"
  /\ UNCHANGED <<trusted, reading, result>>

(* Unreachable, or silent for 3 s: the route answers 503 with no result.   *)
OpaFails ==
  /\ pc = "opa"
  /\ opa' = "none"
  /\ pc' = "idle"
  /\ UNCHANGED <<trusted, reading, result>>

Next ==
  \/ \E d \in BOOLEAN : RunScore(d)
  \/ ScoreAnswered \/ ScoreRefused \/ ScoreFails
  \/ OpaAnswers \/ OpaFails

Spec == Init /\ [][Next]_vars
-----------------------------------------------------------------------------
Scored == result.kind = "scored"

(* Both engines deny a request the classifier holds a threat with more     *)
(* than 0.667, whatever the other model and the device say: a score_samples *)
(* of 0 or less adds 20 points at most.                                    *)
LikelyThreatDenied ==
  Scored /\ reading.threat > 667 =>
    result.action = "DENY" /\ opa \in {"none", "DENY"}

(* On a trusted device, neither engine denies a request the classifier     *)
(* holds a threat with 0.334 or less: the classifier's part is 40 by then. *)
UnlikelyThreatPasses ==
  Scored /\ reading.threat =< 334 /\ trusted =>
    "DENY" \notin {result.action, opa}

(* The decision on the page is never laxer than the recommendation it is   *)
(* shown with, and a request without a score is never let through.  A      *)
(* score always gets an answer: none the models can give makes two rules   *)
(* answer at once.                                                         *)
ShownNotLaxer ==
  /\ opa # "none" =>
       \/ Scored /\ Rules!Rank(opa) =< Rules!Rank(result.action)
       \/ result.kind = "detail" /\ opa = "DENY"
  /\ Scored => Rules!TrustDecision(Query) # "conflict"
=============================================================================
