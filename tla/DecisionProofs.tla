--------------------------- MODULE DecisionProofs ----------------------------
(***************************************************************************)
(* What one access decision promises, for every set of readings within the *)
(* range of the two models and every offset.                               *)
(***************************************************************************)
EXTENDS AccessDecision, TLAPS

(* What is proved of the rules, about the query of the decision.           *)
Facts == INSTANCE PolicyProofs WITH input <- Query, Scores <- 0..1000

Actions == {"none", "ALLOW", "CHALLENGE", "DENY"}

(* The result is what the latest reading makes of it, and the decision is  *)
(* the one on that result; neither is left over from an earlier run.       *)
DecisionInv ==
  /\ TypeOK
  /\ Scored =>
       /\ reading \in Readings
       /\ result.score = compute_trust_score(reading.anomaly, reading.threat)
       /\ result.action = determine_action(result.score)
  /\ ~Scored => result.score = NoScore /\ result.action = "none"
  /\ pc = "ml" => result.kind = "none" /\ opa = "none"
  /\ pc = "opa" => result.kind \in {"scored", "detail"} /\ opa = "none"
  /\ opa # "none" =>
       /\ result.kind \in {"scored", "detail"}
       /\ opa = Rules!TrustDecision(Query)
-----------------------------------------------------------------------------
(* The score in bounds that matter to both engines.                        *)
AnomalyRange == -1000..0
ThreatRange == 0..1000

LEMMA ScoreBounds ==
  ASSUME NEW a \in AnomalyRange, NEW t \in ThreatRange
  PROVE  /\ compute_trust_score(a, t) \in 0..800
         /\ t > 667 => compute_trust_score(a, t) < 400
         /\ t =< 334 => compute_trust_score(a, t) >= 400
<1> DEFINE sum == 2 * (a + 1000) + 6 * (1000 - t)
<1> USE DEF AnomalyRange, ThreatRange
<1>1. Clamp(0, 2000, a + 1000) = a + 1000
  BY DEF Clamp
<1>2. sum \in 0..8000 /\ (t > 667 => sum =< 3992) /\ (t =< 334 => sum >= 3996)
  BY SMTT(40)
<1>3. compute_trust_score(a, t) = Clamp(0, 1000, RoundTenth(sum))
  BY <1>1 DEF compute_trust_score
<1> HIDE DEF sum
<1>4. /\ RoundTenth(sum) \in 0..800
      /\ sum =< 3992 => RoundTenth(sum) =< 399
      /\ sum >= 3996 => RoundTenth(sum) >= 400
  BY <1>2, SMTT(40) DEF RoundTenth
<1>5. Clamp(0, 1000, RoundTenth(sum)) = RoundTenth(sum)
  BY <1>4 DEF Clamp
<1>6. QED
  BY <1>2, <1>3, <1>4, <1>5

LEMMA ReadingType ==
  ASSUME NEW r \in Readings
  PROVE  r.anomaly \in AnomalyRange /\ r.threat \in ThreatRange /\ r.anomaly \in Int
<1>1. Anomalies \subseteq AnomalyRange /\ Threats \subseteq ThreatRange
  BY DecisionAssumption, ZenonT(40) DEF AnomalyRange, ThreatRange
<1>2. r.anomaly \in Anomalies /\ r.threat \in Threats
  BY DEF Readings
<1>3. AnomalyRange \subseteq Int
  BY DEF AnomalyRange
<1>4. QED
  BY <1>1, <1>2, <1>3, Zenon

(* What the score route answers.                                           *)
Answer(r) ==
  [kind |-> "scored", score |-> compute_trust_score(r.anomaly, r.threat),
   action |-> determine_action(compute_trust_score(r.anomaly, r.threat)),
   anomaly |-> r.anomaly < Offset]

LEMMA AnswerType ==
  ASSUME NEW r \in Readings
  PROVE  Answer(r) \in Results
<1>1. compute_trust_score(r.anomaly, r.threat) \in 0..1000
  <2>1. PICK a \in AnomalyRange, t \in ThreatRange : a = r.anomaly /\ t = r.threat
    BY ReadingType, Zenon
  <2>2. compute_trust_score(a, t) \in 0..800
    BY <2>1, ScoreBounds, ZenonT(40)
  <2>3. compute_trust_score(r.anomaly, r.threat) \in 0..800
    BY <2>1, <2>2, Zenon
  <2>4. QED
    BY <2>3
<1>2. (r.anomaly < Offset) \in BOOLEAN
  BY ReadingType, DecisionAssumption
<1>3. \A s : determine_action(s) \in Actions
  BY DEF determine_action, Actions
<1>4. QED
  BY <1>1, <1>2, <1>3 DEF Answer, Results, Actions

LEMMA UnscoredType ==
  ASSUME NEW k \in {"none", "detail", "error"}
  PROVE  /\ Unscored(k) \in Results /\ Unscored(k).kind = k
         /\ Unscored(k).score = NoScore /\ Unscored(k).action = "none"
BY DEF Unscored, Results

(* The policy engine's answer is an action, or a conflict.                 *)
LEMMA DecisionType ==
  LET d == Rules!TrustDecision(Query) IN d \in Actions \cup {"conflict"}
<1> DEFINE fired == Rules!TrustFired(Query)
<1>1. fired \subseteq DOMAIN Rules!TrustAction
  BY DEF Rules!TrustFired
<1>2. \A r \in DOMAIN Rules!TrustAction : Rules!TrustAction[r] \in Actions
  BY DEF Rules!TrustAction, Actions
<1>3. CASE fired = {}
  BY <1>3 DEF Rules!TrustDecision, Rules!Evaluate, Actions
<1>4. CASE fired # {}
  <2>1. (CHOOSE r \in fired : TRUE) \in fired
    BY <1>4
  <2>2. Rules!TrustAction[CHOOSE r \in fired : TRUE] \in Actions
    BY <2>1, <1>1, <1>2
  <2>3. QED
    BY <1>4, <2>2 DEF Rules!TrustDecision, Rules!Evaluate
<1>5. QED
  BY <1>3, <1>4

(* The decision depends on nothing but the query.                          *)
LEMMA SameQuery ==
  ASSUME Query' = Query
  PROVE  (Rules!TrustDecision(Query))' = Rules!TrustDecision(Query)
BY DEF Rules!TrustDecision, Rules!Evaluate, Rules!TrustFired, Rules!TrustApplies,
       Rules!AtLeast, Rules!Below, Rules!Malicious, Rules!TrustAction
-----------------------------------------------------------------------------
LEMMA InvInit == Init => DecisionInv
<1> SUFFICES ASSUME Init PROVE DecisionInv
  OBVIOUS
<1>1. /\ result \in Results /\ result.score = NoScore /\ result.action = "none"
      /\ result.kind = "none" /\ reading = NoReading
  BY UnscoredType DEF Init
<1>2. TypeOK
  BY <1>1 DEF Init, TypeOK
<1>3. QED
  BY <1>1, <1>2 DEF Init, DecisionInv, Scored

LEMMA InvStep == DecisionInv /\ [Next]_vars => DecisionInv'
<1> SUFFICES ASSUME DecisionInv, [Next]_vars PROVE DecisionInv'
  OBVIOUS
<1> USE DEF TypeOK, Scored
<1>1. ASSUME NEW d \in BOOLEAN, RunScore(d) PROVE DecisionInv'
  BY <1>1, UnscoredType DEF RunScore, DecisionInv
<1>2. CASE ScoreAnswered
  <2>1. PICK r \in Readings : reading' = r /\ result' = Answer(r)
    BY <1>2 DEF ScoreAnswered, Answer
  <2>2. /\ result'.kind = "scored" /\ result' \in Results
        /\ result'.score = compute_trust_score(reading'.anomaly, reading'.threat)
        /\ result'.action = determine_action(result'.score)
    BY <2>1, AnswerType DEF Answer
  <2>3. pc = "ml" /\ pc' = "opa" /\ opa' = opa /\ trusted' = trusted
    BY <1>2 DEF ScoreAnswered
  <2>4. QED
    BY <2>1, <2>2, <2>3 DEF DecisionInv
<1>3. CASE ScoreRefused
  BY <1>3, UnscoredType DEF ScoreRefused, DecisionInv
<1>4. CASE ScoreFails
  BY <1>4, UnscoredType DEF ScoreFails, DecisionInv
<1>5. CASE OpaAnswers
  <2> DEFINE d == Rules!TrustDecision(Query)
  <2>1. /\ pc = "opa" /\ pc' = "idle"
        /\ reading' = reading /\ result' = result /\ trusted' = trusted
        /\ opa' = IF d = "conflict" THEN "none" ELSE d
    BY <1>5 DEF OpaAnswers
  <2>2. (Rules!TrustDecision(Query))' = d
    BY <2>1, SameQuery DEF Query
  <2>3. opa' \in Actions
    BY <2>1, DecisionType DEF Actions
  <2>4. QED
    BY <2>1, <2>2, <2>3 DEF DecisionInv, Actions
<1>6. CASE OpaFails
  BY <1>6 DEF OpaFails, DecisionInv
<1>7. CASE UNCHANGED vars
  <2>1. (Rules!TrustDecision(Query))' = Rules!TrustDecision(Query)
    BY <1>7, SameQuery DEF vars, Query
  <2>2. QED
    BY <1>7, <2>1 DEF vars, DecisionInv
<1>8. QED
  BY <1>1, <1>2, <1>3, <1>4, <1>5, <1>6, <1>7 DEF Next

LEMMA Invariant == Spec => []DecisionInv
BY InvInit, InvStep, PTL DEF Spec

(* Whatever the models and the engines answer, each of the two answers on  *)
(* the page is an action or missing.                                       *)
THEOREM TypeCorrect == Spec => []TypeOK
<1>1. DecisionInv => TypeOK
  BY DEF DecisionInv
<1>2. QED
  BY <1>1, Invariant, PTL
-----------------------------------------------------------------------------
(* The facts about the rules, and the operators they are stated with.      *)
LEMMA FactsApply == Facts!PolicyAssumption
BY DecisionAssumption DEF Facts!PolicyAssumption

LEMMA SameRules ==
  /\ Rules!TrustDecision(Query) = Facts!TrustDecision(Query)
  /\ \A s : Facts!determine_action(s) = determine_action(s)
  /\ \A a : Facts!Rank(a) = Rules!Rank(a)
<1>1. Rules!TrustApplies(Query) = Facts!TrustApplies(Query)
  BY DEF Rules!TrustApplies, Rules!AtLeast, Rules!Below, Rules!Malicious,
         Rules!Trusted, Rules!Untrusted,
         Facts!TrustApplies, Facts!AtLeast, Facts!Below, Facts!Malicious,
         Facts!Trusted, Facts!Untrusted
<1>2. Rules!TrustAction = Facts!TrustAction
  BY DEF Rules!TrustAction, Facts!TrustAction
<1>3. Rules!TrustFired(Query) = Facts!TrustFired(Query)
  BY <1>1, <1>2 DEF Rules!TrustFired, Facts!TrustFired
<1>4. Rules!TrustDecision(Query) = Facts!TrustDecision(Query)
  BY <1>2, <1>3 DEF Rules!TrustDecision, Rules!Evaluate, Facts!TrustDecision, Facts!Evaluate
<1>5. \A s : Facts!determine_action(s) = determine_action(s)
  BY DEF Facts!determine_action, determine_action
<1>6. \A a : Facts!Rank(a) = Rules!Rank(a)
  BY DEF Facts!Rank, Rules!Rank
<1>7. QED
  BY <1>4, <1>5, <1>6

(* Neither the address nor the account speaks against a query of the page. *)
LEMMA QueryType ==
  ASSUME DecisionInv
  PROVE  /\ Query \in Facts!Inputs
         /\ ~Facts!Malicious(Query) /\ ~Query.account_locked
         /\ Query.trust_score = result.score
         /\ Facts!Trusted(Query) <=> trusted
<1>1. trusted \in BOOLEAN /\ result.score \in 0..1000 \cup {NoScore}
  BY DEF DecisionInv, TypeOK, Results
<1>2. QED
  BY <1>1 DEF Query, Facts!Inputs, Facts!Malicious, Facts!Trusted

(* What the policy engine makes of a score the ML engine can give.         *)
LEMMA ScoreFacts ==
  ASSUME DecisionInv, Scored
  PROVE  /\ result.score \in Int /\ result.score # NoScore
         /\ reading.threat > 667 => result.score < 400
         /\ reading.threat =< 334 => result.score >= 400
         /\ Rules!TrustDecision(Query) # "conflict"
<1>1. /\ result.score \in 0..800
      /\ reading.threat > 667 => result.score < 400
      /\ reading.threat =< 334 => result.score >= 400
  <2> DEFINE a == reading.anomaly
             t == reading.threat
  <2>1. reading \in Readings /\ result.score = compute_trust_score(a, t)
    BY DEF DecisionInv
  <2>2. a \in AnomalyRange /\ t \in ThreatRange
    BY <2>1, ReadingType
  <2> HIDE DEF a, t
  <2>3. /\ compute_trust_score(a, t) \in 0..800
        /\ t > 667 => compute_trust_score(a, t) < 400
        /\ t =< 334 => compute_trust_score(a, t) >= 400
    BY <2>2, ScoreBounds, ZenonT(60)
  <2>4. QED
    BY <2>1, <2>3 DEF t
<1>2. result.score \in Int /\ result.score # NoScore /\ ~(result.score >= 900)
  <2>1. \A n \in 0..800 : n \in Int /\ n # NoScore /\ ~(n >= 900)
    BY DecisionAssumption
  <2>2. QED
    BY <1>1, <2>1
<1>3. ~Facts!AtLeast(Query, 900)
  BY <1>2, QueryType DEF Facts!AtLeast
<1>4. Rules!TrustDecision(Query) # "conflict"
  BY <1>3, QueryType, FactsApply, Facts!DecidedBelow90, SameRules
<1>5. QED
  BY <1>1, <1>2, <1>4
-----------------------------------------------------------------------------
(* Both engines deny a request the classifier holds a threat with more     *)
(* than 0.667, for all readings and offsets.                               *)
THEOREM ThreatsDenied == Spec => []LikelyThreatDenied
<1>1. DecisionInv => LikelyThreatDenied
  <2> SUFFICES ASSUME DecisionInv, Scored, reading.threat > 667
               PROVE  result.action = "DENY" /\ opa \in {"none", "DENY"}
    BY DEF LikelyThreatDenied
  <2>1. result.score \in Int /\ result.score < 400
    BY ScoreFacts
  <2>2. result.action = "DENY"
    BY <2>1 DEF DecisionInv, determine_action
  <2>3. \A n \in {400, 500, 800, 900} : ~Facts!AtLeast(Query, n)
    BY <2>1, QueryType DEF Facts!AtLeast
  <2>4. Facts!TrustDecision(Query) \notin {"ALLOW", "CHALLENGE"}
    BY <2>3, QueryType, FactsApply, Facts!AllowNeeds, Facts!ChallengeNeeds
  <2>5. opa # "none" => opa = "DENY"
    BY <2>4, SameRules, ScoreFacts, FactsApply, Facts!Ranks DEF DecisionInv
  <2>6. QED
    BY <2>2, <2>5
<1>2. QED
  BY <1>1, Invariant, PTL

(* On a trusted device neither engine denies a request the classifier      *)
(* holds a threat with 0.334 or less.                                      *)
THEOREM OthersPass == Spec => []UnlikelyThreatPasses
<1>1. DecisionInv => UnlikelyThreatPasses
  <2> SUFFICES ASSUME DecisionInv, Scored, reading.threat =< 334, trusted
               PROVE  result.action # "DENY" /\ opa # "DENY"
    BY DEF UnlikelyThreatPasses
  <2>1. result.score \in Int /\ result.score >= 400 /\ result.score # NoScore
    BY ScoreFacts
  <2>2. result.action # "DENY"
    BY <2>1 DEF DecisionInv, determine_action
  <2>3. Facts!AtLeast(Query, 400)
    BY <2>1, QueryType DEF Facts!AtLeast
  <2>4. Facts!TrustDecision(Query) # "DENY"
    BY <2>3, QueryType, FactsApply, Facts!DeniedTrusted, ZenonT(40)
  <2>5. QED
    BY <2>2, <2>4, SameRules DEF DecisionInv
<1>2. QED
  BY <1>1, Invariant, PTL

(* The decision on the page is never laxer than the recommendation beside  *)
(* it, nothing unscored is let through, and every score gets a decision.   *)
THEOREM ShownIsStricter == Spec => []ShownNotLaxer
<1>1. DecisionInv => ShownNotLaxer
  <2> SUFFICES ASSUME DecisionInv PROVE ShownNotLaxer
    OBVIOUS
  <2>1. ASSUME Scored, opa # "none"
        PROVE  Rules!Rank(opa) =< Rules!Rank(result.action)
    <3>1. opa = Facts!TrustDecision(Query) /\ Facts!TrustDecision(Query) # "conflict"
      BY <2>1, SameRules, ScoreFacts DEF DecisionInv
    <3>2. result.action = Facts!determine_action(Query.trust_score)
      BY <2>1, SameRules, QueryType DEF DecisionInv
    <3>3. Query.trust_score # NoScore
      BY <2>1, ScoreFacts, QueryType
    <3>4. Facts!Rank(opa) =< Facts!Rank(result.action)
      BY <3>1, <3>2, <3>3, QueryType, FactsApply, Facts!Stricter
    <3>5. QED
      BY <3>4, SameRules
  <2>2. ASSUME result.kind = "detail", opa # "none" PROVE opa = "DENY"
    <3>1. Query.trust_score = NoScore
      BY <2>2, QueryType DEF DecisionInv, Scored
    <3>2. Facts!TrustDecision(Query) = "DENY"
      BY <3>1, QueryType, FactsApply, Facts!UnscoredIsDenied
    <3>3. QED
      BY <2>2, <3>2, SameRules DEF DecisionInv
  <2>3. opa # "none" => Scored \/ result.kind = "detail"
    BY DEF DecisionInv, Scored
  <2>4. Scored => Rules!TrustDecision(Query) # "conflict"
    BY ScoreFacts
  <2>5. QED
    BY <2>1, <2>2, <2>3, <2>4 DEF ShownNotLaxer
<1>2. QED
  BY <1>1, Invariant, PTL
-----------------------------------------------------------------------------
(* How near to the top of the scale a request has to be for an ALLOW.      *)
LEMMA AllowBounds ==
  ASSUME NEW a \in AnomalyRange, NEW t \in ThreatRange,
         compute_trust_score(a, t) >= 800
  PROVE  a >= -2 /\ t = 0
<1> DEFINE sum == 2 * (a + 1000) + 6 * (1000 - t)
<1> USE DEF AnomalyRange, ThreatRange
<1>1. compute_trust_score(a, t) = Clamp(0, 1000, RoundTenth(sum))
  <2>1. Clamp(0, 2000, a + 1000) = a + 1000
    BY DEF Clamp
  <2>2. QED
    BY <2>1 DEF compute_trust_score
<1>2. sum \in 0..8000 /\ (sum >= 7995 => a >= -2 /\ t = 0)
  BY SMTT(40)
<1> HIDE DEF sum
<1>3. ASSUME sum < 7995 PROVE RoundTenth(sum) \in 0..799
  <2> DEFINE q == sum \div 10
             r == sum % 10
  <2>1. sum \in Int /\ 0 =< sum /\ sum =< 7994
    BY <1>2, <1>3
  <2>2. q \in Int /\ r \in 0..9 /\ sum = 10 * q + r
    BY <2>1
  <2>3. RoundTenth(sum) = IF r < 5 \/ (r = 5 /\ q % 2 = 0) THEN q ELSE q + 1
    BY DEF RoundTenth
  <2> HIDE DEF q, r
  <2>4. 0 =< q /\ q =< 799 /\ (q = 799 => r < 5)
    BY <2>1, <2>2
  <2>5. CASE q = 799
    BY <2>3, <2>4, <2>5
  <2>6. CASE q # 799
    BY <2>2, <2>3, <2>4, <2>6
  <2>7. QED
    BY <2>5, <2>6
<1>4. sum < 7995 => Clamp(0, 1000, RoundTenth(sum)) \in 0..799
  BY <1>3 DEF Clamp
<1>5. QED
  BY <1>1, <1>2, <1>4

(* With score_samples below -0.002 for every request, as the isolation     *)
(* forest's are (they stay under -0.29), neither engine allows any         *)
(* request, however trusted: the anomaly part alone keeps the score under  *)
(* 80 (with a threat probability of 0 as well).                    *)
THEOREM NoneIsAllowed ==
  ASSUME \A a \in Anomalies : a < -2
  PROVE  Spec => [](result.action # "ALLOW" /\ opa # "ALLOW")
<1>1. DecisionInv => result.action # "ALLOW" /\ opa # "ALLOW"
  <2> SUFFICES ASSUME DecisionInv PROVE result.action # "ALLOW" /\ opa # "ALLOW"
    OBVIOUS
  <2>1. CASE Scored
    <3> DEFINE a == reading.anomaly
               t == reading.threat
    <3>1. /\ a \in AnomalyRange /\ t \in ThreatRange /\ a < -2
          /\ result.score = compute_trust_score(a, t)
      BY <2>1, ReadingType DEF DecisionInv, Readings
    <3>2. result.score \in Int
      BY <2>1, ScoreFacts
    <3> HIDE DEF a, t
    <3>3. ~(result.score >= 800)
      BY <3>1, AllowBounds DEF AnomalyRange
    <3>4. result.action # "ALLOW"
      BY <2>1, <3>2, <3>3 DEF DecisionInv, determine_action
    <3>5. ~Facts!AtLeast(Query, 800) /\ ~Facts!AtLeast(Query, 900)
      BY <3>2, <3>3, QueryType DEF Facts!AtLeast
    <3>6. Facts!TrustDecision(Query) # "ALLOW"
      BY <3>5, QueryType, FactsApply, Facts!AllowNeeds
    <3>7. QED
      BY <3>4, <3>6, SameRules DEF DecisionInv
  <2>2. CASE ~Scored
    <3>1. Query.trust_score = NoScore
      BY <2>2, QueryType DEF DecisionInv
    <3>2. Facts!TrustDecision(Query) = "DENY"
      BY <3>1, QueryType, FactsApply, Facts!UnscoredIsDenied
    <3>3. opa # "ALLOW"
      BY <3>2, SameRules DEF DecisionInv
    <3>4. QED
      BY <2>2, <3>3 DEF DecisionInv
  <2>3. QED
    BY <2>1, <2>2
<1>2. QED
  BY <1>1, Invariant, PTL
=============================================================================
