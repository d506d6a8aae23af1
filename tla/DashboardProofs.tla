--------------------------- MODULE DashboardProofs ---------------------------
(***************************************************************************)
(* The dashboard page for every set of readings and scenarios, any length  *)
(* of the access log and any number of logins.                             *)
(***************************************************************************)
EXTENDS Dashboard, TLAPS

(* A score and the recommendation made of it, or neither.                  *)
Consistent(score, action) ==
  \/ score \in 0..1000 /\ action = determine_action(score)
  \/ score = NoScore /\ action = "none"

ShownInv ==
  /\ TypeOK
  /\ Consistent(result.score, result.action)
  /\ \A i \in DOMAIN logs : Consistent(logs[i].score, logs[i].action)

(* The last login clicked is under way, or it is shown, or a later one is  *)
(* that it met; only logins it met can still overwrite it.                 *)
AuthInv ==
  /\ TypeOK
  /\ clicks > 0 =>
       /\ flying \subseteq {clicks} \cup met[clicks]
       /\ met[clicks] \subseteq 1..clicks
       /\ clicks \in flying \/ authResult \in {clicks} \cup met[clicks]
-----------------------------------------------------------------------------
LEMMA ScoreType ==
  ASSUME NEW a \in Int, NEW t \in Int
  PROVE  compute_trust_score(a, t) \in 0..1000
<1> DEFINE normal == Clamp(0, 2000, a + 1000)
           rounded == RoundTenth(2 * normal + 6 * (1000 - t))
<1>1. normal \in Int
  BY DEF Clamp
<1> HIDE DEF normal
<1>2. rounded \in Int
  BY <1>1 DEF RoundTenth
<1> HIDE DEF rounded
<1>3. Clamp(0, 1000, rounded) \in 0..1000
  BY <1>2 DEF Clamp
<1>4. QED
  BY <1>3 DEF compute_trust_score, normal, rounded

LEMMA ActionType ==
  ASSUME NEW s PROVE determine_action(s) \in {"ALLOW", "CHALLENGE", "DENY"}
BY DEF determine_action

(* What the score route answers is a result whose parts belong together.   *)
LEMMA AnswerType ==
  ASSUME NEW r \in Readings
  PROVE  Answer(r) \in Results /\ Consistent(Answer(r).score, Answer(r).action)
<1>1. r.anomaly \in Int /\ r.threat \in Int
  <2>1. \A x \in Anomalies \cup Threats : x \in Int
    BY DashboardAssumption
  <2>2. r.anomaly \in Anomalies /\ r.threat \in Threats
    BY DEF Readings
  <2>3. QED
    BY <2>1, <2>2, Zenon
<1>2. compute_trust_score(r.anomaly, r.threat) \in 0..1000
  <2>1. PICK a \in Int, t \in Int : a = r.anomaly /\ t = r.threat
    BY <1>1, Zenon
  <2>2. compute_trust_score(a, t) \in 0..1000
    BY <2>1, ScoreType, ZenonT(40)
  <2>3. QED
    BY <2>1, <2>2, Zenon
<1>3. (r.anomaly < Offset) \in BOOLEAN
  BY <1>1, DashboardAssumption
<1>4. QED
  BY <1>2, <1>3, ActionType DEF Answer, Results, Actions, Consistent

LEMMA UnscoredType ==
  ASSUME NEW k \in {"none", "detail", "error"}
  PROVE  Unscored(k) \in Results /\ Consistent(Unscored(k).score, Unscored(k).action)
BY DEF Unscored, Results, Actions, Consistent

LEMMA EntryType ==
  ASSUME NEW i \in Inputs, NEW r \in Results
  PROVE  Entry(i, r) \in Entries
BY DEF Entry, Entries, Inputs, Results

(* The policy engine's answer is an action, or a conflict.                 *)
LEMMA DecisionType ==
  LET d == Rules!TrustDecision(Query) IN d \in Actions \cup {"conflict"}
<1> DEFINE fired == Rules!TrustFired(Query)
<1>1. fired \subseteq DOMAIN Rules!TrustAction
  BY DEF Rules!TrustFired
<1>2. \A r \in DOMAIN Rules!TrustAction : Rules!TrustAction[r] \in Actions
  BY DEF Rules!TrustAction, Actions
<1>3. CASE fired = {}
  BY <1>3 DEF Rules!TrustDecision, Rules!Evaluate, Actions
<1>4. CASE fired # {}
  <2>1. (CHOOSE r \in fired : TRUE) \in fired
    BY <1>4
  <2>2. Rules!TrustAction[CHOOSE r \in fired : TRUE] \in Actions
    BY <2>1, <1>1, <1>2
  <2>3. QED
    BY <1>4, <2>2 DEF Rules!TrustDecision, Rules!Evaluate
<1>5. QED
  BY <1>3, <1>4

(* The log with a new entry.                                               *)
LEMMA PrependLog ==
  ASSUME NEW e \in Entries, logs \in Seq(Entries), Len(logs) =< MaxLog
  PROVE  /\ Prepend(e) \in Seq(Entries) /\ Len(Prepend(e)) =< MaxLog
         /\ Prepend(e) # <<>> /\ Head(Prepend(e)) = e
         /\ \A i \in DOMAIN Prepend(e) :
              Prepend(e)[i] = e \/ \E j \in DOMAIN logs : Prepend(e)[i] = logs[j]
<1> DEFINE kept == IF Len(logs) < MaxLog THEN logs ELSE SubSeq(logs, 1, MaxLog - 1)
<1>1. MaxLog \in Nat \ {0} /\ Len(logs) \in Nat
  BY DashboardAssumption
<1>2. /\ kept \in Seq(Entries) /\ Len(kept) =< MaxLog - 1 /\ Len(kept) =< Len(logs)
      /\ \A i \in 1..Len(kept) : kept[i] = logs[i]
  BY <1>1
<1>3. Prepend(e) = <<e>> \o kept
  BY DEF Prepend
<1> HIDE DEF kept
<1>4. <<e>> \in Seq(Entries) /\ Len(<<e>>) = 1 /\ <<e>>[1] = e
  OBVIOUS
<1>5. /\ Prepend(e) \in Seq(Entries) /\ Len(Prepend(e)) = 1 + Len(kept)
      /\ \A i \in 1..Len(Prepend(e)) : Prepend(e)[i] = IF i = 1 THEN e ELSE kept[i - 1]
  BY <1>2, <1>3, <1>4
<1>6. ASSUME NEW i \in DOMAIN Prepend(e), i # 1 PROVE \E j \in DOMAIN logs : Prepend(e)[i] = logs[j]
  <2>1. i - 1 \in 1..Len(kept) /\ Prepend(e)[i] = kept[i - 1]
    BY <1>6, <1>5, <1>2
  <2>2. i - 1 \in DOMAIN logs /\ kept[i - 1] = logs[i - 1]
    BY <2>1, <1>1, <1>2
  <2>3. QED
    BY <2>1, <2>2
<1>7. \A i \in DOMAIN Prepend(e) : Prepend(e)[i] = e \/ \E j \in DOMAIN logs : Prepend(e)[i] = logs[j]
  BY <1>5, <1>6
<1>8. QED
  BY <1>1, <1>2, <1>5, <1>7

LEMMA PresetType ==
  ASSUME NEW k \in Scenarios PROVE PRESETS[k] \in Inputs
<1>1. PRESETS[k].user_id \in Users
  BY DEF Users
<1>2. k \in {"trusted", "traveling", "hacker", "iot"}
  BY DashboardAssumption DEF PRESETS
<1>3. /\ PRESETS["trusted"]   = [user_id |-> "sarah-engineer-001", device_trusted |-> TRUE]
      /\ PRESETS["traveling"] = [user_id |-> "raj-sales-002",      device_trusted |-> FALSE]
      /\ PRESETS["hacker"]    = [user_id |-> "admin-003",          device_trusted |-> FALSE]
      /\ PRESETS["iot"]       = [user_id |-> "iot-sensor-floor3",  device_trusted |-> TRUE]
  BY DEF PRESETS
<1>4. \E u : \E d \in BOOLEAN : PRESETS[k] = [user_id |-> u, device_trusted |-> d]
  BY <1>2, <1>3
<1>5. QED
  BY <1>1, <1>4 DEF Inputs

LEMMA TypeInit == Init => TypeOK
<1> SUFFICES ASSUME Init PROVE TypeOK
  OBVIOUS
<1>1. preset \in Scenarios /\ custom \in Inputs /\ input \in Inputs
  BY DashboardAssumption, PresetType DEF Init
<1>2. result \in Results /\ opaResult \in Actions
  BY UnscoredType DEF Init, Actions
<1>3. logs \in Seq(Entries) /\ Len(logs) =< MaxLog
  BY DashboardAssumption DEF Init
<1>4. /\ clicks \in 0..MaxLogins /\ flying \subseteq 1..clicks
      /\ met \in [Logins -> SUBSET Logins] /\ authResult \in 0..clicks
  BY DashboardAssumption DEF Init
<1>5. QED
  BY <1>1, <1>2, <1>3, <1>4 DEF Init, TypeOK

(* Showing a result and logging it keeps the types.                        *)
LEMMA ShowType ==
  ASSUME TypeOK, NEW r \in Results, Show(r), reading' \in Readings \cup {NoReading}
  PROVE  TypeOK'
<1>1. Entry(input, r) \in Entries
  BY EntryType DEF TypeOK
<1>2. logs' \in Seq(Entries) /\ Len(logs') =< MaxLog
  BY <1>1, PrependLog DEF TypeOK, Show
<1>3. QED
  BY <1>2 DEF TypeOK, Show, form, auth

LEMMA TypeStep == TypeOK /\ [Next]_vars => TypeOK'
<1> SUFFICES ASSUME TypeOK, [Next]_vars PROVE TypeOK'
  OBVIOUS
<1> USE DEF form, run, auth
<1>1. ASSUME NEW t \in {"presets", "custom"}, SetTab(t) PROVE TypeOK'
  BY <1>1 DEF SetTab, TypeOK
<1>2. ASSUME NEW k \in Scenarios, SetPreset(k) PROVE TypeOK'
  BY <1>2, PresetType DEF SetPreset, TypeOK
<1>3. CASE SetCustom
  <2>1. custom' \in Inputs
    BY <1>3 DEF SetCustom, TypeOK, Inputs
  <2>2. QED
    BY <1>3, <2>1 DEF SetCustom, TypeOK
<1>4. CASE runScore
  <2>1. input' \in Inputs
    BY <1>4, PresetType DEF runScore, TypeOK
  <2>2. result' \in Results /\ opaResult' \in Actions
    BY <1>4, UnscoredType DEF runScore, Actions
  <2>3. QED
    BY <1>4, <2>1, <2>2 DEF runScore, TypeOK
<1>5. CASE ScoreAnswered
  BY <1>5, AnswerType, ShowType DEF ScoreAnswered
<1>6. CASE ScoreRefused
  BY <1>6, UnscoredType, ShowType DEF ScoreRefused, TypeOK
<1>7. CASE ScoreFails
  BY <1>7, UnscoredType DEF ScoreFails, TypeOK
<1>8. CASE OpaAnswers
  <2>1. opaResult' \in Actions
    BY <1>8, DecisionType DEF OpaAnswers, Actions
  <2>2. QED
    BY <1>8, <2>1 DEF OpaAnswers, TypeOK
<1>9. CASE OpaFails
  BY <1>9 DEF OpaFails, TypeOK, Actions
<1>10. CASE Clear
  <2>1. logs' \in Seq(Entries) /\ Len(logs') =< MaxLog
    BY <1>10, DashboardAssumption DEF Clear
  <2>2. QED
    BY <1>10, <2>1 DEF Clear, TypeOK
<1>11. CASE testAuth
  <2>1. clicks' \in 0..MaxLogins /\ clicks' = clicks + 1 /\ clicks \in Nat
    BY <1>11, DashboardAssumption DEF testAuth, TypeOK
  <2>2. flying' \subseteq 1..clicks' /\ authResult' \in 0..clicks'
    BY <1>11, <2>1 DEF testAuth, TypeOK
  <2>3. flying \subseteq Logins
    <3>1. clicks \in 0..MaxLogins /\ flying \subseteq 1..clicks /\ MaxLogins \in Nat
      BY DashboardAssumption DEF TypeOK
    <3>2. QED
      BY <3>1 DEF Logins
  <2>4. met' \in [Logins -> SUBSET Logins]
    <3>1. met \in [Logins -> SUBSET Logins] /\ flying \in SUBSET Logins
      BY <2>3 DEF TypeOK
    <3>2. met' = [met EXCEPT ![clicks + 1] = flying]
      BY <1>11 DEF testAuth
    <3>3. QED
      BY <3>1, <3>2
  <2>5. QED
    BY <1>11, <2>1, <2>2, <2>4 DEF testAuth, TypeOK
<1>12. ASSUME NEW n \in Logins, AuthAnswers(n) \/ AuthFails(n) PROVE TypeOK'
  <2>1. /\ n \in flying /\ authResult' = n /\ flying' = flying \ {n}
        /\ UNCHANGED <<form, run, logs, clicks, met>>
    BY <1>12 DEF AuthAnswers, AuthFails
  <2>2. flying' \subseteq 1..clicks' /\ authResult' \in 0..clicks'
    BY <2>1 DEF TypeOK
  <2>3. QED
    BY <2>1, <2>2 DEF TypeOK
<1>13. CASE UNCHANGED vars
  BY <1>13 DEF vars, TypeOK
<1>14. QED
  BY <1>1, <1>2, <1>3, <1>4, <1>5, <1>6, <1>7, <1>8, <1>9, <1>10, <1>11, <1>12, <1>13 DEF Next

(* Every variable keeps its type; in particular the log its length.        *)
THEOREM TypeCorrect == Spec => []TypeOK
BY TypeInit, TypeStep, PTL DEF Spec
-----------------------------------------------------------------------------
LEMMA ShowStep ==
  ASSUME ShownInv, NEW r \in Results, Show(r), Consistent(r.score, r.action), TypeOK'
  PROVE  ShownInv'
<1> DEFINE e == Entry(input, r)
<1>1. e \in Entries /\ e.score = r.score /\ e.action = r.action
  BY EntryType DEF ShownInv, TypeOK, Entry
<1> HIDE DEF e
<1>2. \A i \in DOMAIN Prepend(e) :
        Prepend(e)[i] = e \/ \E j \in DOMAIN logs : Prepend(e)[i] = logs[j]
  BY <1>1, PrependLog DEF ShownInv, TypeOK
<1>3. result' = r /\ logs' = Prepend(e)
  BY DEF Show, e
<1>4. ASSUME NEW i \in DOMAIN logs' PROVE Consistent(logs'[i].score, logs'[i].action)
  <2>1. CASE logs'[i] = e
    BY <2>1, <1>1
  <2>2. CASE \E j \in DOMAIN logs : logs'[i] = logs[j]
    BY <2>2 DEF ShownInv
  <2>3. QED
    BY <2>1, <2>2, <1>2, <1>3
<1>5. QED
  BY <1>3, <1>4 DEF ShownInv, Consistent

LEMMA ShownInduction == ShownInv /\ [Next]_vars => ShownInv'
<1> SUFFICES ASSUME ShownInv, [Next]_vars PROVE ShownInv'
  OBVIOUS
<1> USE DEF form, run, auth
<1>t. TypeOK /\ TypeOK'
  BY TypeStep DEF ShownInv
<1>1. CASE ScoreAnswered
  BY <1>1, <1>t, AnswerType, ShowStep DEF ScoreAnswered
<1>2. CASE ScoreRefused
  BY <1>2, <1>t, UnscoredType, ShowStep DEF ScoreRefused
<1>3. CASE runScore \/ ScoreFails
  <2>1. Consistent(result'.score, result'.action) /\ logs' = logs
    BY <1>3, UnscoredType DEF runScore, ScoreFails
  <2>2. QED
    BY <2>1, <1>t DEF ShownInv, Consistent
<1>4. CASE Clear
  BY <1>4, <1>t DEF Clear, ShownInv, Consistent
<1>5. CASE UNCHANGED <<result, logs>>
  BY <1>5, <1>t DEF ShownInv, Consistent
<1>6. QED
  BY <1>1, <1>2, <1>3, <1>4, <1>5
     DEF Next, vars, SetTab, SetPreset, SetCustom, OpaAnswers, OpaFails, testAuth, AuthAnswers,
         AuthFails

(* No colour on the page contradicts the badge beside it, whatever the     *)
(* models say.                                                             *)
THEOREM ColoursRight == Spec => []ColoursAgree
<1>1. Init => ShownInv
  BY TypeInit, UnscoredType DEF Init, ShownInv
<1>2. ASSUME NEW s, NEW a, Consistent(s, a)
      PROVE  [color |-> scoreColor(s), badge |-> actionBadge(a)] \in
               {[color |-> "emerald", badge |-> "badge-allow"],
                [color |-> "amber",   badge |-> "badge-challenge"],
                [color |-> "rose",    badge |-> "badge-deny"]}
  <2>1. CASE s = NoScore /\ a = "none"
    BY <2>1 DEF scoreColor, actionBadge
  <2>2. CASE s \in 0..1000 /\ a = determine_action(s)
    <3>1. s # NoScore
      BY <2>2, DashboardAssumption
    <3>2. QED
      BY <3>1, <2>2 DEF scoreColor, actionBadge, determine_action
  <2>3. QED
    BY <1>2, <2>1, <2>2 DEF Consistent
<1>3. ShownInv => ColoursAgree
  BY <1>2 DEF ShownInv, ColoursAgree, Panel, Rows
<1>4. QED
  BY <1>1, <1>3, ShownInduction, PTL DEF Spec

(* Edits during a run never slip between the result and its log entry.     *)
THEOREM LogMatches == Spec => []LogMatchesResult
<1> DEFINE Inv == TypeOK /\ LogMatchesResult
<1>1. Init => Inv
  BY TypeInit DEF Init, LogMatchesResult
<1>2. Inv /\ [Next]_vars => Inv'
  <2> SUFFICES ASSUME Inv, [Next]_vars PROVE LogMatchesResult'
    BY TypeStep
  <2> USE DEF form, run, auth
  <2>1. ASSUME NEW r \in Results, Show(r) PROVE LogMatchesResult'
    <3>1. Entry(input, r) \in Entries
      BY EntryType DEF TypeOK
    <3>2. Head(Prepend(Entry(input, r))) = Entry(input, r)
      BY <3>1, PrependLog DEF TypeOK
    <3>3. QED
      BY <2>1, <3>2 DEF Show, LogMatchesResult
  <2>2. CASE ScoreAnswered
    BY <2>1, <2>2, AnswerType DEF ScoreAnswered
  <2>3. CASE ScoreRefused
    BY <2>1, <2>3, UnscoredType DEF ScoreRefused
  <2>4. CASE runScore \/ ScoreFails
    BY <2>4 DEF runScore, ScoreFails, Unscored, LogMatchesResult
  <2>5. CASE Clear
    BY <2>5 DEF Clear, LogMatchesResult
  <2>6. CASE UNCHANGED <<input, result, logs>>
    BY <2>6 DEF LogMatchesResult
  <2>7. QED
    BY <2>2, <2>3, <2>4, <2>5, <2>6
       DEF Next, vars, SetTab, SetPreset, SetCustom, OpaAnswers, OpaFails, testAuth, AuthAnswers,
           AuthFails
<1>3. Inv => LogMatchesResult
  OBVIOUS
<1> HIDE DEF Inv
<1>4. QED
  BY <1>1, <1>2, <1>3, PTL DEF Spec

(* However many logins overlap, and in whatever order they finish, the     *)
(* answer that stays is that of the last click or of one it overlapped.    *)
THEOREM AuthIsCurrent == Spec => []AuthAnswerCurrent
<1>1. Init => AuthInv
  BY TypeInit DEF Init, AuthInv
<1>2. AuthInv /\ [Next]_vars => AuthInv'
  <2> SUFFICES ASSUME AuthInv, [Next]_vars PROVE AuthInv'
    OBVIOUS
  <2> USE DEF form, run, auth
  <2>t. TypeOK /\ TypeOK'
    BY TypeStep DEF AuthInv
  <2>1. CASE testAuth
    <3>1. clicks \in Nat /\ clicks + 1 \in Logins /\ flying \subseteq 1..clicks
      BY <2>1, <2>t, DashboardAssumption DEF testAuth, TypeOK, Logins
    <3>2. clicks' = clicks + 1 /\ flying' = flying \cup {clicks'} /\ met'[clicks'] = flying
      BY <2>1, <2>t, <3>1 DEF testAuth, TypeOK
    <3>3. flying \subseteq 1..clicks'
      BY <3>1, <3>2
    <3>4. QED
      BY <2>t, <3>2, <3>3 DEF AuthInv
  <2>2. ASSUME NEW n \in Logins, AuthAnswers(n) \/ AuthFails(n) PROVE AuthInv'
    <3>1. /\ n \in flying /\ authResult' = n /\ flying' = flying \ {n}
          /\ clicks' = clicks /\ met' = met
      BY <2>2 DEF AuthAnswers, AuthFails
    <3>2. QED
      BY <2>t, <3>1 DEF AuthInv
  <2>3. CASE UNCHANGED auth
    BY <2>3, <2>t DEF AuthInv
  <2>4. QED
    BY <2>1, <2>2, <2>3
       DEF Next, vars, SetTab, SetPreset, SetCustom, runScore, Show, ScoreAnswered, ScoreRefused,
           ScoreFails, OpaAnswers, OpaFails, Clear
<1>3. AuthInv => AuthAnswerCurrent
  <2> SUFFICES ASSUME AuthInv, flying = {}, clicks > 0
               PROVE  \E n \in {clicks} \cup met[clicks] : AuthPanel = {n}
    BY DEF AuthAnswerCurrent
  <2>1. authResult \in {clicks} \cup met[clicks] /\ met[clicks] \subseteq 1..clicks
    BY DEF AuthInv
  <2>2. authResult # 0
    BY <2>1
  <2>3. QED
    BY <2>1, <2>2 DEF AuthPanel
<1>4. QED
  BY <1>1, <1>2, <1>3, PTL DEF Spec
-----------------------------------------------------------------------------
(* The operators of AccessDecision are those of the page, the arithmetic   *)
(* and the rules.                                                          *)
LEMMA SameScore ==
  ASSUME NEW a, NEW t
  PROVE  compute_trust_score(a, t) = Decision!compute_trust_score(a, t)
BY DEF compute_trust_score, RoundTenth, Clamp, Decision!compute_trust_score,
       Decision!RoundTenth, Decision!Clamp

LEMMA SameAction ==
  ASSUME NEW s PROVE determine_action(s) = Decision!determine_action(s)
BY DEF determine_action, Decision!determine_action

LEMMA SameDecision == Rules!TrustDecision(Query) = Decision!Rules!TrustDecision(Decision!Query)
<1>1. Query = Decision!Query
  BY DEF Query, Decision!Query
<1>2. Rules!TrustApplies(Query) = Decision!Rules!TrustApplies(Query)
  BY DEF Rules!TrustApplies, Rules!AtLeast, Rules!Below, Rules!Malicious,
         Rules!Trusted, Rules!Untrusted,
         Decision!Rules!TrustApplies, Decision!Rules!AtLeast, Decision!Rules!Below,
         Decision!Rules!Malicious, Decision!Rules!Trusted, Decision!Rules!Untrusted
<1>3. Rules!TrustAction = Decision!Rules!TrustAction
  BY DEF Rules!TrustAction, Decision!Rules!TrustAction
<1>4. Rules!TrustFired(Query) = Decision!Rules!TrustFired(Query)
  BY <1>2, <1>3 DEF Rules!TrustFired, Decision!Rules!TrustFired
<1>5. QED
  BY <1>1, <1>3, <1>4
     DEF Rules!TrustDecision, Rules!Evaluate, Decision!Rules!TrustDecision,
         Decision!Rules!Evaluate

(* The page around a decision never disturbs it: the form, the log and the *)
(* logins stutter, and a run decides on the input it took.                 *)
THEOREM Implements == Spec => ImplementsDecision
<1>1. Init => Decision!Init
  <2> SUFFICES ASSUME Init PROVE Decision!Init
    OBVIOUS
  <2>1. input.device_trusted \in BOOLEAN
    BY TypeInit DEF TypeOK, Inputs
  <2>2. QED
    BY <2>1 DEF Init, NoReading, Unscored, Decision!Init, Decision!NoReading, Decision!Unscored
<1>2. TypeOK /\ TypeOK' /\ [Next]_vars => [Decision!Next]_(Decision!vars)
  <2> SUFFICES ASSUME TypeOK, TypeOK', [Next]_vars PROVE [Decision!Next]_(Decision!vars)
    OBVIOUS
  <2> USE DEF form, run, auth
  <2>1. CASE runScore
    <3>1. input'.device_trusted \in BOOLEAN
      BY DEF TypeOK, Inputs
    <3>2. Decision!RunScore(input'.device_trusted)
      BY <2>1 DEF runScore, scoring, Unscored, Decision!RunScore, Decision!Unscored
    <3>3. QED
      BY <3>1, <3>2 DEF Decision!Next
  <2>2. CASE ScoreAnswered
    <3>1. Decision!ScoreAnswered
      BY <2>2, SameScore, SameAction
         DEF ScoreAnswered, Show, Answer, Readings, Decision!ScoreAnswered, Decision!Readings
    <3>2. QED
      BY <3>1 DEF Decision!Next
  <2>3. CASE ScoreRefused
    <3>1. Decision!ScoreRefused
      BY <2>3 DEF ScoreRefused, Show, Unscored, Decision!ScoreRefused, Decision!Unscored
    <3>2. QED
      BY <3>1 DEF Decision!Next
  <2>4. CASE ScoreFails
    <3>1. Decision!ScoreFails
      BY <2>4 DEF ScoreFails, Unscored, Decision!ScoreFails, Decision!Unscored
    <3>2. QED
      BY <3>1 DEF Decision!Next
  <2>5. CASE OpaAnswers
    <3>1. Decision!OpaAnswers
      BY <2>5, SameDecision DEF OpaAnswers, Decision!OpaAnswers
    <3>2. QED
      BY <3>1 DEF Decision!Next
  <2>6. CASE OpaFails
    <3>1. Decision!OpaFails
      BY <2>6 DEF OpaFails, Decision!OpaFails
    <3>2. QED
      BY <3>1 DEF Decision!Next
  <2>7. CASE UNCHANGED run
    BY <2>7 DEF Decision!vars
  <2>8. QED
    BY <2>1, <2>2, <2>3, <2>4, <2>5, <2>6, <2>7
       DEF Next, vars, SetTab, SetPreset, SetCustom, testAuth, AuthAnswers, AuthFails, Clear
<1>3. QED
  BY <1>1, <1>2, TypeCorrect, PTL DEF Spec, ImplementsDecision, Decision!Spec
-----------------------------------------------------------------------------
(* What is proved of the decision, about the page.                         *)
Promises ==
  INSTANCE DecisionProofs WITH trusted <- input.device_trusted, opa <- opaResult

LEMMA SameTypes ==
  /\ Promises!Readings = Decision!Readings /\ Promises!NoReading = Decision!NoReading
  /\ \A k : Promises!Unscored(k) = Decision!Unscored(k)
BY DEF Promises!Readings, Decision!Readings, Promises!NoReading, Decision!NoReading,
       Promises!Unscored, Decision!Unscored

LEMMA SameAnswers ==
  /\ \A a, t : Promises!compute_trust_score(a, t) = Decision!compute_trust_score(a, t)
  /\ \A s : Promises!determine_action(s) = Decision!determine_action(s)
BY DEF Promises!compute_trust_score, Promises!RoundTenth, Promises!Clamp,
       Promises!determine_action, Decision!compute_trust_score, Decision!RoundTenth,
       Decision!Clamp, Decision!determine_action

LEMMA SameRules ==
  /\ Promises!Rules!TrustDecision(Promises!Query) = Decision!Rules!TrustDecision(Decision!Query)
  /\ \A a : Promises!Rules!Rank(a) = Decision!Rules!Rank(a)
<1>1. Promises!Query = Decision!Query
  BY DEF Promises!Query, Decision!Query
<1>2. \A in : Promises!Rules!TrustApplies(in) = Decision!Rules!TrustApplies(in)
  BY DEF Promises!Rules!TrustApplies, Promises!Rules!AtLeast, Promises!Rules!Below,
         Promises!Rules!Malicious, Promises!Rules!Trusted, Promises!Rules!Untrusted,
         Decision!Rules!TrustApplies, Decision!Rules!AtLeast, Decision!Rules!Below,
         Decision!Rules!Malicious, Decision!Rules!Trusted, Decision!Rules!Untrusted
<1>3. Promises!Rules!TrustAction = Decision!Rules!TrustAction
  BY DEF Promises!Rules!TrustAction, Decision!Rules!TrustAction
<1>4. \A in : Promises!Rules!TrustFired(in) = Decision!Rules!TrustFired(in)
  BY <1>2, <1>3 DEF Promises!Rules!TrustFired, Decision!Rules!TrustFired
<1>5. \A a : Promises!Rules!Rank(a) = Decision!Rules!Rank(a)
  BY DEF Promises!Rules!Rank, Decision!Rules!Rank
<1>6. QED
  BY <1>1, <1>3, <1>4, <1>5
     DEF Promises!Rules!TrustDecision, Promises!Rules!Evaluate,
         Decision!Rules!TrustDecision, Decision!Rules!Evaluate

LEMMA SameSpec == Decision!Spec => Promises!Spec
<1>1. Decision!Init => Promises!Init
  BY SameTypes DEF Decision!Init, Promises!Init
<1>2. [Decision!Next]_(Decision!vars) => [Promises!Next]_(Promises!vars)
  <2>1. ASSUME NEW d, Decision!RunScore(d) PROVE Promises!RunScore(d)
    BY <2>1, SameTypes DEF Decision!RunScore, Promises!RunScore
  <2>2. Decision!ScoreAnswered => Promises!ScoreAnswered
    BY SameTypes, SameAnswers DEF Decision!ScoreAnswered, Promises!ScoreAnswered
  <2>3. Decision!ScoreRefused => Promises!ScoreRefused
    BY SameTypes DEF Decision!ScoreRefused, Promises!ScoreRefused
  <2>4. Decision!ScoreFails => Promises!ScoreFails
    BY SameTypes DEF Decision!ScoreFails, Promises!ScoreFails
  <2>5. Decision!OpaAnswers => Promises!OpaAnswers
    BY SameRules DEF Decision!OpaAnswers, Promises!OpaAnswers
  <2>6. Decision!OpaFails => Promises!OpaFails
    BY DEF Decision!OpaFails, Promises!OpaFails
  <2>7. Decision!vars = Promises!vars /\ (Decision!vars)' = (Promises!vars)'
    BY DEF Decision!vars, Promises!vars
  <2>8. QED
    BY <2>1, <2>2, <2>3, <2>4, <2>5, <2>6, <2>7, Zenon DEF Decision!Next, Promises!Next
<1>3. QED
  BY <1>1, <1>2, PTL DEF Decision!Spec, Promises!Spec

LEMMA PromisesApply == Promises!DecisionAssumption
BY DashboardAssumption, ZenonT(40) DEF Promises!DecisionAssumption

(* The page keeps what the decision promises: likely threats are denied in *)
(* both of its answers, unlikely ones on a trusted device in neither, and  *)
(* what it shows of the policy engine is never laxer than the verdict      *)
(* beside it, whatever is clicked or edited meanwhile.                     *)
THEOREM PageDecidesWell ==
  Spec => [](/\ Decision!LikelyThreatDenied
             /\ Decision!UnlikelyThreatPasses
             /\ Decision!ShownNotLaxer)
<1>1. Promises!LikelyThreatDenied => Decision!LikelyThreatDenied
  BY DEF Promises!LikelyThreatDenied, Promises!Scored, Decision!LikelyThreatDenied,
         Decision!Scored
<1>2. Promises!UnlikelyThreatPasses => Decision!UnlikelyThreatPasses
  BY DEF Promises!UnlikelyThreatPasses, Promises!Scored, Decision!UnlikelyThreatPasses,
         Decision!Scored
<1>3. Promises!ShownNotLaxer => Decision!ShownNotLaxer
  BY SameRules DEF Promises!ShownNotLaxer, Promises!Scored, Decision!ShownNotLaxer,
                   Decision!Scored
<1>4. Promises!Spec => [](/\ Promises!LikelyThreatDenied
                         /\ Promises!UnlikelyThreatPasses
                         /\ Promises!ShownNotLaxer)
  BY PromisesApply, Promises!ThreatsDenied, Promises!OthersPass, Promises!ShownIsStricter, PTL
<1>5. QED
  BY <1>1, <1>2, <1>3, <1>4, Implements, SameSpec, PTL DEF ImplementsDecision
=============================================================================
