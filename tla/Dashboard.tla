------------------------------ MODULE Dashboard -------------------------------
(***************************************************************************)
(* The trust score simulator, the login test and the access log of the     *)
(* dashboard page (dashboard/src/app/dashboard/page.tsx).  While runScore  *)
(* waits for an engine the page stays alive: the operator goes on editing  *)
(* the form, clears the log, and starts logins that overlap.               *)
(*                                                                         *)
(* AccessDecision is the decision alone; this module shows that the page   *)
(* around it does not disturb it.                                          *)
(***************************************************************************)
EXTENDS TrustScore, Sequences

CONSTANTS Anomalies, Threats,  (* what the two models may say of a request    *)
          Offset, NoScore,     (* as in AccessDecision                        *)
          Scenarios,           (* bound: the scenarios that are clicked       *)
          MaxLog,              (* length of the access log: 50 in the code    *)
          MaxLogins            (* bound: logins that are tried                *)

(* The scenarios, by what tells their requests apart here.                 *)
PRESETS ==
  [trusted   |-> [user_id |-> "sarah-engineer-001", device_trusted |-> TRUE],
   traveling |-> [user_id |-> "raj-sales-002",      device_trusted |-> FALSE],
   hacker    |-> [user_id |-> "admin-003",          device_trusted |-> FALSE],
   iot       |-> [user_id |-> "iot-sensor-floor3",  device_trusted |-> TRUE]]

ASSUME DashboardAssumption ==
  /\ Anomalies \subseteq -1000..0 /\ Threats \subseteq 0..1000
  /\ Offset \in Int /\ NoScore \notin Int
  /\ "trusted" \in Scenarios /\ Scenarios \subseteq DOMAIN PRESETS
  /\ MaxLog \in Nat \ {0} /\ MaxLogins \in Nat

VARIABLES tab, preset, custom,  (* the form                                   *)
          pc,         (* where runScore stands                                *)
          input,      (* what runScore took from the form                     *)
          reading,    (* ghost: what the models said of the latest request    *)
          result,     (* the state variable of this name                      *)
          opaResult,  (* the decision in the state variable of this name      *)
          logs,       (* the access log, newest first                         *)
          clicks,     (* logins clicked so far                                *)
          flying,     (* logins under way, by the number of their click       *)
          met,        (* ghost: the logins under way at each click            *)
          authResult  (* the click whose answer is shown, 0 for none          *)

form == <<tab, preset, custom>>
run == <<pc, input, reading, result, opaResult>>
auth == <<clicks, flying, met, authResult>>
vars == <<form, run, logs, auth>>

Users == {PRESETS[k].user_id : k \in Scenarios}
Inputs == [user_id : Users, device_trusted : BOOLEAN]
Readings == [anomaly : Anomalies, threat : Threats]
Actions == {"none", "ALLOW", "CHALLENGE", "DENY"}
NoReading == [anomaly |-> 0, threat |-> 0]
Unscored(k) == [kind |-> k, score |-> NoScore, action |-> "none", anomaly |-> FALSE]
Results == [kind : {"none", "scored", "detail", "error"}, score : 0..1000 \cup {NoScore},
            action : Actions, anomaly : BOOLEAN]
Entries == [user : Users, score : 0..1000 \cup {NoScore}, action : Actions]
Logins == 1..MaxLogins

TypeOK ==
  /\ tab \in {"presets", "custom"} /\ preset \in Scenarios /\ custom \in Inputs
  /\ pc \in {"idle", "ml", "opa"} /\ input \in Inputs
  /\ reading \in Readings \cup {NoReading}
  /\ result \in Results /\ opaResult \in Actions
  /\ logs \in Seq(Entries) /\ Len(logs) =< MaxLog
  /\ clicks \in 0..MaxLogins /\ flying \subseteq 1..clicks
  /\ met \in [Logins -> SUBSET Logins] /\ authResult \in 0..clicks

Init ==
  /\ tab = "presets" /\ preset = "trusted" /\ custom = PRESETS["trusted"]
  /\ pc = "idle" /\ input = PRESETS["trusted"] /\ reading = NoReading
  /\ result = Unscored("none") /\ opaResult = "none"
  /\ logs = <<>>
  /\ clicks = 0 /\ flying = {} /\ met = [n \in Logins |-> {}] /\ authResult = 0
-----------------------------------------------------------------------------
(* The form is open at all times, also during a run.                       *)
SetTab(t) ==
  /\ tab' = t
  /\ UNCHANGED <<preset, custom, run, logs, auth>>

(* A scenario card: it also overwrites what was typed.                     *)
SetPreset(k) ==
  /\ tab = "presets"
  /\ preset' = k /\ custom' = PRESETS[k]
  /\ UNCHANGED <<tab, run, logs, auth>>

(* One field of the custom form.                                           *)
SetCustom ==
  /\ tab = "custom"
  /\ \/ \E u \in Users : custom' = [custom EXCEPT !.user_id = u]
     \/ \E d \in BOOLEAN : custom' = [custom EXCEPT !.device_trusted = d]
  /\ UNCHANGED <<tab, preset, run, logs, auth>>
-----------------------------------------------------------------------------
(* The state variable of this name.                                        *)
scoring == pc # "idle"

runScore_KeepsOpa ==
  /\ ~scoring
  /\ pc' = "ml"
  /\ input' = IF tab = "presets" THEN PRESETS[preset] ELSE custom
  /\ result' = Unscored("none")
  /\ UNCHANGED <<form, reading, opaResult, logs, auth>>

(* The button, disabled while a run is under way.  It clears both results  *)
(* and takes its input from the tab that is open.                          *)
runScore ==
  /\ ~scoring
  /\ pc' = "ml"
  /\ input' = IF tab = "presets" THEN PRESETS[preset] ELSE custom
  /\ result' = Unscored("none") /\ opaResult' = "none"
  /\ UNCHANGED <<form, reading, logs, auth>>

Entry(i, r) == [user |-> i.user_id, score |-> r.score, action |-> r.action]

(* The new entry in front, and no more than MaxLog of them.                *)
Prepend(e) == <<e>> \o (IF Len(logs) < MaxLog THEN logs ELSE SubSeq(logs, 1, MaxLog - 1))

Show_LogsForm(r) ==
  /\ pc = "ml"
  /\ result' = r
  /\ logs' = Prepend(Entry(custom, r))
  /\ pc' = "opa"
  /\ UNCHANGED <<form, input, opaResult, auth>>

Show_Uncapped(r) ==
  /\ pc = "ml"
  /\ result' = r
  /\ logs' = <<Entry(input, r)>> \o logs
  /\ pc' = "opa"
  /\ UNCHANGED <<form, input, opaResult, auth>>

(* A JSON body came back: it is shown, logged, and the policy engine asked.*)
Show(r) ==
  /\ pc = "ml"
  /\ result' = r
  /\ logs' = Prepend(Entry(input, r))
  /\ pc' = "opa"
  /\ UNCHANGED <<form, input, opaResult, auth>>

(* What the score route answers.                                           *)
Answer(r) ==
  LET score == compute_trust_score(r.anomaly, r.threat)
  IN  [kind |-> "scored", score |-> score, action |-> determine_action(score),
       anomaly |-> r.anomaly < Offset]

ScoreAnswered == \E r \in Readings : reading' = r /\ Show(Answer(r))

(* An error status with a JSON body: the page does not look at the status. *)
ScoreRefused == Show(Unscored("detail")) /\ UNCHANGED reading

(* No answer, or none that is JSON.  Nothing is logged.                    *)
ScoreFails ==
  /\ pc = "ml"
  /\ result' = Unscored("error")
  /\ pc' = "idle"
  /\ UNCHANGED <<form, input, reading, opaResult, logs, auth>>

(* The query is made from the answer and from the input the run took.      *)
Query ==
  [trust_score |-> result.score,
   device_trusted |-> IF input.device_trusted THEN "true" ELSE "false",
   ip_reputation |-> IF result.anomaly THEN "suspicious" ELSE "clean",
   account_locked |-> FALSE, device_type |-> "other",
   anomaly_detected |-> FALSE, anomaly_type |-> "none", scoring |-> "normal"]

Rules == INSTANCE Policy WITH input <- Query, Scores <- 0..1000

OpaAnswers ==
  /\ pc = "opa"
  /\ LET d == Rules!TrustDecision(Query)
     IN  opaResult' = IF d = "conflict" THEN "none" ELSE d
  /\ pc' = "idle"
  /\ UNCHANGED <<form, input, reading, result, logs, auth>>

(* The route gives up on the policy engine after 3 s and answers 503 with  *)
(* no result, or the route itself cannot be reached.                       *)
OpaFails ==
  /\ pc = "opa"
  /\ opaResult' = "none"
  /\ pc' = "idle"
  /\ UNCHANGED <<form, input, reading, result, logs, auth>>

(* The button of the log, there while the log has an entry.                *)
Clear ==
  /\ logs # <<>>
  /\ logs' = <<>>
  /\ UNCHANGED <<form, run, auth>>
-----------------------------------------------------------------------------
(* The login buttons are never disabled.                                   *)
testAuth ==
  /\ clicks < MaxLogins
  /\ clicks' = clicks + 1
  /\ flying' = flying \cup {clicks + 1}
  /\ met' = [met EXCEPT ![clicks + 1] = flying]
  /\ UNCHANGED <<form, run, logs, authResult>>

(* The auth service answers the login of click n, whatever the status.     *)
AuthAnswers(n) ==
  /\ n \in flying
  /\ authResult' = n
  /\ flying' = flying \ {n}
  /\ UNCHANGED <<form, run, logs, clicks, met>>

AuthFails_Silent(n) ==
  /\ n \in flying
  /\ flying' = flying \ {n}
  /\ UNCHANGED <<form, run, logs, clicks, met, authResult>>

(* No answer, or none that is JSON: the error is shown in its place.       *)
AuthFails(n) ==
  /\ n \in flying
  /\ authResult' = n
  /\ flying' = flying \ {n}
  /\ UNCHANGED <<form, run, logs, clicks, met>>

Next ==
  \/ \E t \in {"presets", "custom"} : SetTab(t)
  \/ \E k \in Scenarios : SetPreset(k)
  \/ SetCustom
  \/ runScore \/ ScoreAnswered \/ ScoreRefused \/ ScoreFails
  \/ OpaAnswers \/ OpaFails \/ Clear
  \/ testAuth \/ \E n \in Logins : AuthAnswers(n) \/ AuthFails(n)

Spec == Init /\ [][Next]_vars
-----------------------------------------------------------------------------
(* What the page shows.                                                    *)

scoreColor_Above(s) ==
  IF s = NoScore THEN "rose"
  ELSE IF s > 800 THEN "emerald" ELSE IF s > 400 THEN "amber" ELSE "rose"

scoreColor(s) ==
  IF s = NoScore THEN "rose"
  ELSE IF s >= 800 THEN "emerald" ELSE IF s >= 400 THEN "amber" ELSE "rose"

actionBadge(a) ==
  CASE a = "ALLOW" -> "badge-allow" [] a = "CHALLENGE" -> "badge-challenge" [] OTHER -> "badge-deny"

(* The result panel, on the page while there is a result.                  *)
Panel ==
  IF result.kind = "none" THEN {}
  ELSE {[color |-> scoreColor(result.score), badge |-> actionBadge(result.action)]}

(* The rows of the access log.                                             *)
Rows == {[color |-> scoreColor(logs[i].score), badge |-> actionBadge(logs[i].action)] :
           i \in DOMAIN logs}

(* The panel of the login test, on the page once there is an answer.       *)
AuthPanel == IF authResult = 0 THEN {} ELSE {authResult}
-----------------------------------------------------------------------------
(* The page colours a score by thresholds of its own (page.tsx:100), the   *)
(* badge beside it shows what the ML engine made of the same score by its  *)
(* thresholds: for no reading do the two disagree, nor is an answer that   *)
(* carries no score ever shown as good.                                    *)
ColoursAgree ==
  \A s \in Panel \cup Rows :
    s \in {[color |-> "emerald", badge |-> "badge-allow"],
           [color |-> "amber",   badge |-> "badge-challenge"],
           [color |-> "rose",    badge |-> "badge-deny"]}

(* Whatever is edited or switched during a run, the newest log entry and   *)
(* the result on the page speak of the same request, the one that was sent.*)
LogMatchesResult ==
  result.kind \in {"scored", "detail"} /\ logs # <<>> => Head(logs) = Entry(input, result)

(* Logins overlap and the last to finish is shown.  Once none is under     *)
(* way, that is the last one clicked, or one it overlapped with.           *)
AuthAnswerCurrent ==
  flying = {} /\ clicks > 0 => \E n \in {clicks} \cup met[clicks] : AuthPanel = {n}

(* The page, whatever else happens on it, decides as AccessDecision does.  *)
Decision == INSTANCE AccessDecision WITH trusted <- input.device_trusted, opa <- opaResult
ImplementsDecision == Decision!Spec
=============================================================================
