-------------------------------- MODULE Policy -------------------------------
(***************************************************************************)
(* The three Rego packages of the policy engine                            *)
(* (policy-engine/policies/{trust_rules,iot_rules,fallback}.rego).         *)
(*                                                                         *)
(* Each package defines "decision" by complete rules.  OPA evaluates every *)
(* rule: when none applies the default is the answer, when several apply   *)
(* their values differ and the query fails with an evaluation conflict,    *)
(* for there is no order among them.  A field that a query does not carry  *)
(* is undefined, and a comparison with it never holds: for the Boolean and *)
(* string fields but device_trusted that is the same as FALSE, "clean",    *)
(* "other", "none" or "normal" here.  device_trusted is compared with both *)
(* true and false, so that a query without it meets neither.               *)
(*                                                                         *)
(* The state is the input of one session's queries; a step changes one     *)
(* signal between two queries.  Scores are in tenths.                      *)
(***************************************************************************)
EXTENDS TrustScore

CONSTANTS Scores,   (* the trust scores a session may be given, in tenths     *)
          NoScore   (* the query carries no trust_score                       *)

ASSUME PolicyAssumption == Scores \subseteq Int /\ NoScore \notin Int

VARIABLE input

(* scoring is scoring_mode with the fail_mode of a fallback.               *)
Inputs == [trust_score      : Scores \cup {NoScore},
           device_trusted   : {"true", "false", "absent"},
           ip_reputation    : {"clean", "suspicious", "malicious"},
           account_locked   : BOOLEAN,
           device_type      : {"iot", "other"},
           anomaly_detected : BOOLEAN,
           anomaly_type     : {"none", "network_behavior"},
           scoring          : {"normal", "closed", "open"}]

TypeOK == input \in Inputs

Trusted(in) == in.device_trusted = "true"
Untrusted(in) == in.device_trusted = "false"
AtLeast(in, n) == in.trust_score # NoScore /\ in.trust_score >= n
Below(in, n) == in.trust_score # NoScore /\ in.trust_score < n

(* The value of a complete definition: fired holds the rules that apply,   *)
(* action gives the answer of each.                                        *)
Evaluate(fired, action, default) ==
  IF fired = {} THEN default
  ELSE IF \E r \in fired : fired = {r} THEN action[CHOOSE r \in fired : TRUE]
  ELSE "conflict"
-----------------------------------------------------------------------------
(* package ztna                                                            *)
TrustAction == [trusted_session |-> "ALLOW", high_score |-> "ALLOW",
                medium_trust |-> "CHALLENGE", untrusted_device |-> "CHALLENGE",
                low_score |-> "DENY", malicious_ip |-> "DENY", locked |-> "DENY"]

Malicious(in) == in.ip_reputation = "malicious"

TrustApplies_NoIpCheck(in) ==
  [trusted_session  |-> AtLeast(in, 800) /\ Trusted(in),
   high_score       |-> AtLeast(in, 900) /\ ~Malicious(in),
   medium_trust     |-> AtLeast(in, 400) /\ Below(in, 800) /\ Trusted(in) /\ ~Malicious(in),
   untrusted_device |-> AtLeast(in, 500) /\ Untrusted(in) /\ ~Malicious(in),
   low_score        |-> Below(in, 300),
   malicious_ip     |-> FALSE,
   locked           |-> in.account_locked]

TrustApplies_LowerAllow(in) ==
  [trusted_session  |-> AtLeast(in, 750) /\ Trusted(in) /\ ~Malicious(in),
   high_score       |-> AtLeast(in, 900) /\ ~Malicious(in),
   medium_trust     |-> AtLeast(in, 400) /\ Below(in, 750) /\ Trusted(in) /\ ~Malicious(in),
   untrusted_device |-> AtLeast(in, 500) /\ Untrusted(in) /\ ~Malicious(in),
   low_score        |-> Below(in, 300),
   malicious_ip     |-> Malicious(in),
   locked           |-> in.account_locked]

TrustApplies_BoundedUntrusted(in) ==
  [trusted_session  |-> AtLeast(in, 800) /\ Trusted(in) /\ ~Malicious(in),
   high_score       |-> AtLeast(in, 900) /\ Trusted(in) /\ ~Malicious(in),
   medium_trust     |-> AtLeast(in, 400) /\ Below(in, 800) /\ Trusted(in) /\ ~Malicious(in),
   untrusted_device |-> AtLeast(in, 500) /\ Below(in, 900) /\ Untrusted(in) /\ ~Malicious(in),
   low_score        |-> Below(in, 300),
   malicious_ip     |-> Malicious(in),
   locked           |-> in.account_locked]

(* Which rules apply to an input.                                          *)
TrustApplies(in) ==
  [trusted_session  |-> AtLeast(in, 800) /\ Trusted(in) /\ ~Malicious(in),
   high_score       |-> AtLeast(in, 900) /\ ~Malicious(in),
   medium_trust     |-> AtLeast(in, 400) /\ Below(in, 800) /\ Trusted(in) /\ ~Malicious(in),
   untrusted_device |-> AtLeast(in, 500) /\ Untrusted(in) /\ ~Malicious(in),
   low_score        |-> Below(in, 300),
   malicious_ip     |-> Malicious(in),
   locked           |-> in.account_locked]

TrustFired(in) == {r \in DOMAIN TrustAction : TrustApplies(in)[r]}
TrustDecision(in) == Evaluate(TrustFired(in), TrustAction, "DENY")
-----------------------------------------------------------------------------
(* package ztna.iot                                                        *)
IotAction == [normal |-> "ALLOW", quarantine |-> "QUARANTINE",
              critical |-> "DENY", medium |-> "RESTRICT"]

IotApplies_WideMedium(in) ==
  [normal     |-> AtLeast(in, 700) /\ ~in.anomaly_detected,
   quarantine |-> Below(in, 250) /\ in.anomaly_type = "network_behavior",
   critical   |-> Below(in, 250),
   medium     |-> AtLeast(in, 250) /\ Below(in, 800)]

IotApplies(in) ==
  [normal     |-> AtLeast(in, 700) /\ ~in.anomaly_detected,
   quarantine |-> Below(in, 250) /\ in.anomaly_type = "network_behavior",
   critical   |-> Below(in, 250),
   medium     |-> AtLeast(in, 250) /\ Below(in, 700)]

IotFired(in) == {r \in DOMAIN IotAction : in.device_type = "iot" /\ IotApplies(in)[r]}
IotDecision(in) == Evaluate(IotFired(in), IotAction, "DENY")
-----------------------------------------------------------------------------
(* package ztna.fallback                                                   *)
FallbackAction == [closed |-> "CHALLENGE", open_known |-> "ALLOW", open_unknown |-> "CHALLENGE"]

FallbackApplies(in) ==
  [closed       |-> in.scoring = "closed",
   open_known   |-> in.scoring = "open" /\ Trusted(in),
   open_unknown |-> in.scoring = "open" /\ Untrusted(in)]

FallbackFired(in) == {r \in DOMAIN FallbackAction : FallbackApplies(in)[r]}
FallbackDecision(in) == Evaluate(FallbackFired(in), FallbackAction, "CHALLENGE")
-----------------------------------------------------------------------------
(* A session starts unscored on a device nobody vouched for; then any one  *)
(* signal may change.                                                      *)
Init ==
  input = [trust_score |-> NoScore, device_trusted |-> "false", ip_reputation |-> "clean",
           account_locked |-> FALSE, device_type |-> "other", anomaly_detected |-> FALSE,
           anomaly_type |-> "none", scoring |-> "normal"]

Rescore == \E s \in Scores \cup {NoScore} : input' = [input EXCEPT !.trust_score = s]
TrustDevice ==
  \E t \in {"true", "false", "absent"} : input' = [input EXCEPT !.device_trusted = t]
LookUpIp ==
  \E r \in {"clean", "suspicious", "malicious"} : input' = [input EXCEPT !.ip_reputation = r]
LockAccount == \E b \in BOOLEAN : input' = [input EXCEPT !.account_locked = b]
Device == \E t \in {"iot", "other"} : input' = [input EXCEPT !.device_type = t]
DetectAnomaly ==
  \E b \in BOOLEAN, t \in {"none", "network_behavior"} :
    input' = [input EXCEPT !.anomaly_detected = b, !.anomaly_type = t]
ScoringMode == \E m \in {"normal", "closed", "open"} : input' = [input EXCEPT !.scoring = m]

Next ==
  \/ Rescore \/ TrustDevice \/ LookUpIp \/ LockAccount
  \/ Device \/ DetectAnomaly \/ ScoringMode

Spec == Init /\ [][Next]_input
-----------------------------------------------------------------------------
Rank(action) == CASE action = "DENY" -> 0 [] action = "CHALLENGE" -> 1 [] action = "ALLOW" -> 2

(* When package ztna answers ALLOW: from 80 on to a trusted device, but    *)
(* only below 90, for there high_score answers as well and the query fails *)
(* whichever way device_trusted is set.  high_score by itself is left with *)
(* the queries that say nothing of the device.                             *)
AllowedExactly ==
  TrustDecision(input) = "ALLOW" <=>
    /\ ~Malicious(input) /\ ~input.account_locked
    /\ \/ Trusted(input) /\ AtLeast(input, 800) /\ Below(input, 900)
       \/ ~Trusted(input) /\ ~Untrusted(input) /\ AtLeast(input, 900)

(* No score lifts a malicious address or a locked account above DENY: the  *)
(* worst that happens is a query without an answer.                        *)
IndicatorsNeverPass ==
  Malicious(input) \/ input.account_locked => TrustDecision(input) \in {"DENY", "conflict"}

(* The policy engine never answers more laxly than the ML engine           *)
(* recommends for the same score (rules against determine_action).         *)
NeverLaxer ==
  input.trust_score # NoScore /\ TrustDecision(input) # "conflict" =>
    Rank(TrustDecision(input)) =< Rank(determine_action(input.trust_score))

(* A better score alone never turns a decided answer into a stricter one.  *)
ScoreNeverHurts ==
  [][(/\ AtLeast(input, 0) /\ AtLeast(input', input.trust_score)
      /\ input' = [input EXCEPT !.trust_score = input'.trust_score]
      /\ "conflict" \notin {TrustDecision(input), TrustDecision(input')})
     => Rank(TrustDecision(input)) =< Rank(TrustDecision(input'))]_input

(* Two more packages of complete rules with overlaps of their own: the IoT *)
(* rules leave a query unanswered in one case only, very low trust and a   *)
(* network anomaly at once; the fallback rules, which have to answer when  *)
(* the ML engine is down, never do.                                        *)
OnlyKnownConflicts ==
  /\ FallbackDecision(input) # "conflict"
  /\ IotDecision(input) = "conflict" =>
       Below(input, 250) /\ input.anomaly_type = "network_behavior"
=============================================================================
