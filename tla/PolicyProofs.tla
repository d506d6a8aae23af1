----------------------------- MODULE PolicyProofs ----------------------------
(***************************************************************************)
(* The guarantees of package ztna for every score, not only those next to  *)
(* a threshold.                                                            *)
(***************************************************************************)
EXTENDS Policy, TLAPS

TrustRules == {"trusted_session", "high_score", "medium_trust", "untrusted_device",
               "low_score", "malicious_ip", "locked"}

(* Which rules fire, one by one.                                           *)
LEMMA Fires ==
  ASSUME NEW in
  PROVE  /\ TrustFired(in) \subseteq TrustRules
         /\ "trusted_session" \in TrustFired(in)
              <=> AtLeast(in, 800) /\ Trusted(in) /\ ~Malicious(in)
         /\ "high_score" \in TrustFired(in) <=> AtLeast(in, 900) /\ ~Malicious(in)
         /\ "medium_trust" \in TrustFired(in)
              <=> AtLeast(in, 400) /\ Below(in, 800) /\ Trusted(in) /\ ~Malicious(in)
         /\ "untrusted_device" \in TrustFired(in)
              <=> AtLeast(in, 500) /\ Untrusted(in) /\ ~Malicious(in)
         /\ "low_score" \in TrustFired(in) <=> Below(in, 300)
         /\ "malicious_ip" \in TrustFired(in) <=> Malicious(in)
         /\ "locked" \in TrustFired(in) <=> in.account_locked
BY ZenonT(40) DEF TrustFired, TrustApplies, TrustAction, TrustRules

(* An answer is the default, a conflict, or that of the only rule.         *)
LEMMA Answer ==
  ASSUME NEW in
  PROVE  \/ TrustFired(in) = {} /\ TrustDecision(in) = "DENY"
         \/ TrustDecision(in) = "conflict"
         \/ \E r \in TrustRules : TrustFired(in) = {r} /\ TrustDecision(in) = TrustAction[r]
<1>1. CASE TrustFired(in) = {}
  BY <1>1 DEF TrustDecision, Evaluate
<1>2. CASE \E r \in TrustFired(in) : TrustFired(in) = {r}
  <2>1. PICK r \in TrustFired(in) : TrustFired(in) = {r}
    BY <1>2
  <2>2. (CHOOSE s \in TrustFired(in) : TRUE) = r
    BY <2>1
  <2>3. TrustDecision(in) = TrustAction[r]
    BY <1>2, <2>1, <2>2 DEF TrustDecision, Evaluate
  <2>4. QED
    BY <2>1, <2>3, Fires
<1>3. CASE TrustFired(in) # {} /\ ~\E r \in TrustFired(in) : TrustFired(in) = {r}
  BY <1>3 DEF TrustDecision, Evaluate
<1>4. QED
  BY <1>1, <1>2, <1>3

LEMMA Only ==
  ASSUME NEW in, NEW r, TrustFired(in) = {r}
  PROVE  TrustDecision(in) = TrustAction[r]
<1>1. (CHOOSE s \in TrustFired(in) : TRUE) = r
  OBVIOUS
<1>2. QED
  BY <1>1 DEF TrustDecision, Evaluate

LEMMA Actions ==
  /\ TrustAction["trusted_session"] = "ALLOW" /\ TrustAction["high_score"] = "ALLOW"
  /\ TrustAction["medium_trust"] = "CHALLENGE" /\ TrustAction["untrusted_device"] = "CHALLENGE"
  /\ TrustAction["low_score"] = "DENY" /\ TrustAction["malicious_ip"] = "DENY"
  /\ TrustAction["locked"] = "DENY"
BY DEF TrustAction

LEMMA Typed == Spec => []TypeOK
<1>1. Init => TypeOK
  BY DEF Init, TypeOK, Inputs
<1>2. TypeOK /\ [Next]_input => TypeOK'
  <2> SUFFICES ASSUME TypeOK, [Next]_input PROVE TypeOK'
    OBVIOUS
  <2> USE DEF TypeOK, Inputs
  <2>1. CASE Rescore
    BY <2>1 DEF Rescore
  <2>2. CASE TrustDevice
    BY <2>2 DEF TrustDevice
  <2>3. CASE LookUpIp
    BY <2>3 DEF LookUpIp
  <2>4. CASE LockAccount
    BY <2>4 DEF LockAccount
  <2>5. CASE Device
    BY <2>5 DEF Device
  <2>6. CASE DetectAnomaly
    BY <2>6 DEF DetectAnomaly
  <2>7. CASE ScoringMode
    BY <2>7 DEF ScoringMode
  <2>8. CASE UNCHANGED input
    BY <2>8
  <2>9. QED
    BY <2>1, <2>2, <2>3, <2>4, <2>5, <2>6, <2>7, <2>8 DEF Next
<1>3. QED
  BY <1>1, <1>2, PTL DEF Spec
-----------------------------------------------------------------------------
LEMMA ScoreType ==
  ASSUME NEW in \in Inputs
  PROVE  in.trust_score = NoScore \/ in.trust_score \in Int
BY PolicyAssumption DEF Inputs

(* A query says that the device is trusted, that it is not, or neither.    *)
LEMMA DeviceType ==
  ASSUME NEW in
  PROVE  ~(Trusted(in) /\ Untrusted(in))
BY DEF Trusted, Untrusted

LEMMA AllowNeeds ==
  ASSUME NEW in \in Inputs, TrustDecision(in) = "ALLOW"
  PROVE  /\ ~Malicious(in) /\ ~in.account_locked
         /\ \/ Trusted(in) /\ AtLeast(in, 800) /\ Below(in, 900)
            \/ ~Trusted(in) /\ ~Untrusted(in) /\ AtLeast(in, 900)
<1>1. PICK r \in {"trusted_session", "high_score"} : TrustFired(in) = {r}
  BY Answer, Actions DEF TrustRules
<1>2. in.trust_score = NoScore \/ in.trust_score \in Int
  BY ScoreType
<1>3. ~Malicious(in) /\ ~in.account_locked
  BY <1>1, Fires
<1>4. CASE r = "trusted_session"
  <2>1. Trusted(in) /\ AtLeast(in, 800) /\ "high_score" \notin TrustFired(in)
    BY <1>1, <1>4, Fires
  <2>2. ~AtLeast(in, 900)
    BY <1>3, <2>1, Fires
  <2>3. Below(in, 900)
    BY <1>2, <2>1, <2>2 DEF AtLeast, Below
  <2>4. QED
    BY <1>3, <2>1, <2>3
<1>5. CASE r = "high_score"
  <2>1. /\ AtLeast(in, 900)
        /\ "trusted_session" \notin TrustFired(in) /\ "untrusted_device" \notin TrustFired(in)
    BY <1>1, <1>5, Fires
  <2>2. AtLeast(in, 800) /\ AtLeast(in, 500)
    BY <1>2, <2>1 DEF AtLeast
  <2>3. ~Trusted(in) /\ ~Untrusted(in)
    BY <1>3, <2>1, <2>2, Fires
  <2>4. QED
    BY <1>3, <2>1, <2>3
<1>6. QED
  BY <1>4, <1>5

LEMMA AllowGiven ==
  ASSUME NEW in \in Inputs, ~Malicious(in), ~in.account_locked,
         \/ Trusted(in) /\ AtLeast(in, 800) /\ Below(in, 900)
         \/ ~Trusted(in) /\ ~Untrusted(in) /\ AtLeast(in, 900)
  PROVE  TrustDecision(in) = "ALLOW"
<1>1. in.trust_score = NoScore \/ in.trust_score \in Int
  BY ScoreType
<1>2. {"malicious_ip", "locked"} \cap TrustFired(in) = {}
  BY Fires
<1>3. CASE Trusted(in) /\ AtLeast(in, 800) /\ Below(in, 900)
  <2>1. ~AtLeast(in, 900) /\ ~Below(in, 800) /\ ~Below(in, 300) /\ ~Untrusted(in)
    BY <1>1, <1>3, DeviceType DEF AtLeast, Below
  <2>2. "trusted_session" \in TrustFired(in)
    BY <1>3, Fires
  <2>3. {"high_score", "medium_trust", "untrusted_device", "low_score"} \cap TrustFired(in) = {}
    BY <2>1, Fires
  <2>4. TrustFired(in) = {"trusted_session"}
    BY <1>2, <2>2, <2>3, Fires DEF TrustRules
  <2>5. QED
    BY <2>4, Only, Actions
<1>4. CASE ~Trusted(in) /\ ~Untrusted(in) /\ AtLeast(in, 900)
  <2>1. ~Below(in, 300)
    BY <1>1, <1>4 DEF AtLeast, Below
  <2>2. "high_score" \in TrustFired(in)
    BY <1>4, Fires
  <2>3. {"trusted_session", "medium_trust", "untrusted_device", "low_score"}
          \cap TrustFired(in) = {}
    BY <1>4, <2>1, Fires
  <2>4. TrustFired(in) = {"high_score"}
    BY <1>2, <2>2, <2>3, Fires DEF TrustRules
  <2>5. QED
    BY <2>4, Only, Actions
<1>5. QED
  BY <1>3, <1>4

LEMMA ChallengeNeeds ==
  ASSUME NEW in \in Inputs, TrustDecision(in) = "CHALLENGE"
  PROVE  /\ ~Malicious(in) /\ ~in.account_locked
         /\ \/ Trusted(in) /\ AtLeast(in, 400)
            \/ Untrusted(in) /\ AtLeast(in, 500)
<1>1. PICK r \in {"medium_trust", "untrusted_device"} : TrustFired(in) = {r}
  BY Answer, Actions DEF TrustRules
<1>2. "locked" \notin TrustFired(in)
  BY <1>1
<1>3. QED
  BY <1>1, <1>2, Fires

(* ALLOW is answered exactly to a clean address and an unlocked account    *)
(* with a trusted device and a score from 80 to below 90, or with nothing  *)
(* said of the device and a score of 90 or more: from 90 on a query that   *)
(* carries device_trusted, true or false, makes two rules answer.          *)
THEOREM AllowIsExact == Spec => []AllowedExactly
<1>1. TypeOK => AllowedExactly
  <2> SUFFICES ASSUME TypeOK PROVE AllowedExactly
    OBVIOUS
  <2>1. input \in Inputs
    BY DEF TypeOK
  <2>2. QED
    BY <2>1, AllowNeeds, AllowGiven DEF AllowedExactly
<1>2. QED
  BY <1>1, Typed, PTL

(* A malicious address or a locked account is never answered ALLOW or      *)
(* CHALLENGE.                                                              *)
THEOREM IndicatorsDominate == Spec => []IndicatorsNeverPass
<1>1. IndicatorsNeverPass
  <2> SUFFICES ASSUME Malicious(input) \/ input.account_locked
               PROVE  TrustDecision(input) \in {"DENY", "conflict"}
    BY DEF IndicatorsNeverPass
  <2>1. "malicious_ip" \in TrustFired(input) \/ "locked" \in TrustFired(input)
    BY Fires
  <2>2. QED
    BY <2>1, Answer, Actions
<1>2. QED
  BY <1>1, PTL

LEMMA Stricter ==
  ASSUME NEW in \in Inputs, in.trust_score # NoScore, TrustDecision(in) # "conflict"
  PROVE  Rank(TrustDecision(in)) =< Rank(determine_action(in.trust_score))
<1>1. in.trust_score \in Int
  BY ScoreType
<1> DEFINE ml == determine_action(in.trust_score)
<1>2. /\ Rank("DENY") = 0 /\ Rank("CHALLENGE") = 1 /\ Rank("ALLOW") = 2
  BY DEF Rank
<1>3. ml \in {"DENY", "CHALLENGE", "ALLOW"}
  BY DEF determine_action
<1>4. CASE TrustDecision(in) = "DENY"
  BY <1>2, <1>3, <1>4
<1>5. CASE \E r \in TrustRules : TrustFired(in) = {r} /\ TrustDecision(in) = TrustAction[r]
  <2>1. PICK r \in TrustRules : TrustFired(in) = {r} /\ TrustDecision(in) = TrustAction[r]
    BY <1>5
  <2>2. CASE r \in {"trusted_session", "high_score"}
    <3>1. TrustDecision(in) = "ALLOW"
      BY <2>1, <2>2, Actions
    <3>2. AtLeast(in, 800) \/ AtLeast(in, 900)
      BY <2>1, <2>2, Fires
    <3>3. ml = "ALLOW"
      BY <1>1, <3>2 DEF AtLeast, determine_action
    <3>4. QED
      BY <1>2, <3>1, <3>3
  <2>3. CASE r \in {"medium_trust", "untrusted_device"}
    <3>1. TrustDecision(in) = "CHALLENGE"
      BY <2>1, <2>3, Actions
    <3>2. AtLeast(in, 400) \/ AtLeast(in, 500)
      BY <2>1, <2>3, Fires
    <3>3. ml \in {"CHALLENGE", "ALLOW"}
      BY <1>1, <3>2 DEF AtLeast, determine_action
    <3>4. QED
      BY <1>2, <3>1, <3>3
  <2>4. CASE r \in {"low_score", "malicious_ip", "locked"}
    BY <2>1, <2>4, <1>4, Actions
  <2>5. QED
    BY <2>1, <2>2, <2>3, <2>4 DEF TrustRules
<1>6. QED
  BY <1>4, <1>5, Answer

(* A decided answer of the policy engine is never laxer than what the ML   *)
(* engine recommends for the same score.                                   *)
THEOREM PolicyIsStricter == Spec => []NeverLaxer
<1>1. TypeOK => NeverLaxer
  BY Stricter DEF NeverLaxer, TypeOK
<1>2. QED
  BY <1>1, Typed, PTL
-----------------------------------------------------------------------------
LEMMA Ranks ==
  /\ Rank("DENY") = 0 /\ Rank("CHALLENGE") = 1 /\ Rank("ALLOW") = 2
  /\ \A in : TrustDecision(in) \in {"DENY", "CHALLENGE", "ALLOW", "conflict"}
<1>1. Rank("DENY") = 0 /\ Rank("CHALLENGE") = 1 /\ Rank("ALLOW") = 2
  BY DEF Rank
<1>2. ASSUME NEW in PROVE TrustDecision(in) \in {"DENY", "CHALLENGE", "ALLOW", "conflict"}
  BY Answer, Actions DEF TrustRules
<1>3. QED
  BY <1>1, <1>2

(* Two inputs that differ in their scores only.                            *)
Better(a, b) ==
  /\ a \in Inputs /\ b \in Inputs
  /\ b = [a EXCEPT !.trust_score = b.trust_score]
  /\ AtLeast(a, 0) /\ AtLeast(b, a.trust_score)

LEMMA BetterScore ==
  ASSUME NEW a, NEW b, Better(a, b), NEW n \in Int
  PROVE  /\ AtLeast(a, n) => AtLeast(b, n)
         /\ Below(b, n) => Below(a, n)
BY ScoreType DEF Better, AtLeast, Below

LEMMA BetterSame ==
  ASSUME NEW a, NEW b, Better(a, b)
  PROVE  /\ Trusted(b) <=> Trusted(a)
         /\ Untrusted(b) <=> Untrusted(a)
         /\ b.account_locked = a.account_locked
         /\ Malicious(b) <=> Malicious(a)
BY DEF Better, Inputs, Trusted, Untrusted, Malicious

LEMMA BetterRank ==
  ASSUME NEW a, NEW b, Better(a, b),
         TrustDecision(a) # "conflict", TrustDecision(b) # "conflict"
  PROVE  Rank(TrustDecision(a)) =< Rank(TrustDecision(b))
<1>a. a \in Inputs /\ b \in Inputs
  BY DEF Better
<1>1. CASE TrustDecision(a) = "DENY"
  <2>1. TrustDecision(b) \in {"DENY", "CHALLENGE", "ALLOW"}
    BY Ranks
  <2>2. QED
    BY <1>1, <2>1, Ranks
<1>2. CASE TrustDecision(a) = "CHALLENGE"
  <2>1. /\ ~Malicious(b) /\ ~b.account_locked
        /\ \/ Trusted(b) /\ AtLeast(b, 400)
           \/ Untrusted(b) /\ AtLeast(b, 500)
    BY <1>a, <1>2, ChallengeNeeds, BetterSame, BetterScore
  <2>2. ~Below(b, 300)
    BY <1>a, <2>1, ScoreType DEF AtLeast, Below
  <2>3. {"low_score", "malicious_ip", "locked"} \cap TrustFired(b) = {}
    BY <2>1, <2>2, Fires
  <2>4. TrustFired(b) # {}
    <3>1. CASE Trusted(b)
      <4>1. AtLeast(b, 800) \/ Below(b, 800)
        BY <1>a, <2>1, ScoreType DEF AtLeast, Below
      <4>2. QED
        BY <2>1, <3>1, <4>1, Fires
    <3>2. CASE Untrusted(b)
      BY <2>1, <3>2, Fires, DeviceType
    <3>3. QED
      BY <2>1, <3>1, <3>2
  <2>5. PICK r \in TrustRules : TrustFired(b) = {r} /\ TrustDecision(b) = TrustAction[r]
    BY <2>4, Answer
  <2>6. r \notin {"low_score", "malicious_ip", "locked"}
    BY <2>3, <2>5
  <2>7. TrustDecision(b) \in {"ALLOW", "CHALLENGE"}
    BY <2>5, <2>6, Actions DEF TrustRules
  <2>8. QED
    BY <1>2, <2>7, Ranks
<1>3. CASE TrustDecision(a) = "ALLOW"
  <2>1. /\ ~Malicious(b) /\ ~b.account_locked
        /\ \/ Trusted(b) /\ AtLeast(b, 800)
           \/ ~Trusted(b) /\ ~Untrusted(b) /\ AtLeast(b, 900)
    BY <1>a, <1>3, AllowNeeds, BetterSame, BetterScore
  <2>2. "trusted_session" \in TrustFired(b) \/ "high_score" \in TrustFired(b)
    BY <2>1, Fires
  <2>3. TrustDecision(b) = "ALLOW"
    BY <2>2, Answer, Actions
  <2>4. QED
    BY <1>3, <2>3, Ranks
<1>4. QED
  BY <1>1, <1>2, <1>3, Ranks

(* A better score alone never turns a decided answer into a stricter one,  *)
(* for all scores and whatever the other signals of the session are.       *)
THEOREM BetterIsNotStricter == Spec => ScoreNeverHurts
<1> DEFINE Hurts ==
      /\ AtLeast(input, 0) /\ AtLeast(input', input.trust_score)
      /\ input' = [input EXCEPT !.trust_score = input'.trust_score]
      /\ "conflict" \notin {TrustDecision(input), TrustDecision(input')}
      /\ ~(Rank(TrustDecision(input)) =< Rank(TrustDecision(input')))
<1>1. TypeOK /\ TypeOK' => ~Hurts
  <2> SUFFICES ASSUME TypeOK, TypeOK', Hurts PROVE FALSE
    OBVIOUS
  <2>1. Better(input, input')
    BY DEF Better, TypeOK
  <2>2. QED
    BY <2>1, BetterRank
<1>2. QED
  BY <1>1, Typed, PTL DEF ScoreNeverHurts, Spec
-----------------------------------------------------------------------------
LEMMA ConflictNeedsTwo ==
  ASSUME NEW fired, NEW action, NEW default, default # "conflict",
         \A r \in fired : action[r] # "conflict",
         Evaluate(fired, action, default) = "conflict"
  PROVE  \E r, q \in fired : r # q
<1> SUFFICES ASSUME \A r, q \in fired : r = q PROVE FALSE
  OBVIOUS
<1>1. PICK r \in fired : TRUE
  BY DEF Evaluate
<1>2. fired = {r} /\ (CHOOSE q \in fired : TRUE) = r
  BY <1>1
<1>3. Evaluate(fired, action, default) = action[r]
  BY <1>1, <1>2 DEF Evaluate
<1>4. QED
  BY <1>1, <1>3

(* The fallback rules always answer, and the IoT rules fail to in one case *)
(* only, for every score.                                                  *)
THEOREM ConflictsAreKnown == Spec => []OnlyKnownConflicts
<1>1. FallbackDecision(input) # "conflict"
  <2> SUFFICES ASSUME FallbackDecision(input) = "conflict" PROVE FALSE
    OBVIOUS
  <2>1. \A r \in FallbackFired(input) : FallbackAction[r] # "conflict"
    BY DEF FallbackFired, FallbackAction
  <2>2. PICK r, q \in FallbackFired(input) : r # q
    BY <2>1, ConflictNeedsTwo DEF FallbackDecision
  <2>3. /\ r \in {"closed", "open_known", "open_unknown"}
        /\ q \in {"closed", "open_known", "open_unknown"}
        /\ FallbackApplies(input)[r] /\ FallbackApplies(input)[q]
    BY <2>2 DEF FallbackFired, FallbackAction
  <2>4. /\ FallbackApplies(input)["closed"] => input.scoring = "closed"
        /\ FallbackApplies(input)["open_known"] => input.scoring = "open" /\ Trusted(input)
        /\ FallbackApplies(input)["open_unknown"] =>
             input.scoring = "open" /\ Untrusted(input)
    BY DEF FallbackApplies
  <2>5. QED
    BY <2>2, <2>3, <2>4, DeviceType
<1>2. ASSUME TypeOK, IotDecision(input) = "conflict"
      PROVE  Below(input, 250) /\ input.anomaly_type = "network_behavior"
  <2>1. \A r \in IotFired(input) : IotAction[r] # "conflict"
    BY DEF IotFired, IotAction
  <2>2. PICK r, q \in IotFired(input) : r # q
    BY <1>2, <2>1, ConflictNeedsTwo DEF IotDecision
  <2>3. IotApplies(input)[r] /\ IotApplies(input)[q]
        /\ r \in {"normal", "quarantine", "critical", "medium"}
        /\ q \in {"normal", "quarantine", "critical", "medium"}
    BY <2>2 DEF IotFired, IotAction
  <2>4. ~(AtLeast(input, 700) /\ Below(input, 700)) /\ ~(AtLeast(input, 700) /\ Below(input, 250))
        /\ ~(AtLeast(input, 250) /\ Below(input, 250))
    BY <1>2, ScoreType DEF TypeOK, AtLeast, Below
  <2>5. /\ IotApplies(input)["normal"] => AtLeast(input, 700)
        /\ IotApplies(input)["quarantine"] =>
             Below(input, 250) /\ input.anomaly_type = "network_behavior"
        /\ IotApplies(input)["critical"] => Below(input, 250)
        /\ IotApplies(input)["medium"] => AtLeast(input, 250) /\ Below(input, 700)
    BY DEF IotApplies
  <2>6. QED
    BY <2>2, <2>3, <2>4, <2>5
<1>3. TypeOK => OnlyKnownConflicts
  BY <1>1, <1>2 DEF OnlyKnownConflicts
<1>4. QED
  BY <1>3, Typed, PTL
-----------------------------------------------------------------------------
(* What package ztna answers when neither the address nor the account      *)
(* speaks against the request.                                             *)

(* No two rules answer below a score of 90.                                *)
LEMMA DecidedBelow90 ==
  ASSUME NEW in \in Inputs, ~Malicious(in), ~in.account_locked, ~AtLeast(in, 900)
  PROVE  TrustDecision(in) # "conflict"
<1> SUFFICES ASSUME TrustDecision(in) = "conflict" PROVE FALSE
  OBVIOUS
<1>1. \A r \in TrustFired(in) : TrustAction[r] # "conflict"
  BY Fires, Actions DEF TrustRules
<1>2. PICK r, q \in TrustFired(in) : r # q
  BY <1>1, ConflictNeedsTwo DEF TrustDecision
<1>3. {r, q} \subseteq {"trusted_session", "medium_trust", "untrusted_device", "low_score"}
  BY <1>2, Fires DEF TrustRules
<1>4. in.trust_score = NoScore \/ in.trust_score \in Int
  BY ScoreType
<1>5. /\ ~(AtLeast(in, 800) /\ Below(in, 800)) /\ ~(AtLeast(in, 800) /\ Below(in, 300))
      /\ ~(AtLeast(in, 400) /\ Below(in, 300)) /\ ~(AtLeast(in, 500) /\ Below(in, 300))
  BY <1>4 DEF AtLeast, Below
<1>6. QED
  BY <1>2, <1>3, <1>5, Fires, DeviceType

LEMMA DeniedTrusted ==
  ASSUME NEW in \in Inputs, ~Malicious(in), ~in.account_locked,
         Trusted(in), AtLeast(in, 400)
  PROVE  TrustDecision(in) # "DENY"
<1>1. in.trust_score \in Int
  BY ScoreType DEF AtLeast
<1>2. AtLeast(in, 800) \/ Below(in, 800)
  BY <1>1, ScoreType DEF AtLeast, Below
<1>3. TrustFired(in) # {}
  BY <1>2, Fires
<1>4. ~Below(in, 300)
  BY <1>1 DEF AtLeast, Below
<1>5. {"low_score", "malicious_ip", "locked"} \cap TrustFired(in) = {}
  BY <1>4, Fires
<1>6. ASSUME NEW r \in TrustRules, TrustFired(in) = {r} PROVE TrustAction[r] # "DENY"
  <2>1. r \notin {"low_score", "malicious_ip", "locked"}
    BY <1>5, <1>6
  <2>2. QED
    BY <2>1, Actions DEF TrustRules
<1>7. QED
  BY <1>3, <1>6, Answer

LEMMA UnscoredIsDenied ==
  ASSUME NEW in \in Inputs, ~Malicious(in), ~in.account_locked, in.trust_score = NoScore
  PROVE  TrustDecision(in) = "DENY"
<1>1. TrustFired(in) = {}
  BY Fires DEF TrustRules, AtLeast, Below
<1>2. QED
  BY <1>1 DEF TrustDecision, Evaluate
=============================================================================
