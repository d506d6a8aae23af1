---------------------------- MODULE ServiceProofs -----------------------------
(***************************************************************************)
(* The services as they start, as they are called and as they are watched. *)
(*  - The files the ML engine's workers start from (ModelStore), for any   *)
(*    set of workers and any number of crashes.                            *)
(*  - What the SDK answers while the engine works or fails (ZtnaSdk), for  *)
(*    any scores.                                                          *)
(*  - The age of what the health cards of the dashboard show (Health), for *)
(*    every set of services, all time limits and any number of overlapping *)
(*    polls.                                                               *)
(* The three share no state; each theorem is about the specification of    *)
(* one of them.                                                            *)
(***************************************************************************)
EXTENDS ModelStore, ZtnaSdk, Health, FiniteSetTheorems, SequenceTheorems, TLAPS

(***************************************************************************)
(* ModelStore                                                              *)
(***************************************************************************)
TornModels == {m \in Models : Torn(m)}

LEMMA StoreTypeInit == StoreInit => StoreTypeOK
BY ModelStoreAssumption DEF StoreInit, StoreTypeOK, PCs, Models

LEMMA StoreTypeStep == StoreTypeOK /\ [StoreNext]_storeVars => StoreTypeOK'
<1> SUFFICES ASSUME StoreTypeOK, [StoreNext]_storeVars PROVE StoreTypeOK'
  OBVIOUS
<1> USE DEF StoreTypeOK, PCs, Goto
<1>1. ASSUME NEW w \in Workers, NextModel(w)
      PROVE  pc' \in [Workers -> PCs] /\ at' \in [Workers -> Models]
  BY <1>1 DEF NextModel, Models
<1>2. ASSUME NEW w \in Workers, CheckFile(w) PROVE StoreTypeOK'
  BY <1>2 DEF CheckFile
<1>3. ASSUME NEW w \in Workers, Load(w) PROVE StoreTypeOK'
  BY <1>1, <1>3 DEF Load
<1>4. ASSUME NEW w \in Workers, Train(w) PROVE StoreTypeOK'
  <2>1. clean' \in [Workers -> BOOLEAN]
    BY <1>4, Zenon DEF Train
  <2>2. QED
    BY <1>4, <2>1 DEF Train
<1>5. ASSUME NEW w \in Workers, Dump(w) PROVE StoreTypeOK'
  BY <1>1, <1>5 DEF Dump
<1>6. ASSUME NEW w \in Workers, Restart(w) PROVE StoreTypeOK'
  BY <1>6 DEF Restart, Models
<1>7. ASSUME NEW w \in Workers, Kill(w) PROVE StoreTypeOK'
  BY <1>7, ModelStoreAssumption DEF Kill
<1>8. CASE UNCHANGED storeVars
  BY <1>8 DEF storeVars
<1>9. QED
  BY <1>2, <1>3, <1>4, <1>5, <1>6, <1>7, <1>8 DEF StoreNext, Run

(* Files, places and flags of the workers stay within their types.         *)
THEOREM StoreTypeCorrect == StoreSpec => []StoreTypeOK
BY StoreTypeInit, StoreTypeStep, PTL DEF StoreSpec
-----------------------------------------------------------------------------
(* No step of a worker that is not killed leaves a file torn that was not. *)
LEMMA RunTearsNone ==
  ASSUME StoreTypeOK, NEW w \in Workers, Run(w)
  PROVE  \A m \in Models : Torn(m)' => Torn(m)
<1> SUFFICES ASSUME NEW m \in Models, Torn(m)' PROVE Torn(m)
  OBVIOUS
<1> USE DEF StoreTypeOK, Torn, Goto
<1>1. CASE CheckFile(w)
  BY <1>1 DEF CheckFile
<1>2. CASE Load(w)
  BY <1>2 DEF Load, NextModel
<1>3. CASE Train(w)
  <2>1. m # at[w]
    BY <1>3 DEF Train
  <2>2. file[m] = "partial"
    BY <1>3, <2>1 DEF Train
  <2>3. ASSUME NEW v \in Workers, pc[v] = "dump", at[v] = m, clean[v] PROVE FALSE
    <3>1. v # w
      BY <1>3, <2>3 DEF Train
    <3>2. pc'[v] = "dump" /\ at'[v] = m
      BY <1>3, <2>3, <3>1 DEF Train
    <3>3. clean'[v]
      BY <1>3, <2>1, <2>3 DEF Train
    <3>4. QED
      BY <3>2, <3>3
  <2>4. QED
    BY <2>2, <2>3
<1>4. CASE Dump(w)
  <2>1. file[m] = "partial" /\ ~(m = at[w] /\ clean[w])
    BY <1>4 DEF Dump
  <2>2. ASSUME NEW v \in Workers, pc[v] = "dump", at[v] = m, clean[v] PROVE FALSE
    <3>1. v # w
      BY <2>1, <2>2
    <3>2. pc'[v] = "dump" /\ at'[v] = m /\ clean'[v]
      BY <1>4, <2>2, <3>1 DEF Dump, NextModel
    <3>3. QED
      BY <3>2
  <2>3. QED
    BY <2>1, <2>2
<1>5. CASE Restart(w)
  BY <1>5 DEF Restart
<1>6. QED
  BY <1>1, <1>2, <1>3, <1>4, <1>5 DEF Run

(* A worker that is killed leaves at most the file it was at.              *)
LEMMA KillTearsOne ==
  ASSUME StoreTypeOK, NEW w \in Workers, Kill(w)
  PROVE  \A m \in Models : Torn(m)' => Torn(m) \/ m = at[w]
BY DEF Kill, Goto, Torn, StoreTypeOK

LEMMA TornFinite == IsFiniteSet(TornModels) /\ Cardinality(TornModels) \in Nat
<1>1. IsFiniteSet(Models)
  <2>1. IsFiniteSet({1})
    BY FS_Singleton
  <2>2. Models = {1} \cup {2}
    BY DEF Models
  <2>3. QED
    BY <2>1, <2>2, FS_AddElement
<1>2. TornModels \subseteq Models
  BY DEF TornModels
<1>3. QED
  BY <1>1, <1>2, FS_Subset, FS_CardinalityType

(* The number of torn files never exceeds the number of crashes, however   *)
(* many workers train and write the same model at the same time            *)
(* (main.py, isolation_forest.py and xgboost_model.py).               *)
THEOREM CrashesTear == StoreSpec => []TornOnlyByCrash
<1> DEFINE TornInv == Cardinality(TornModels) =< crashes
<1>1. StoreInit => TornInv
  <2> SUFFICES ASSUME StoreInit PROVE TornInv
    OBVIOUS
  <2>1. TornModels = {}
    BY DEF StoreInit, TornModels, Torn
  <2>2. QED
    BY <2>1, FS_EmptySet DEF StoreInit
<1>2. StoreTypeOK /\ StoreTypeOK' /\ TornInv /\ [StoreNext]_storeVars => TornInv'
  <2> SUFFICES ASSUME StoreTypeOK, StoreTypeOK', TornInv, [StoreNext]_storeVars PROVE TornInv'
    OBVIOUS
  <2>1. crashes \in Int /\ crashes' \in Int
    BY DEF StoreTypeOK
  <2>2. TornModels' = {m \in Models : Torn(m)'}
    BY DEF TornModels
  <2>3. ASSUME NEW w \in Workers, Run(w) PROVE TornInv'
    <3>1. TornModels' \subseteq TornModels
      BY <2>2, <2>3, RunTearsNone DEF TornModels
    <3>2. Cardinality(TornModels') =< Cardinality(TornModels) /\ Cardinality(TornModels') \in Nat
      BY <3>1, TornFinite, FS_Subset, FS_CardinalityType
    <3>3. crashes' = crashes
      BY <2>3 DEF Run, CheckFile, Load, Train, Dump, Restart
    <3>4. QED
      BY <2>1, <3>2, <3>3, TornFinite
  <2>4. ASSUME NEW w \in Workers, Kill(w) PROVE TornInv'
    <3> DEFINE Bound == TornModels \cup {at[w]}
    <3>1. TornModels' \subseteq Bound
      BY <2>2, <2>4, KillTearsOne DEF TornModels
    <3>2. IsFiniteSet(Bound) /\ Cardinality(Bound) =< Cardinality(TornModels) + 1
      BY TornFinite, FS_AddElement
    <3> HIDE DEF Bound
    <3>3. /\ Cardinality(TornModels') =< Cardinality(Bound)
          /\ Cardinality(TornModels') \in Nat /\ Cardinality(Bound) \in Nat
      BY <3>1, <3>2, FS_Subset, FS_CardinalityType
    <3>4. crashes' = crashes + 1
      BY <2>4 DEF Kill
    <3>5. QED
      BY <2>1, <3>2, <3>3, <3>4, TornFinite
  <2>5. CASE UNCHANGED storeVars
    BY <2>5 DEF storeVars, TornModels, Torn
  <2>6. QED
    BY <2>3, <2>4, <2>5 DEF StoreNext
<1>3. TornInv <=> TornOnlyByCrash
  BY DEF TornOnlyByCrash, TornModels
<1>4. QED
  BY <1>1, <1>2, <1>3, StoreTypeCorrect, PTL DEF StoreSpec
-----------------------------------------------------------------------------
(***************************************************************************)
(* ZtnaSdk                                                                 *)
(***************************************************************************)

(* The score and the action that are attached say how the fetch ended.     *)
Attached ==
  /\ fetch = "scored" =>
       ztna.score \in Scores /\ ztna.action = determine_action(ztna.score)
  /\ fetch = "unscored" => ztna.score = 500 /\ ztna.action = "CHALLENGE"
  /\ fetch = "failed" /\ config.failMode = "open" =>
       ztna.score = 750 /\ ztna.action = "ALLOW"
  /\ fetch = "failed" /\ config.failMode # "open" =>
       ztna.score = 500 /\ ztna.action = "CHALLENGE"

(* A request that is checked and has come to ztnaProtect has had an answer *)
(* of the engine, or done without one; there is no way back.               *)
SdkInv ==
  /\ SdkTypeOK /\ Attached /\ AnswerJustified
  /\ step # "done" => answer = "none"
  /\ step = "arrive" => ztna = NoZtna
  /\ step = "health" => route.kind = "health"
  /\ step \in {"arrive", "fetch"} => fetch = "none"
  /\ step = "body" => fetch \in {"none", "dropped"}
  /\ step = "protect" /\ route.kind # "skip" /\ config.enabled =>
       fetch \in {"scored", "unscored", "failed"} /\ ztna # NoZtna

LEMMA RouteType ==
  ASSUME route \in Routes
  PROVE  route.minTrustScore \in Nat /\ route.challengeUrl \in BOOLEAN
<1> DEFINE Rest == [kind : {"protected"}, minTrustScore : {0, 400, 750, 751},
                    challengeUrl : BOOLEAN]
<1>1. ASSUME NEW k, NEW m \in Nat, route = Route(k, m, FALSE)
      PROVE  route.minTrustScore \in Nat /\ route.challengeUrl \in BOOLEAN
  BY <1>1 DEF Route
<1>2. 0 \in Nat /\ 800 \in Nat /\ 900 \in Nat
  OBVIOUS
<1>3. CASE route \in Rest
  BY <1>3
<1>4. route \in ExampleApp \cup {Route("skip", 0, FALSE)} \cup Rest
  BY DEF Routes
<1> HIDE DEF Rest
<1>5. route \in ExampleApp \/ route = Route("skip", 0, FALSE) \/ route \in Rest
  BY <1>4
<1>6. CASE route \in ExampleApp
  <2>1. \/ route = Route("plain", 0, FALSE)
        \/ route = Route("protected", 800, FALSE)
        \/ route = Route("protected", 900, FALSE)
        \/ route = Route("health", 0, FALSE)
    BY <1>6, ZenonT(40) DEF ExampleApp
  <2>2. CASE \/ route = Route("plain", 0, FALSE)
             \/ route = Route("health", 0, FALSE)
    BY <1>1, <1>2, <2>2, ZenonT(40)
  <2>3. CASE \/ route = Route("protected", 800, FALSE)
             \/ route = Route("protected", 900, FALSE)
    BY <1>1, <1>2, <2>3, ZenonT(40)
  <2>4. QED
    BY <2>1, <2>2, <2>3, ZenonT(40)
<1>7. QED
  BY <1>1, <1>2, <1>3, <1>5, <1>6, Zenon

LEMMA ActionCases ==
  ASSUME NEW s \in Int
  PROVE  /\ determine_action(s) \in {"ALLOW", "CHALLENGE", "DENY"}
         /\ determine_action(s) = "ALLOW" <=> s >= 800
         /\ determine_action(s) = "DENY" <=> s < 400
BY DEF determine_action

(* The decision on a protected route is justified by what is attached.     *)
LEMMA ProtectJustified ==
  ASSUME SdkInv, ztnaProtect
  PROVE  AnswerJustified'
<1> SUFFICES ASSUME config.enabled, route.kind = "protected" PROVE AnswerJustified'
  BY DEF ztnaProtect, AnswerJustified
<1> DEFINE min == route.minTrustScore
           s == ztna.score
           open == fetch = "failed" /\ config.failMode = "open"
<1>1. /\ fetch \in {"scored", "unscored", "failed"}
      /\ config' = config /\ route' = route /\ fetch' = fetch /\ ztna' = ztna
      /\ answer' = IF ztna.action = "ALLOW" /\ s >= MinScore THEN "handler"
                   ELSE IF ztna.action # "CHALLENGE" THEN "denied"
                   ELSE IF route.challengeUrl THEN "redirect" ELSE "challenge"
  BY DEF SdkInv, ztnaProtect
<1>2. min \in Nat /\ route.challengeUrl \in BOOLEAN /\ s \in Int
  <2>1. \A n \in Scores : n \in Int
    BY SdkAssumption
  <2>2. s \in Scores \/ s = 500 \/ s = 750
    BY <1>1 DEF SdkInv, Attached
  <2>3. s \in Int
    <3>1. CASE s \in Scores
      BY <2>1, <3>1, ZenonT(40)
    <3>2. CASE s = 500 \/ s = 750
      <4> HIDE DEF s
      <4>1. QED
        BY <3>2
    <3>3. QED
      BY <2>2, <3>1, <3>2
  <2>4. min \in Nat /\ route.challengeUrl \in BOOLEAN
    BY RouteType DEF SdkInv, SdkTypeOK
  <2>5. QED
    BY <2>3, <2>4
<1>3. MinScore \in Nat /\ MinScore = IF min = 0 THEN 400 ELSE min
  BY <1>2 DEF MinScore
<1> HIDE DEF min, s
<1>4. CASE fetch = "scored"
  <2>1. /\ ztna.action \in {"ALLOW", "CHALLENGE", "DENY"}
        /\ ztna.action = "ALLOW" <=> s >= 800
        /\ ztna.action = "DENY" <=> s < 400
    BY <1>2, <1>4, ActionCases DEF SdkInv, Attached, s
  <2>2. answer' = "handler" => s >= 800 /\ s >= min
    BY <1>1, <1>2, <1>3, <2>1
  <2>3. answer' = "denied" => s < 400 \/ s \in 800..(min - 1)
    BY <1>1, <1>2, <1>3, <2>1
  <2>4. answer' \in {"challenge", "redirect"} =>
          s \in 400..799 /\ (answer' = "redirect" <=> route.challengeUrl)
    BY <1>1, <1>2, <2>1
  <2>5. QED
    BY <1>1, <1>4, <2>2, <2>3, <2>4 DEF AnswerJustified, min, s
<1>5. CASE open
  <2>1. s = 750 /\ ztna.action = "ALLOW"
    BY <1>5 DEF SdkInv, Attached, s
  <2>2. \/ answer' = "handler" /\ min =< 750
        \/ answer' = "denied" /\ min > 750
    BY <1>1, <1>2, <1>3, <2>1
  <2>3. QED
    BY <1>1, <1>5, <2>2 DEF AnswerJustified, min
<1>6. CASE fetch # "scored" /\ ~open
  <2>1. ztna.action = "CHALLENGE"
    BY <1>1, <1>6 DEF SdkInv, Attached
  <2>2. answer' = IF route.challengeUrl THEN "redirect" ELSE "challenge"
    BY <1>1, <2>1
  <2>3. QED
    BY <1>1, <1>2, <1>6, <2>2 DEF AnswerJustified
<1>7. QED
  BY <1>4, <1>5, <1>6

LEMMA SdkInvInit == SdkInit => SdkInv
<1> SUFFICES ASSUME SdkInit PROVE SdkInv
  OBVIOUS
<1>1. SdkTypeOK
  BY DEF SdkInit, SdkTypeOK, NoZtna
<1>2. QED
  BY <1>1 DEF SdkInit, SdkInv, Attached, AnswerJustified

(* Any score and action that are attached are within the types.            *)
LEMMA AttachedType ==
  ASSUME NEW s \in Scores
  PROVE  /\ s \in Int
         /\ determine_action(s) \in {"ALLOW", "CHALLENGE", "DENY"}
<1>1. s \in Int
  BY SdkAssumption
<1>2. QED
  BY <1>1, ActionCases

LEMMA SdkInvStep == SdkInv /\ [SdkNext]_sdkVars => SdkInv'
<1> SUFFICES ASSUME SdkInv, [SdkNext]_sdkVars PROVE SdkInv'
  OBVIOUS
<1> USE DEF SdkInv
<1>1. ASSUME fetch = "none",
             Scored \/ Unscored \/ FetchFails
      PROVE  SdkInv'
  <2>1. config' = config /\ route' = route /\ report' = report /\ answer' = answer
    BY <1>1 DEF Scored, Unscored, FetchFails
  <2>2. answer = "none" /\ step' = "protect" /\ fetch' \in {"scored", "unscored", "failed"}
    BY <1>1 DEF Scored, Unscored, FetchFails
  <2>3. CASE Scored
    <3>1. PICK s \in Scores :
            ztna' = [score |-> s, action |-> determine_action(s), mode |-> "normal"]
      BY <2>3 DEF Scored
    <3>2. fetch' = "scored"
      BY <2>3 DEF Scored
    <3>3. SdkTypeOK'
      BY <2>1, <2>2, <3>1, AttachedType DEF SdkTypeOK
    <3>4. Attached' /\ ztna' # NoZtna
      BY <3>1, <3>2 DEF Attached, NoZtna
    <3>5. QED
      BY <2>1, <2>2, <3>2, <3>3, <3>4 DEF AnswerJustified
  <2>4. CASE Unscored \/ FetchFails
    <3>1. /\ fetch' \in {"unscored", "failed"}
          /\ fetch' = "failed" /\ config.failMode = "open" =>
               ztna' = [score |-> 750, action |-> "ALLOW", mode |-> "fallback"]
          /\ fetch' = "failed" /\ config.failMode # "open" =>
               ztna' = [score |-> 500, action |-> "CHALLENGE", mode |-> "fallback"]
          /\ fetch' = "unscored" =>
               ztna' = [score |-> 500, action |-> "CHALLENGE", mode |-> "error"]
      BY <2>4 DEF Unscored, FetchFails
    <3>2. SdkTypeOK'
      BY <2>1, <2>2, <3>1 DEF SdkTypeOK
    <3>3. Attached' /\ ztna' # NoZtna
      BY <2>1, <3>1 DEF Attached, NoZtna
    <3>4. QED
      BY <2>1, <2>2, <3>2, <3>3 DEF AnswerJustified
  <2>5. QED
    BY <1>1, <2>3, <2>4
<1>2. CASE ztnaProtect
  <2>1. AnswerJustified'
    BY <1>2, ProtectJustified
  <2>2. SdkTypeOK'
    BY <1>2 DEF ztnaProtect, SdkTypeOK
  <2>3. QED
    BY <1>2, <2>1, <2>2 DEF ztnaProtect, Attached
<1>3. CASE PassThrough
  <2>1. route.kind # "protected" \/ ~config.enabled
    BY <1>3 DEF PassThrough
  <2>2. SdkTypeOK'
    BY <1>3 DEF PassThrough, SdkTypeOK
  <2>3. QED
    BY <1>3, <2>1, <2>2 DEF PassThrough, AnswerJustified, Attached
<1>4. CASE ztnaMiddleware
  BY <1>4 DEF ztnaMiddleware, SdkTypeOK, Attached, AnswerJustified
<1>5. CASE ResponseHead
  BY <1>5 DEF ResponseHead, SdkTypeOK, Attached, AnswerJustified
<1>6. CASE Dropped
  BY <1>6 DEF Dropped, SdkTypeOK, Attached, AnswerJustified
<1>7. CASE checkHealth
  BY <1>7 DEF checkHealth, SdkTypeOK, Attached, AnswerJustified
<1>8. ASSUME NEW s \in Checked,
             NEW status \in {"healthy", "unhealthy", "unreachable", "dropped"},
             Reported(s, status)
      PROVE  SdkInv'
  BY <1>8 DEF Reported, SdkTypeOK, Attached, AnswerJustified
<1>9. CASE HealthReport
  BY <1>9 DEF HealthReport, SdkTypeOK, Attached, AnswerJustified
<1>10. CASE UNCHANGED sdkVars
  BY <1>10 DEF sdkVars, SdkTypeOK, Attached, AnswerJustified
<1>11. QED
  BY <1>1, <1>2, <1>3, <1>4, <1>5, <1>6, <1>7, <1>8, <1>9, <1>10
     DEF SdkNext, HealthAnswered, HealthFails, HealthDropped

(* Whatever the engine does, an answer on a protected route has its reason *)
(* in the score that was given, or in the fail mode (ztna-sdk.js).         *)
THEOREM SdkAnswersJustified == SdkSpec => []AnswerJustified
<1>1. SdkInv => AnswerJustified
  BY DEF SdkInv
<1>2. QED
  BY <1>1, SdkInvInit, SdkInvStep, PTL DEF SdkSpec

(* Where the engine never gives 80 points, as with the readings of         *)
(* NoneIsAllowed in DecisionProofs, a protected route of an enabled SDK    *)
(* lets a request through only if the engine failed to answer for it and   *)
(* the mode is fail-open: a working engine lets nobody in.                 *)
THEOREM OnlyFailuresPass ==
  ASSUME \A s \in Scores : s < 800
  PROVE  SdkSpec => [](route.kind = "protected" /\ config.enabled /\ answer = "handler" =>
                         fetch = "failed" /\ config.failMode = "open")
<1>1. ASSUME SdkInv, route.kind = "protected", config.enabled, answer = "handler"
      PROVE  fetch = "failed" /\ config.failMode = "open"
  <2> SUFFICES ASSUME fetch = "scored", ztna.score >= 800 PROVE FALSE
    BY <1>1 DEF SdkInv, AnswerJustified
  <2>1. ztna.score \in Scores
    BY <1>1 DEF SdkInv, Attached
  <2>2. ztna.score \in Int
    BY <2>1, AttachedType, ZenonT(40)
  <2>3. ztna.score < 800
    BY <2>1, ZenonT(40)
  <2>4. QED
    BY <2>2, <2>3
<1>2. QED
  BY <1>1, SdkInvInit, SdkInvStep, PTL DEF SdkSpec
-----------------------------------------------------------------------------
(***************************************************************************)
(* Health                                                                  *)
(***************************************************************************)

(* Ticks since the interval, or the opening of the page, started a poll.   *)
elapsed == Interval - timer

(* A poll that the Refresh button did not start is under way.              *)
Pending == \E i \in DOMAIN polls : ~polls[i].manual

(* The latest poll of the interval is the only one under way.  Until it is *)
(* in, the page may show what it showed when that poll was started; after  *)
(* that, only readings of polls that were under way with it.               *)
RecentInv ==
  mounted =>
    /\ age =< elapsed + Timeout + Interval
    /\ ~Pending => age =< elapsed + Timeout
    /\ (\E s \in Services : services[s] = "checking") =>
         \E i \in DOMAIN polls : polls[i].age = age
    /\ \A i \in DOMAIN polls : ~polls[i].manual => polls[i].age = elapsed
    /\ ~manual => age >= elapsed
-----------------------------------------------------------------------------
LEMMA Limits ==
  /\ Interval \in Nat /\ Timeout \in Nat /\ Timeout >= 1 /\ Timeout < Interval
  /\ MaxAge = Interval + 2 * Timeout /\ MaxAge \in Nat
BY HealthAssumption DEF MaxAge

(* A reading that is no older than the deadline is recent enough.          *)
LEMMA Young ==
  \A a, e \in Nat : a =< Timeout => a =< e + Timeout /\ a =< e + Timeout + Interval
BY Limits

LEMMA RemoveOne ==
  ASSUME NEW S, NEW s \in Seq(S), NEW i \in DOMAIN s
  PROVE  /\ RemoveAt(s, i) \in Seq(S)
         /\ \A j \in DOMAIN RemoveAt(s, i) : \E k \in DOMAIN s : RemoveAt(s, i)[j] = s[k]
<1> DEFINE front == SubSeq(s, 1, i - 1)
           back == SubSeq(s, i + 1, Len(s))
<1>1. Len(s) \in Nat /\ i \in 1..Len(s) /\ \A j \in 1..Len(s) : s[j] \in S
  BY LenProperties, ElementOfSeq
<1>2. /\ front \in Seq(S) /\ Len(front) = i - 1
      /\ \A j \in 1..(i - 1) : front[j] = s[j]
  <2>1. 1 \in Int /\ i - 1 \in Int /\ \A j \in 1..(i - 1) : s[j] \in S
    BY <1>1
  <2>2. /\ front \in Seq(S)
        /\ Len(front) = IF 1 =< i - 1 THEN (i - 1) - 1 + 1 ELSE 0
        /\ \A j \in 1..((i - 1) - 1 + 1) : front[j] = s[1 + j - 1]
    BY <2>1, SubSeqProperties
  <2>3. QED
    BY <1>1, <2>2
<1>3. /\ back \in Seq(S) /\ Len(back) = Len(s) - i
      /\ \A j \in 1..(Len(s) - i) : back[j] = s[i + j]
  <2>1. i + 1 \in Int /\ Len(s) \in Int /\ \A j \in (i + 1)..Len(s) : s[j] \in S
    BY <1>1
  <2>2. /\ back \in Seq(S)
        /\ Len(back) = IF i + 1 =< Len(s) THEN Len(s) - (i + 1) + 1 ELSE 0
        /\ \A j \in 1..(Len(s) - (i + 1) + 1) : back[j] = s[i + 1 + j - 1]
    BY <2>1, SubSeqProperties
  <2>3. QED
    BY <1>1, <2>2
<1> HIDE DEF front, back
<1>4. /\ front \o back \in Seq(S)
      /\ Len(front \o back) = Len(front) + Len(back)
      /\ \A j \in 1..(Len(front) + Len(back)) :
           (front \o back)[j] = IF j =< Len(front) THEN front[j] ELSE back[j - Len(front)]
  BY <1>2, <1>3, ConcatProperties
<1>5. RemoveAt(s, i) = front \o back
  BY DEF RemoveAt, front, back
<1>6. ASSUME NEW j \in DOMAIN (front \o back)
      PROVE  \E k \in DOMAIN s : (front \o back)[j] = s[k]
  <2>1. j \in 1..(Len(s) - 1)
    BY <1>1, <1>2, <1>3, <1>4, LenProperties
  <2>2. CASE j =< i - 1
    BY <1>1, <1>2, <1>3, <1>4, <2>1, <2>2, SMTT(40)
  <2>3. CASE j > i - 1
    <3>1. j - Len(front) \in 1..(Len(s) - i) /\ i + (j - Len(front)) = j + 1
      BY <1>1, <1>2, <2>1, <2>3
    <3>2. (front \o back)[j] = back[j - Len(front)]
      BY <1>1, <1>2, <1>3, <1>4, <2>1, <2>3, SMTT(40)
    <3>3. (front \o back)[j] = s[j + 1] /\ j + 1 \in 1..Len(s)
      BY <1>1, <1>3, <2>1, <3>1, <3>2, SMTT(40)
    <3>4. QED
      BY <3>3, <1>1
  <2>4. QED
    BY <1>1, <2>1, <2>2, <2>3
<1>7. QED
  BY <1>4, <1>5, <1>6

LEMMA OnePoll ==
  ASSUME TypeOK, NEW i \in DOMAIN polls
  PROVE  polls[i] \in Polls
BY DEF TypeOK
-----------------------------------------------------------------------------
(* A request that is done leaves its poll open, or is the last one of it.  *)
Waits(i) ==
  /\ polls' \in Seq(Polls) /\ DOMAIN polls' = DOMAIN polls
  /\ \A j \in DOMAIN polls : polls'[j].age = polls[j].age /\ polls'[j].manual = polls[j].manual
  /\ UNCHANGED <<services, age, manual>>

Ends(i) ==
  /\ polls' = RemoveAt(polls, i)
  /\ services' \in [Services -> Statuses]
  /\ age' = polls[i].age /\ manual' = polls[i].manual

LEMMA SettleCases ==
  ASSUME TypeOK, NEW i \in DOMAIN polls, NEW s \in Services,
         TimedOut(i, s) \/ \E a \in Answers : Answered(i, s, a)
  PROVE  (Waits(i) \/ Ends(i)) /\ UNCHANGED <<mounted, timer>>
<1>1. PICK v \in Statuses : Settle(i, s, v)
  BY DEF TimedOut, Answered, Verdict, Statuses
<1> DEFINE got == [polls[i].got EXCEPT ![s] = v]
<1>2. polls[i] \in Polls /\ polls[i].got \in [Services -> Statuses \cup {"waiting"}]
  BY OnePoll DEF Polls
<1>3. got \in [Services -> Statuses \cup {"waiting"}]
  BY <1>2
<1> HIDE DEF got
<1>4. CASE \E t \in Services : got[t] = "waiting"
  <2> DEFINE q == [polls[i] EXCEPT !.got = got]
  <2>1. q \in Polls /\ q.age = polls[i].age /\ q.manual = polls[i].manual
    BY <1>2, <1>3 DEF Polls
  <2>2. polls' = [polls EXCEPT ![i] = q]
    BY <1>1, <1>4 DEF Settle, got
  <2> HIDE DEF q
  <2>3. Waits(i)
    BY <1>1, <1>4, <2>1, <2>2 DEF Settle, Waits, got, TypeOK
  <2>4. QED
    BY <1>1, <2>3 DEF Settle
<1>5. CASE ~\E t \in Services : got[t] = "waiting"
  <2>1. got \in [Services -> Statuses]
    BY <1>3, <1>5
  <2>2. QED
    BY <1>1, <1>5, <2>1 DEF Settle, Ends, got
<1>6. QED
  BY <1>4, <1>5

LEMMA PollType == \A m \in BOOLEAN : Poll(m) \in Polls
BY Limits DEF Poll, Polls

LEMMA OneMore ==
  ASSUME TypeOK, NEW p \in Polls, polls' = Append(polls, p)
  PROVE  /\ DOMAIN polls' = DOMAIN polls \cup {Len(polls) + 1}
         /\ Len(polls) + 1 \notin DOMAIN polls
         /\ \A i \in DOMAIN polls : polls'[i] = polls[i]
         /\ polls'[Len(polls) + 1] = p
<1>1. Len(polls) \in Nat /\ DOMAIN polls = 1..Len(polls)
  BY DEF TypeOK
<1>2. /\ DOMAIN polls' = 1..(Len(polls) + 1)
      /\ \A i \in 1..Len(polls) : polls'[i] = polls[i]
      /\ polls'[Len(polls) + 1] = p
  BY AppendProperties, LenProperties DEF TypeOK
<1>3. QED
  BY <1>1, <1>2

LEMMA TypeInit == Init => TypeOK
<1> SUFFICES ASSUME Init PROVE TypeOK
  OBVIOUS
<1>1. polls \in Seq(Polls)
  BY EmptySeq DEF Init
<1>2. services \in [Services -> Statuses \cup {"checking"}]
  BY DEF Init
<1>3. timer \in 0..Interval /\ age \in 0..(MaxAge + 1)
  BY Limits DEF Init
<1>4. QED
  BY <1>1, <1>2, <1>3 DEF Init, TypeOK

LEMMA TypeStep == TypeOK /\ [Next]_vars => TypeOK'
<1> SUFFICES ASSUME TypeOK, [Next]_vars PROVE TypeOK'
  OBVIOUS
<1>a. Interval \in 0..Interval /\ 0 \in 0..(MaxAge + 1)
  BY Limits
<1>1. CASE Mount
  <2>1. polls' \in Seq(Polls)
    <3>1. Poll(FALSE) \in Polls
      BY PollType
    <3>2. \A p \in Polls : <<p>> \in Seq(Polls)
      OBVIOUS
    <3>3. QED
      BY <1>1, <3>1, <3>2 DEF Mount
  <2>2. services' \in [Services -> Statuses \cup {"checking"}]
    BY <1>1 DEF Mount
  <2>3. QED
    BY <1>1, <1>a, <2>1, <2>2 DEF Mount, TypeOK
<1>2. CASE Unmount
  <2>1. polls' \in Seq(Polls)
    BY <1>2, EmptySeq DEF Unmount
  <2>2. QED
    BY <1>2, <1>a, <2>1 DEF Unmount, TypeOK
<1>3. CASE IntervalFires
  <2>1. polls' \in Seq(Polls)
    BY <1>3, PollType, AppendProperties DEF IntervalFires, TypeOK
  <2>2. QED
    BY <1>3, <1>a, <2>1 DEF IntervalFires, TypeOK
<1>4. CASE Refresh
  <2>1. polls' \in Seq(Polls)
    BY <1>4, PollType, AppendProperties DEF Refresh, TypeOK
  <2>2. QED
    BY <1>4, <2>1 DEF Refresh, TypeOK
<1>5. CASE Tick
  <2>1. ASSUME NEW i \in DOMAIN polls
        PROVE  [polls[i] EXCEPT !.age = @ + 1] \in Polls
    <3>1. polls[i] \in Polls /\ polls[i].age < Timeout
      BY <1>5, OnePoll DEF Tick, Deadline
    <3>2. QED
      BY <3>1, Limits DEF Polls
  <2>2. polls' \in Seq(Polls)
    <3>1. Len(polls) \in Nat /\ DOMAIN polls = 1..Len(polls)
      BY DEF TypeOK
    <3>2. polls' \in [1..Len(polls) -> Polls]
      BY <1>5, <2>1, <3>1 DEF Tick
    <3>3. QED
      BY <3>1, <3>2, IsASeq
  <2>3. timer' \in 0..Interval /\ age' \in 0..(MaxAge + 1)
    BY <1>5, Limits DEF Tick, TypeOK
  <2>4. QED
    BY <1>5, <2>2, <2>3 DEF Tick, TypeOK
<1>6. ASSUME NEW i \in DOMAIN polls, NEW s \in Services,
             TimedOut(i, s) \/ \E a \in Answers : Answered(i, s, a)
      PROVE  TypeOK'
  <2>1. UNCHANGED <<mounted, timer>>
    BY <1>6, SettleCases
  <2>2. CASE Waits(i)
    BY <2>1, <2>2 DEF Waits, TypeOK
  <2>3. CASE Ends(i)
    <3>1. polls' \in Seq(Polls)
      BY <2>3, RemoveOne DEF Ends, TypeOK
    <3>2. polls[i].age \in 0..(MaxAge + 1) /\ polls[i].manual \in BOOLEAN
      BY OnePoll, Limits DEF Polls
    <3>3. QED
      BY <2>1, <2>3, <3>1, <3>2 DEF Ends, TypeOK
  <2>4. QED
    BY <1>6, <2>2, <2>3, SettleCases
<1>7. CASE UNCHANGED vars
  BY <1>7 DEF vars, TypeOK
<1>8. QED
  BY <1>1, <1>2, <1>3, <1>4, <1>5, <1>6, <1>7 DEF Next

(* The polls under way, the timer and the cards stay within their types;   *)
(* no poll is older than the deadline of its requests.                     *)
THEOREM TypeCorrect == Spec => []TypeOK
BY TypeInit, TypeStep, PTL DEF Spec
-----------------------------------------------------------------------------
LEMMA RecentStep == TypeOK /\ TypeOK' /\ RecentInv /\ [Next]_vars => RecentInv'
<1> SUFFICES ASSUME TypeOK, TypeOK', RecentInv, [Next]_vars, mounted' PROVE RecentInv'
  BY DEF RecentInv
<1>a. /\ timer \in 0..Interval /\ timer' \in 0..Interval
      /\ age \in Nat /\ age' \in Nat /\ age' =< MaxAge + 1
  BY Limits DEF TypeOK
<1>b. \A i \in DOMAIN polls : polls[i].age \in 0..Timeout /\ polls[i].manual \in BOOLEAN
  BY OnePoll DEF Polls
<1>c. elapsed \in Nat /\ elapsed =< Interval /\ elapsed' \in Nat /\ elapsed' =< Interval
  <2>1. \A t \in 0..Interval : Interval - t \in Nat /\ Interval - t =< Interval
    BY Limits
  <2>2. QED
    BY <1>a, <2>1 DEF elapsed
<1>d. Interval \in Nat /\ Timeout \in Nat /\ Timeout < Interval /\ MaxAge = Interval + 2 * Timeout
  BY Limits
<1>1. CASE Mount
  <2>1. polls' = <<Poll(FALSE)>> /\ age' = 0 /\ elapsed' = 0 /\ manual' = FALSE
    BY <1>1, <1>d DEF Mount, elapsed
  <2>2. DOMAIN polls' = {1} /\ polls'[1].age = 0 /\ polls'[1].manual = FALSE
    BY <2>1 DEF Poll
  <2>3. 0 =< Timeout /\ 0 \in Nat
    BY <1>d
  <2>4. age' =< elapsed' + Timeout /\ age' =< elapsed' + Timeout + Interval
    BY <2>1, <2>3, Young
  <2>5. age' >= elapsed'
    BY <2>1
  <2>6. QED
    BY <2>1, <2>2, <2>4, <2>5 DEF RecentInv
<1>2. CASE Unmount
  BY <1>2 DEF Unmount
<1>3. CASE IntervalFires
  <2>1. ~Pending
    BY <1>3, <1>b, <1>d DEF IntervalFires, RecentInv, Pending, elapsed
  <2>2. /\ age' =< Interval + Timeout /\ elapsed' = 0 /\ mounted
        /\ services' = services /\ age' = age /\ manual' = manual
    BY <1>3, <1>a, <1>d, <2>1 DEF IntervalFires, RecentInv, elapsed
  <2>3. /\ DOMAIN polls' = DOMAIN polls \cup {Len(polls) + 1}
        /\ \A i \in DOMAIN polls : polls'[i] = polls[i]
        /\ polls'[Len(polls) + 1] = Poll(FALSE)
    BY <1>3, PollType, OneMore DEF IntervalFires
  <2>4. Poll(FALSE).age = 0 /\ Poll(FALSE).manual = FALSE
    BY DEF Poll
  <2>5. Pending'
    BY <2>3, <2>4 DEF Pending
  <2>6. \A i \in DOMAIN polls' : ~polls'[i].manual => polls'[i].age = 0
    BY <2>1, <2>3, <2>4 DEF Pending
  <2>7. ASSUME NEW s \in Services, services'[s] = "checking"
        PROVE  \E i \in DOMAIN polls' : polls'[i].age = age'
    <3>1. PICK i \in DOMAIN polls : polls[i].age = age
      BY <2>2, <2>7 DEF RecentInv
    <3>2. QED
      BY <2>2, <2>3, <3>1
  <2>8. QED
    BY <1>a, <1>d, <2>2, <2>5, <2>6, <2>7 DEF RecentInv
<1>4. CASE Refresh
  <2>1. /\ DOMAIN polls' = DOMAIN polls \cup {Len(polls) + 1}
        /\ \A i \in DOMAIN polls : polls'[i] = polls[i]
        /\ polls'[Len(polls) + 1] = Poll(TRUE)
    BY <1>4, PollType, OneMore DEF Refresh
  <2>2. Poll(TRUE).manual = TRUE
    BY DEF Poll
  <2>3. Pending' <=> Pending
    BY <2>1, <2>2 DEF Pending
  <2>4. /\ mounted /\ elapsed' = elapsed
        /\ services' = services /\ age' = age /\ manual' = manual
    BY <1>4 DEF Refresh, elapsed
  <2>5. \A i \in DOMAIN polls' : ~polls'[i].manual => polls'[i].age = elapsed'
    BY <2>1, <2>2, <2>4 DEF RecentInv
  <2>6. ASSUME NEW s \in Services, services'[s] = "checking"
        PROVE  \E i \in DOMAIN polls' : polls'[i].age = age'
    <3>1. PICK i \in DOMAIN polls : polls[i].age = age
      BY <2>4, <2>6 DEF RecentInv
    <3>2. QED
      BY <2>1, <2>4, <3>1
  <2>7. QED
    BY <2>3, <2>4, <2>5, <2>6 DEF RecentInv
<1>5. CASE Tick
  <2>1. /\ DOMAIN polls' = DOMAIN polls
        /\ \A i \in DOMAIN polls : polls'[i].age = polls[i].age + 1
                                /\ polls'[i].manual = polls[i].manual
    BY <1>5, OnePoll DEF Tick, Polls
  <2>2. Pending' <=> Pending
    BY <2>1 DEF Pending
  <2>3. elapsed' = elapsed + 1 /\ UNCHANGED <<mounted, services, manual>>
    BY <1>5, <1>a, <1>d DEF Tick, elapsed
  <2>4. age' = age + 1 \/ (age > MaxAge /\ age' = age)
    BY <1>5 DEF Tick
  <2>5. /\ age' =< elapsed' + Timeout + Interval
        /\ ~Pending' => age' =< elapsed' + Timeout
    BY <1>5, <1>a, <1>c, <1>d, <2>2, <2>3, <2>4 DEF Tick, RecentInv
  <2>6. ASSUME NEW s \in Services, services'[s] = "checking"
        PROVE  \E i \in DOMAIN polls' : polls'[i].age = age'
    <3>1. PICK i \in DOMAIN polls : polls[i].age = age
      BY <1>5, <2>3, <2>6 DEF Tick, RecentInv
    <3>2. age' = age + 1
      BY <1>b, <1>d, <2>4, <3>1
    <3>3. QED
      BY <2>1, <3>1, <3>2
  <2>7. \A i \in DOMAIN polls' : ~polls'[i].manual => polls'[i].age = elapsed'
    BY <1>5, <2>1, <2>3 DEF Tick, RecentInv
  <2>8. ~manual' => age' >= elapsed'
    BY <1>5, <1>a, <1>c, <1>d, <2>3, <2>4 DEF Tick, RecentInv
  <2>9. QED
    BY <2>5, <2>6, <2>7, <2>8 DEF RecentInv
<1>6. ASSUME NEW i \in DOMAIN polls, NEW s \in Services,
             TimedOut(i, s) \/ \E a \in Answers : Answered(i, s, a)
      PROVE  RecentInv'
  <2>1. mounted /\ elapsed' = elapsed
    BY <1>6, SettleCases DEF elapsed
  <2>2. CASE Waits(i)
    <3>1. Pending' <=> Pending
      BY <2>2 DEF Waits, Pending
    <3>2. QED
      BY <2>1, <2>2, <3>1 DEF Waits, RecentInv
  <2>3. CASE Ends(i)
    <3>1. \A j \in DOMAIN polls' : \E k \in DOMAIN polls : polls'[j] = polls[k]
      BY <2>3, RemoveOne DEF Ends, TypeOK
    <3>2. age' =< Timeout
      BY <1>b, <2>3 DEF Ends
    <3>3. age' =< elapsed' + Timeout /\ age' =< elapsed' + Timeout + Interval
      BY <1>a, <1>c, <3>2, Young
    <3>4. ~\E t \in Services : services'[t] = "checking"
      BY <2>3 DEF Ends, Statuses
    <3>5. \A j \in DOMAIN polls' : ~polls'[j].manual => polls'[j].age = elapsed'
      BY <2>1, <3>1 DEF RecentInv
    <3>6. ~manual' => age' >= elapsed'
      BY <1>c, <2>1, <2>3 DEF Ends, RecentInv
    <3>7. QED
      BY <3>3, <3>4, <3>5, <3>6 DEF RecentInv
  <2>4. QED
    BY <1>6, <2>2, <2>3, SettleCases
<1>7. CASE UNCHANGED vars
  BY <1>7 DEF vars, RecentInv, Pending, elapsed
<1>8. QED
  BY <1>1, <1>2, <1>3, <1>4, <1>5, <1>6, <1>7 DEF Next

LEMMA Recent == Spec => [](TypeOK /\ RecentInv)
<1>1. Init => RecentInv
  BY DEF Init, RecentInv
<1>2. QED
  BY <1>1, RecentStep, TypeCorrect, PTL DEF Spec

(* The cards never show a reading that was asked for longer ago than an    *)
(* interval and two deadlines, and none is still being checked after the   *)
(* first deadline, however polls overlap and whichever comes in last       *)
(* (page.tsx, checkHealth and its effect).                                 *)
THEOREM CardsAreRecent == Spec => []ShownIsRecent
<1>1. TypeOK /\ RecentInv => ShownIsRecent
  <2> SUFFICES ASSUME TypeOK, RecentInv, mounted, NEW s \in Services
               PROVE  age =< (IF Card(s).dot = "sky" THEN Timeout ELSE MaxAge)
    BY DEF ShownIsRecent
  <2>1. \A i \in DOMAIN polls : polls[i].age \in 0..Timeout
    BY OnePoll DEF Polls
  <2>2. age \in Nat /\ timer \in 0..Interval
    BY Limits DEF TypeOK
  <2>3. age =< MaxAge
    <3>1. CASE Pending
      <4>1. elapsed =< Timeout /\ age =< elapsed + Timeout + Interval
        BY <2>1, <3>1, Limits DEF RecentInv, Pending
      <4>2. QED
        BY <2>2, <4>1, Limits DEF elapsed
    <3>2. CASE ~Pending
      BY <2>2, <3>2, Limits DEF RecentInv, elapsed
    <3>3. QED
      BY <3>1, <3>2
  <2>4. CASE services[s] = "checking"
    <3>1. age =< Timeout
      BY <2>1, <2>4 DEF RecentInv
    <3>2. QED
      BY <2>3, <3>1
  <2>5. CASE services[s] # "checking"
    <3>1. services[s] = "healthy" \/ services[s] \notin {"healthy", "checking"}
      BY <2>5
    <3>2. Card(s).dot # "sky"
      BY <2>5, <3>1 DEF Card
    <3>3. QED
      BY <2>3, <3>2
  <2>6. QED
    BY <2>4, <2>5
<1>2. QED
  BY <1>1, Recent, PTL

(* Two polls of the interval are never under way together, so that only a  *)
(* click on Refresh can make the page go back to older readings.           *)
THEOREM OlderOnlyByRefresh == Spec => OnlyRefreshGoesBack
<1> DEFINE Back == mounted /\ mounted' /\ timer' = timer /\ age' > age
<1>1. TypeOK /\ RecentInv /\ [Next]_vars => (Back => manual \/ manual')
  <2> SUFFICES ASSUME TypeOK, RecentInv, [Next]_vars, Back, ~manual, ~manual' PROVE FALSE
    OBVIOUS
  <2>1. age \in Nat /\ timer \in 0..Interval
    BY Limits DEF TypeOK
  <2>2. PICK i \in DOMAIN polls, s \in Services :
          TimedOut(i, s) \/ \E a \in Answers : Answered(i, s, a)
    <3>1. age' # age
      BY <2>1
    <3>2. ~Mount /\ ~Unmount
      BY DEF Mount, Unmount
    <3>3. ~IntervalFires /\ ~Refresh /\ ~UNCHANGED vars
      BY <3>1 DEF IntervalFires, Refresh, vars
    <3>4. ~Tick
      BY <2>1 DEF Tick
    <3>5. QED
      BY <3>2, <3>3, <3>4 DEF Next
  <2>3. Ends(i)
    BY <2>1, <2>2, SettleCases DEF Waits
  <2>4. age' = elapsed /\ age >= elapsed
    BY <2>3 DEF Ends, RecentInv
  <2>5. QED
    BY <2>1, <2>4, Limits DEF elapsed
<1>2. QED
  BY <1>1, Recent, PTL DEF OnlyRefreshGoesBack, Spec
=============================================================================
