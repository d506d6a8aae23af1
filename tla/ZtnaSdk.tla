------------------------------- MODULE ZtnaSdk -------------------------------
(***************************************************************************)
(* The Express integration (sdk/node/ztna-sdk.js): ztnaMiddleware asks the *)
(* ML engine for a score and attaches it to the request, ztnaProtect then  *)
(* decides on a route.  The fetch in between is where things go wrong: the *)
(* engine may be unreachable, too slow, answer without a score, or drop    *)
(* the connection in the middle of its answer.  The routes are those of    *)
(* the example application (sdk/node/example-app.js) and the variations    *)
(* the SDK's options allow; one of them reports the health of the services *)
(* with the SDK's checkHealth.                                             *)
(*                                                                         *)
(* A request shares no state with another one, so a behaviour follows one  *)
(* request, under every configuration.  Scores are in tenths.              *)
(***************************************************************************)
EXTENDS TrustScore

CONSTANTS Scores,    (* the scores the ML engine may give, in tenths          *)
          NoScore    (* the answer of the ML engine carries no score          *)

ASSUME SdkAssumption == Scores \subseteq 0..1000 /\ NoScore \notin Int

VARIABLES config,   (* the options of the middleware                          *)
          route,    (* the route and the options of its ztnaProtect           *)
          step,     (* where the request stands                               *)
          fetch,    (* ghost: how the fetch of the score ended                *)
          ztna,     (* req.ztna                                               *)
          report,   (* what checkHealth knows of each service                 *)
          answer    (* what the client of the application got                 *)

sdkVars == <<config, route, step, fetch, ztna, report, answer>>

Configs == [enabled : BOOLEAN, failMode : {"open", "closed"}]

Route(k, m, c) == [kind |-> k, minTrustScore |-> m, challengeUrl |-> c]

(* The routes of the example application.                                  *)
ExampleApp ==
  {Route("plain", 0, FALSE),          (* /                                    *)
   Route("protected", 800, FALSE),    (* /api/sensitive-data                  *)
   Route("protected", 900, FALSE),    (* /api/admin                           *)
   Route("health", 0, FALSE)}         (* /ztna/health                         *)

(* And others: "skip" stands for /health and /favicon.ico.                 *)
Routes ==
  ExampleApp \cup {Route("skip", 0, FALSE)}
    \cup [kind : {"protected"}, minTrustScore : {0, 400, 750, 751}, challengeUrl : BOOLEAN]

(* The services checkHealth asks.                                          *)
Checked == {"proxy-gateway", "auth-service", "ml-engine"}

NoZtna == [score |-> NoScore, action |-> "none", mode |-> "none"]

SdkTypeOK ==
  /\ config \in Configs /\ route \in Routes
  /\ step \in {"arrive", "fetch", "body", "protect", "health", "done"}
  /\ fetch \in {"none", "scored", "unscored", "failed", "dropped"}
  /\ ztna \in [score : Scores \cup {NoScore, 500, 750},
               action : {"none", "ALLOW", "CHALLENGE", "DENY"},
               mode : {"none", "normal", "fallback", "error"}]
  /\ report \in [Checked -> {"waiting", "dropped", "healthy", "unhealthy", "unreachable"}]
  /\ answer \in {"none", "handler", "challenge", "redirect", "denied"}

SdkInit ==
  /\ config \in Configs /\ route \in Routes
  /\ step = "arrive" /\ fetch = "none" /\ ztna = NoZtna /\ answer = "none"
  /\ report = [s \in Checked |-> "waiting"]
-----------------------------------------------------------------------------
(* ztnaMiddleware: a disabled SDK and a health check pass without a score. *)
ztnaMiddleware ==
  /\ step = "arrive"
  /\ step' = IF config.enabled /\ route.kind # "skip" THEN "fetch" ELSE "protect"
  /\ UNCHANGED <<config, route, fetch, ztna, report, answer>>

(* The head of the engine's answer arrives; its body is still to come.     *)
ResponseHead ==
  /\ step = "fetch"
  /\ step' = "body"
  /\ UNCHANGED <<config, route, fetch, ztna, report, answer>>

(* The body is complete and holds a score: what determine_action says.     *)
Scored ==
  /\ step = "body"
  /\ \E s \in Scores : ztna' = [score |-> s, action |-> determine_action(s), mode |-> "normal"]
  /\ step' = "protect" /\ fetch' = "scored"
  /\ UNCHANGED <<config, route, report, answer>>

Unscored_Attached ==
  /\ step = "body"
  /\ ztna' = [score |-> NoScore, action |-> "undefined", mode |-> "normal"]
  /\ step' = "protect" /\ fetch' = "unscored"
  /\ UNCHANGED <<config, route, report, answer>>

(* The body is complete and holds none (an error status, or not JSON): the *)
(* status is not looked at, setHeader throws on the undefined score, and   *)
(* the catch block attaches its own decision.                              *)
Unscored ==
  /\ step = "body"
  /\ ztna' = [score |-> 500, action |-> "CHALLENGE", mode |-> "error"]
  /\ step' = "protect" /\ fetch' = "unscored"
  /\ UNCHANGED <<config, route, report, answer>>

FetchFails_HeadOnly ==
  /\ step = "fetch"
  /\ ztna' = IF config.failMode = "open"
             THEN [score |-> 750, action |-> "ALLOW", mode |-> "fallback"]
             ELSE [score |-> 500, action |-> "CHALLENGE", mode |-> "fallback"]
  /\ step' = "protect" /\ fetch' = "failed"
  /\ UNCHANGED <<config, route, report, answer>>

(* The connection cannot be opened, or the socket is idle for the timeout: *)
(* getTrustScore catches the rejection and falls back.                     *)
FetchFails ==
  /\ step \in {"fetch", "body"}
  /\ ztna' = IF config.failMode = "open"
             THEN [score |-> 750, action |-> "ALLOW", mode |-> "fallback"]
             ELSE [score |-> 500, action |-> "CHALLENGE", mode |-> "fallback"]
  /\ step' = "protect" /\ fetch' = "failed"
  /\ UNCHANGED <<config, route, report, answer>>

(* The connection closes before the body is complete: neither "end" nor    *)
(* "error" of the request fires any more, and the promise never settles.   *)
Dropped ==
  /\ step = "body" /\ fetch = "none"
  /\ fetch' = "dropped"
  /\ UNCHANGED <<config, route, step, ztna, report, answer>>

(* A minTrustScore of 0 or none at all is replaced by defaultMinScore, 40: *)
(* options.minTrustScore || DEFAULT_CONFIG.defaultMinScore                 *)
MinScore == IF route.minTrustScore = 0 THEN 400 ELSE route.minTrustScore

ztnaProtect_AnyAction ==
  /\ step = "protect" /\ route.kind = "protected" /\ ztna # NoZtna
  /\ answer' = IF ztna.score >= MinScore THEN "handler"
               ELSE IF ztna.action # "CHALLENGE" THEN "denied"
               ELSE IF route.challengeUrl THEN "redirect" ELSE "challenge"
  /\ step' = "done"
  /\ UNCHANGED <<config, route, fetch, ztna, report>>

(* The decision on a protected route with a score attached.  A challenge   *)
(* is a redirection where the route has a URL for it.                      *)
ztnaProtect ==
  /\ step = "protect" /\ route.kind = "protected" /\ ztna # NoZtna
  /\ answer' = IF ztna.action = "ALLOW" /\ ztna.score >= MinScore THEN "handler"
               ELSE IF ztna.action # "CHALLENGE" THEN "denied"
               ELSE IF route.challengeUrl THEN "redirect" ELSE "challenge"
  /\ step' = "done"
  /\ UNCHANGED <<config, route, fetch, ztna, report>>

(* Every other route, and every request without req.ztna, goes through.    *)
PassThrough ==
  /\ step = "protect" /\ route.kind # "health" /\ (route.kind # "protected" \/ ztna = NoZtna)
  /\ answer' = "handler"
  /\ step' = "done"
  /\ UNCHANGED <<config, route, fetch, ztna, report>>

(* The route /ztna/health calls checkHealth, which asks all services.      *)
checkHealth ==
  /\ step = "protect" /\ route.kind = "health"
  /\ step' = "health"
  /\ UNCHANGED <<config, route, fetch, ztna, report, answer>>

Reported(s, status) ==
  /\ step = "health" /\ report[s] = "waiting"
  /\ report' = [report EXCEPT ![s] = status]
  /\ UNCHANGED <<config, route, step, fetch, ztna, answer>>

(* A service answers: with status 200, or with another.                    *)
HealthAnswered(s) == \E status \in {"healthy", "unhealthy"} : Reported(s, status)

(* It cannot be reached, or is silent for the timeout.                     *)
HealthFails(s) == Reported(s, "unreachable")

(* Its connection closes in the middle of the answer; see Dropped.         *)
HealthDropped(s) == Reported(s, "dropped")

(* Promise.allSettled waits for all of them, failed ones included.         *)
HealthReport ==
  /\ step = "health"
  /\ \A s \in Checked : report[s] \notin {"waiting", "dropped"}
  /\ answer' = "handler"
  /\ step' = "done"
  /\ UNCHANGED <<config, route, fetch, ztna, report>>

SdkNext ==
  \/ checkHealth \/ HealthReport
  \/ \E s \in Checked : HealthAnswered(s) \/ HealthFails(s) \/ HealthDropped(s)
  \/ ztnaMiddleware \/ ResponseHead \/ Dropped
  \/ fetch = "none" /\ (Scored \/ Unscored \/ FetchFails)
  \/ ztnaProtect \/ PassThrough

(* Node runs the callbacks that are due.  The engine need not answer, but  *)
(* the timeout of an open socket fires.                                    *)
SdkFairness ==
  /\ WF_sdkVars(ztnaMiddleware) /\ WF_sdkVars(fetch = "none" /\ FetchFails)
  /\ WF_sdkVars(ztnaProtect) /\ WF_sdkVars(PassThrough)
  /\ WF_sdkVars(checkHealth) /\ WF_sdkVars(HealthReport)
  /\ \A s \in Checked : WF_sdkVars(HealthFails(s))

SdkSpec == SdkInit /\ [][SdkNext]_sdkVars /\ SdkFairness
-----------------------------------------------------------------------------
(* The answer on a protected route has its reason in the score.            *)
(*  - The handler runs for a score the engine really gave, at or above the *)
(*    route's minimum and 80; or, in fail-open mode and when the engine    *)
(*    could not be asked, on a route that asks for 75 at most.             *)
(*  - A request is denied below 40, or for an ALLOW below the minimum: by  *)
(*    a failure of the engine only as a fail-open 75 on a route that asks  *)
(*    for more.                                                            *)
(*  - It is challenged, and redirected where there is a URL for that, in   *)
(*    between, or when a failing engine leaves it in doubt.                *)
AnswerJustified ==
  route.kind = "protected" /\ config.enabled =>
    LET given == fetch = "scored"
        open == fetch = "failed" /\ config.failMode = "open"
    IN  /\ answer = "handler" =>
             \/ given /\ ztna.score >= 800 /\ ztna.score >= route.minTrustScore
             \/ open /\ route.minTrustScore =< 750
        /\ answer = "denied" =>
             \/ given /\ ztna.score < 400
             \/ given /\ ztna.score \in 800..(route.minTrustScore - 1)
             \/ open /\ route.minTrustScore > 750
        /\ answer \in {"challenge", "redirect"} =>
             /\ given => ztna.score \in 400..799
             /\ ~open
             /\ (answer = "redirect") <=> route.challengeUrl

(* Every request is answered, the health report of silent and unreachable  *)
(* services included, unless a connection to one of them dropped.          *)
AnsweredUnlessDropped ==
  step = "arrive" ~> step = "done" \/ fetch = "dropped" \/ \E s \in Checked : report[s] = "dropped"
=============================================================================
