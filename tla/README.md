# A TLA+ model of the adaptive zero-trust firewall

The repository is a set of small services: an authentication service and a
proxy gateway in Go, a scoring engine in Python, policies for Open Policy
Agent in Rego, an Express SDK and a Next.js dashboard in JavaScript.  This
directory holds TLA+ models of the parts where concurrency, failure, ordering
or thresholds decide whether the system is right, the TLC configurations that
check them on small instances, and theorems about them checked by TLAPS.

Paths below are relative to `src/`.

## 1. Inventory

### Auth service (`auth-service/`)

*State.*  One MongoDB collection of users: `failed_logins`, `is_locked`,
`mfa_enabled`, `mfa_secret`, password hash.  Nothing is kept in memory between
requests; every request has a context of 5 s.

*Operations.*
- Login (`handlers/login.go`): `FindOne`, checks on the snapshot (locked,
  bcrypt, MFA), then `UpdateOne` to count a failure, `FindOne` to read the
  counter back, `UpdateOne` to lock; or `UpdateOne` to reset the counter,
  `IssueTokens`, answer.
- MFA (`handlers/mfa.go`): enrol (generate a secret, store it together with
  `mfa_enabled`), verify (read the document, validate the code, issue tokens).
- Tokens (`handlers/token.go`, `middleware/jwt.go`): issue an access and a
  refresh token, refresh, validate.
- Start-up: connect, ping, create indexes, seed one account
  (`internal/db`, `scripts/seed.go`); shutdown in `cmd/auth/main.go`.

*Hard.*  Every handler decides on a snapshot and writes later, with separate
updates and ignored errors; requests of one account interleave anywhere, and a
crash may fall between any two calls.

*Correct when* an account with five counted failures is locked and stays
locked, the overshoot is bounded by the requests in flight, no account is
locked without five wrong passwords, and the requests that overtook a lock
finish, after which nothing is granted any more.

### Proxy gateway (`proxy-gateway/`)

*State.*  In memory: the rate limiter's map from client address to limiter
(under a mutex), the limiters themselves (each with its own lock), the
reverse proxies by prefix and their order (read-only after start).  Per
connection, what net/http knows of it: its deadlines and whether it is active.

*Operations.*  CORS, logging, rate limiting, authentication and proxying, in
this order (`cmd/proxy/main.go`); a background loop that drops stale limiters;
graceful shutdown with a deadline of 10 s; parsing of the target list and
longest-prefix routing (`internal/proxy/reverseproxy.go`).

*Hard.*  Requests use a limiter after the mutex is released while the loop may
drop the entry; the server's write deadline (15 s) is shorter than the
transport's wait for a response head (30 s); a panic in the proxy skips what
the middlewares do afterwards.

*Correct when* each client is admitted exactly as one token bucket would,
whatever the loop drops; the map does not grow for ever; a request reaches the
upstream its longest prefix names; the access log tells what the clients got;
a shutdown ends, and cuts off no request that was quick.

### ML engine (`ml-engine/`)

*State.*  Two model files on a shared volume, two models in the memory of each
worker.  The score, feedback and health routes keep no state.

*Operations.*  Start-up of each worker (load or train and write both models),
`extract_features`, prediction, `compute_trust_score`, `determine_action`;
feedback answers `baseline_updated` and writes nothing (a TODO in the source).

*Hard.*  Two workers start at once over one volume and `joblib.dump` writes in
place; a worker is killed in the middle.  The thresholds on the combined score
rely on the range of a library's output.

*Correct when* starting workers end up serving, and the score, the
recommendation and the decision of the policy engine agree.

### Policy engine (`policy-engine/`)

*State.*  None: three packages (`trust_rules.rego`, `iot_rules.rego`,
`fallback.rego`) of complete rules.  The data files under `policies/data` are
loaded and referenced by no rule.

*Hard.*  Complete rules have no order.  Two rules with different values that
apply to one input make the query fail.

*Correct when* no indicator of compromise can be outvoted by a score, a better
score never gives a stricter answer, and the answer is never laxer than the
ML engine's recommendation.

### Node SDK (`sdk/node/ztna-sdk.js`)

*State.*  None shared; per request `req.ztna`.

*Operations.*  `ztnaMiddleware` (fetch a score, attach it), `ztnaProtect`
(decide on a route), `checkHealth` (ask three services at once); the example
application (`example-app.js`) puts them on four routes.

*Hard.*  The engine may be silent, refuse, answer without a score, or break off
in the middle of its answer; the timeout races the answer; an exception after
the decision was attached replaces it.

*Correct when* a protected handler runs only on a sufficient score or on the
fail-open rule, a denial has a reason, and each request is answered.

### Dashboard (`dashboard/`)

*State.*  React state of the monitoring page: the form (open tab, chosen
scenario, typed fields), the results of both engines, an access log capped at
50, the answer of the last login tried, the readings of the services.  The two
API routes (`api/opa/query`, `api/opa/health`) keep nothing.

*Operations.*  `runScore` (ML engine, then policy engine through
`api/opa/query`), `testAuth`, `checkHealth` on entry, every 6 s and on Refresh,
`Clear`; a page of scripted tests, a landing page and one of documentation.

*Hard.*  Two engines answer one after the other and either may fail, while the
form stays open; results of an earlier run must not be read as the decision on
a later one; polls and logins overlap; the page repeats thresholds of the ML
engine.

*Correct when* the decision shown belongs to the score shown with it, and is
not laxer; the log agrees with what was shown; the readings on the cards are
recent and a service that is up is shown so.

### Deployment (`docker-compose*.yml`, Dockerfiles)

Wires the services: two uvicorn workers, a volume for the models, restart
policies, health checks.  Only what the models need of it is modelled.

### How they interact

The dashboard and the SDK call the ML engine over HTTP; the dashboard asks the
policy engine about the score; the gateway forwards to whatever upstream is
configured.  In this commit the gateway calls neither the auth service nor the
ML engine nor the policy engine: its auth middleware, when enabled, looks for a
bearer token and does not validate it (`middleware/auth.go`, "Phase 1"), and
the access decision is put together by the caller.  That is why the end-to-end
module below follows the dashboard.

## 2. Modules

| module | models | kind |
|---|---|---|
| `Login` | the login handler over one user document | state machine, proved about |
| `LoginProofs` | | 6 theorems |
| `Mfa` | enrolment, verification, and the tokens of one account | state machine, proved about |
| `MfaProofs` | | 5 theorems |
| `RateLimiter` | the gateway's limiter: map, mutex, loop, requests | state machine, proved about |
| `TokenBucket` | what the limiter promises each client | abstract specification |
| `AdmissionWindow` | the limiter with a window over one client's admissions as a history variable | state machine, proved about |
| `RateLimiterProofs` | | 6 theorems, one the refinement |
| `Policy` | the three Rego packages with OPA's semantics | rules, with a session that changes one signal at a time |
| `PolicyProofs` | | 5 theorems |
| `TrustScore` | `compute_trust_score`, `determine_action` in integers | operators |
| `AccessDecision` | `runScore` with both engines behind it | composition of `TrustScore` and `Policy`, abstract specification of `Dashboard`, proved about |
| `DecisionProofs` | | 5 theorems |
| `Dashboard` | simulator, login test and access log of the monitoring page | state machine, proved about |
| `DashboardProofs` | | 6 theorems, one the refinement |
| `Health` | the service health cards of the same page | state machine with time, proved about |
| `ModelStore` | start-up of the ML workers over the shared volume | state machine, proved about |
| `ZtnaSdk` | one request through the Express integration and its example application | state machine over `TrustScore`, proved about |
| `ServiceProofs` | | 7 theorems, on `ModelStore`, `ZtnaSdk` and `Health` |
| `Gateway` | the gateway as a server: stack, routing, upstreams, deadlines, shutdown | state machine with time, proved about |
| `GatewayProofs` | | 4 theorems |
| `MCMfa`, `MCPolicy`, `MCAccessDecision`, `MCZtnaSdk`, `MCDashboard`, `MCGateway` | constants for TLC, and the properties that quote a text of the repository | |

A definition whose name ends in `_Something` (`FindUser_IgnoresLock`,
`Dump_OwnBytes`) stands for the same code with a plausible mistake in it.  It
is part of no specification.  Putting it in the place of the real definition
has to break the property it was written for, which is how each property is
shown to depend on the code.

### Login

State: `user` is the document's counter and flag; `pc` is the next driver call
of each request.  One action per driver call, so requests interleave between
any two of them.

| action | code |
|---|---|
| `Receive` | the body is decoded and has both fields |
| `FindUser` | `FindOne`, the lock check and bcrypt on the snapshot |
| `IncrementFailedLogins` | `UpdateOne` with `$inc` |
| `ReadBack` | the second `FindOne` and the comparison with 5 |
| `SetLocked` | `UpdateOne` of `is_locked` |
| `ResetFailedLogins` | `UpdateOne` on success, tokens, answer |
| `Crash` | the process stops, all handlers are gone |

A driver call may fail, and a write that failed may have been applied.  The
code ignores the errors of the increment, the read-back and the lock, so a
fault there cuts the lock decision short.  `lost` counts such cases as a
history variable; `wrong` counts wrong passwords, saturating.

One account is modelled: documents of different users share nothing.  A write
that failed and is applied by the server *later*, after other requests went
on, is not modelled: it is applied before the error is returned or not at all.

### Mfa

Three kinds of requests share the MFA fields of the document.

| action | code |
|---|---|
| `LoginFind`, `LoginGrant` | `login.go`: the snapshot, then `mfaDone` computed from it and both tokens |
| `EnrollGenerate`, `EnrollStore`, `EnrollAnswer` | `mfa.go`: `totp.Generate`, `UpdateOne`, the answer with the secret |
| `EnrollRefused` | `mfa.go`: `totp.Generate` refuses an empty account name |
| `VerifyFind`, `VerifyGrant` | `mfa.go`: `FindOne` and `totp.Validate`, then the full token |
| `RefreshToken`, `Expire` | `token.go`, and the `ExpiresAt` of `jwt.go` |
| `Crash` | the process stops |

A code is the secret it was computed from, and clients know the secrets they
were told.  A token is its kind and `mfa_done`: an `access` token carries the
username, a `renewed` one does not, and has `mfa_done` set whatever token was
renewed.  Lifetimes are left out; any token may expire at any time, which covers
the real ones.  An enrolment whose update
failed, or whose answer was lost, is a fault; the number of faults is bounded.
Whether the password is right and the account unlocked is `Login`'s matter.

### RateLimiter and TokenBucket

`getLimiter` and one round of `cleanupLoop` run under the mutex and are one
action each; `Allow` runs after the mutex is released and is an action of its
own on the limiter *object* the request holds.  A limiter is an identity of
`Lims` with tokens of its own; dropping a map entry leaves the object to the
requests that hold it, and `GetLimiter` takes an object nothing refers to.

Time is counted in ticks and a clock reading is kept as an age (`age` is
`time.Since(lastSeen)`, cut off at the first value that makes an entry stale).
`Tick` refills all buckets.  The ticker's channel holds one tick (`fired`) and
drops further ones, as Go's does.  `Stall` bounds how long a request may stay
between `getLimiter` and `Allow`; without such a bound the code is wrong, and
it appears as an assumption in the theorems.  `golang.org/x/time/rate` is
taken as an ideal bucket: `Allow` is atomic and tokens are whole.

`TokenBucket` knows neither map nor loop: one bucket per client, `Admit` with a
token, `Refuse` without.  `RateLimiter` implements it under
`level[ip] = Burst` for a client without an entry and the tokens of its limiter
otherwise.

`AdmissionWindow` adds a history variable to the limiter: a window that opens at
any moment and counts ticks and the requests of one client that `Allow` lets
through.  Its steps are those of `RateLimiter`; it only watches.

### Policy

OPA evaluates all rules of a complete definition.  `Evaluate` returns the
default when none applies, the answer when one does, and `"conflict"` when
several do (all rules of these packages that can meet differ in their value,
if only in the `reason`).  An input field that is missing is undefined and no
comparison with it holds; `NoScore` and, for `device_trusted`, `"absent"` stand
for that.  `device_trusted` is compared with both true and false, so that a query
without it meets neither (`Trusted`, `Untrusted`); every other field is compared
with the values that matter only, and missing is the same as a value that no
rule asks for.  Scores are in tenths, as
the ML engine rounds them to one decimal.  The state is the input of a
session's queries and each step changes one signal, so that `ScoreNeverHurts`
can speak about two consecutive answers.

### TrustScore and AccessDecision

`compute_trust_score` is translated to integers: the anomaly score and the
threat probability in thousandths, the result in tenths, with Python's rounding
of ties to even.  What the two models say of a request is a *reading*, any pair
of the given sets; `extract_features` and the classifiers are not modelled
here, so nothing is claimed about which request gets which reading.

`AccessDecision` follows `runScore`: clear both results, ask the ML engine,
show whatever body comes back, build the query for the policy engine from the
result, show its answer.  The score route of the ML engine is the action
`ScoreAnswered`; an error status with a JSON body is `ScoreRefused` (the page
does not look at the status); no answer is `ScoreFails`.

### Dashboard

The page around that decision.  `form`, `run`, `logs` and `auth` group its
React state; each event handler or awaited answer is one action.

| action | code (`dashboard/page.tsx`) |
|---|---|
| `SetTab`, `SetPreset`, `SetCustom` | the form, which stays open during a run; a scenario also overwrites the typed fields |
| `runScore` | the button: both results cleared, the input taken from the open tab |
| `ScoreAnswered`, `ScoreRefused`, `ScoreFails` | the answer of the ML engine: shown, put in front of the log, or an error |
| `OpaAnswers`, `OpaFails` | the answer of `api/opa/query` |
| `Clear` | the button of the log |
| `testAuth`, `AuthAnswers`, `AuthFails` | logins; the buttons are never disabled, so they overlap |

`scoreColor` and `actionBadge` are the page's own views of a score and of a
verdict; `Panel`, `Rows` and `AuthPanel` are what is on the screen.  Of an
input only what tells requests apart is kept: the user and whether the device
is trusted.  `ImplementsDecision` substitutes the input the run took for
`AccessDecision`'s `trusted`.

### Health

A poll is a record of its age and of what each service has answered so far;
`polls` holds those under way in the order they began.  `Settle` is the end of
one request of a poll, and of the poll when it was the last one (`Promise.all`).
`Routed` services are asked through the page's own route, which turns every
failure into a 503 and has a timer of the same 3 s; when both are due, either
comes first.  Two ticks are 3 s in the run.  Timers fire in the tick they are
due, as in a page that is visible; a browser slows them down in a hidden one.

### Gateway

One record per connection: where its request stands, its age, the status of its
response, its log line, and what the client got.  `Stack` is the middleware
stack in its order, evaluated at once, since none of the middlewares waits;
whether the limiter admits a request is left open there, `RateLimiter` says
which are.

| action | code |
|---|---|
| `Accept`, `CloseNew` | net/http (external): connections that carry no request yet |
| `Arrive` | CORS, logging, limiter, authentication, `/health`, the proxy's choice of an upstream |
| `UpstreamHead`, `UpstreamFails` | the transport: a response head, or `ErrorHandler` with 502 |
| `BodyDone`, `BodyBreaks` | the body is copied, or the copy fails and `ErrAbortHandler` unwinds past the logging |
| `Log` | the handler returned: `Logging` writes its line |
| `Flush` | net/http (external): the response goes out before the write deadline |
| `ClientLeaves` | the client closes its connection |
| `Signal`, `Drained`, `Forced` | `main`: the signal, `Shutdown` that returns, `log.Fatal` when its context expires |

`Init` picks a configuration and an order of the prefixes: they come out of a
Go map and are sorted by length, which leaves equally long ones in any order.
`Fits` and `Match` are the loop over the sorted prefixes, `Stripped` is the
director, after httputil has joined the base path (`Joined`).  A path is a
sequence of its pieces.  A tick is 5 s, so that the write deadline is 3 ticks,
the shutdown timeout 2, and the 5 s that `Shutdown` spares a connection without
a request 1.  At the end of a limit both orders are possible.  An upstream may
fail at any age of the request: the transport waits 30 s for a head and a dial
has no limit.

### ModelStore

Each worker goes through both models in order: `CheckFile` (`os.path.exists`),
then `Load`, or `Train` (which ends with opening the file, that is, truncating
it) and `Dump`.  A file is absent, partial or whole; `clean` tells whether a
writer's bytes were truncated meanwhile.  Training is seeded, so all writers
write the same bytes, and a file is whole when a writer finishes whose bytes
nobody truncated.  `Kill` and `Restart` are the environment.

### ZtnaSdk

A request shares no state with another, so a behaviour follows one request
under every configuration and kind of route.  The fetch is two steps (head,
body), because an error before the head rejects the promise and a broken
connection after it does not.  The `timeout` of the socket is an idle timeout
and may strike in either phase.  The routes are those of the example application
and the variations its options allow: other minima, a URL to redirect a
challenge to, the paths the middleware skips.  `/ztna/health` calls
`checkHealth`, whose three requests end each on its own (`report`).

## 3. Runs

| run | configuration | distinct states | asks |
|---|---|---|---|
| `login` | 3 requests, threshold 5, 2 faults | 12,727 | do the guarantees of the lock survive interleaving, faults and crashes? |
| `mfa` | 3 requests, 2 secrets, 1 fault | 157,888 | do logins, enrolments and verifications that cross agree on the stored secret? |
| `rate_limiter` | 2 clients, 2 requests, 3 limiters, rate 1, burst 3, cleanup 1, stall 1, window of up to 4 ticks | 798,556 | does the map implement one bucket per client, and what does a client get through? |
| `policy` | scores at and just below each threshold, 0 and 100, none | 7,344 | which combinations of signals give which answer? |
| `decision` | 15 anomaly scores, 20 probabilities | 4,802 | do both engines agree end to end? |
| `model_store` | 2 workers, 2 kills | 884 | do concurrent starts break the files, and does every worker serve? |
| `sdk` | 10 scores, 12 routes, 3 services, both fail modes | 4,682 | is each answer justified, and is there always one? |
| `dashboard` | 4 readings, 2 scenarios, log of 2, 2 logins | 307,360 | does the page around a decision leave it alone, and show what belongs together? |
| `health` | 2 services, interval 4, timeout 2, 2 overlapping polls | 242,945 | how old may the readings be, and is a service that is up shown so? |
| `gateway` | 2 requests, 2 configurations, 9 paths | 616,161 | do log, routing and shutdown keep their promises in every interleaving? |

Two more runs state what a text of the repository says and end in a
counterexample; see section 5.

**login.**  `LockBound`: the counter exceeds the threshold by at most the
requests in flight minus one, plus one per fault.  `LockJustified`: a lock, or
a request about to set one, means the threshold was reached by wrong
passwords.  `LockPending`: without faults, an account at the threshold is
locked or some request still has to decide.  `AutoLock`: it is locked in the
end.  `LockTakesHold`: after a lock the requests that overtook it finish, and
from then on no request counts a failure, resets the counter or grants.
*Bounds*: with three requests a third slips between the increment of one and
the read-back of another; 5 is the code's threshold; two faults
allow one before and one after a crash.  Failures need no bound of their own:
`LockBound` keeps them finite, which is part of what is checked.

**mfa.**  `LateLoginBound`: once MFA is on, the logins that the login handler
still grants `mfa_done` go by an account they read earlier, and are fewer than
the request slots.  This bounds the race in that handler, and not the tokens the
password alone leads to: renewal sets `mfa_done` in whatever token it is given
(section 5).  `StoredIsTold`:
however enrolments overwrite each other, the secret stored at the end is one a
client was told; only a fault leads to a secret nobody knows.
`ReplacedIsRetired`: after the verifications that read a replaced secret have
finished, none of its codes is accepted again.  *Bounds*: with three requests
two logins overtake one enrolment, which reaches the bound; two secrets are one
that is replaced and one that replaces it; one fault leads to each way of
losing a secret, and the theorems cover any number.

**rate_limiter.**  `NoOrphan`: a request holds the limiter that is in the map.
`ImplementsBucket`: the refinement.  `AdmissionBound` and `RefusedWhenSpent` say
what that means in terms of requests alone (`peach.md:72`): in any stretch of
time, whenever it begins, a client gets through `Burst + Rate * ticks` requests
at most, and one that is refused got through `Rate * ticks` or a whole burst in
every stretch that ends there.  `IdleEntryDropped`: an idle entry goes away,
although the ticker skips.  *Bounds*: burst 3 equals `Rate * (3*Cleanup + 1 -
Stall)`, the largest value that is allowed; a burst one larger breaks the
refinement.  An entry becomes stale after 4 ticks, so that within a window it
may be dropped and made anew.  Three limiters for two clients let one be dropped
and replaced while the other is in use.  One client is watched, the other one
is in its way; which of them makes no difference.  That a stale entry is full
(`StaleIsFull`) is proved.

**policy.**  All inputs that differ in the truth of some comparison occur, so
the properties hold for any score; they are proved as well.  `AllowedExactly`
says when ALLOW is answered: to a trusted device from 80 to below 90, and to a
query that does not say `device_trusted` from 90 on.  From 90 on a query that
does say it makes two rules answer, and fails (section 5).
`OnlyKnownConflicts` says where two rules of the IoT package meet, and that a
fallback is never left unanswered.  `ScoreNeverHurts` compares the answers
before and after a better score.

**decision.**  The probabilities lie at and next to the values where
`LikelyThreatDenied` (above 0.667) and `UnlikelyThreatPasses` (up to 0.334) are
tight: with a bound moved by a thousandth, TLC finds a counterexample to each.
The anomaly scores cover -1 to 0.  `score_samples` of trees over 256 samples
stays below -0.29 (external), which the counterexample of `decision_allow`
relies on and the guarantees do not.  `ShownNotLaxer`
relates the results of the two engines, and says that no score the models can
give leads into the conflicts of the rules.

**model_store.**  `TornOnlyByCrash`: there are never more torn files than
crashes, so that writers that truncate each other tear none, and a killed one
leaves a single broken file.  `ServesUnlessTorn`: a worker serves in the end if
no file is torn.  Two workers are the Dockerfile's; two kills tear both files.

**sdk.**  `AnswerJustified`: the handler, a denial, a challenge and a
redirection each have their reason in what the fetch brought.
`AnsweredUnlessDropped`: nothing but a connection that closes in the middle of
an answer leaves a request, or a health report, without one.  The minima are 0
(which the code replaces by 40), a value each side of the fail-open 75, 40, and
the 80 and 90 of the example application.

**dashboard.**  `ColoursAgree`: the colour by the page's own thresholds never
contradicts the badge of the engine's verdict.  `LogMatchesResult`: edits
during a run do not slip into its log entry.  `AuthAnswerCurrent`: when all
logins are done, the answer shown is that of the last click or of one it
overlapped with.  `ImplementsDecision`: the refinement.  *Bounds*: the four
readings score 80, 79.9, 40 and 39.9; two scenarios differ in user and device;
a log of two shows the cut at its end; the theorems cover all others.

**health.**  `ShownIsRecent`: no reading on a card was asked for longer ago than
an interval and two deadlines.  `OnlyRefreshGoesBack`: newer readings give way
to older ones only when the Refresh button had its hand in it; polls of the
interval never overlap.  `UpIsShown`: a service that answers every poll well is
shown as healthy for good, however slow the others are.  *Bounds*: the ratio of
interval and timeout is the code's; two polls besides the interval's are enough
for one to overtake another and for a third to wait behind them.

**gateway.**  `LogTellsClient`: a response that reached its client has a line
with its status (a preflight has none), one that was cut off has no line, and a
line stands for a response that was not sent only if the client had left or the
write deadline was past.  `RoutedRight`: a path is refused only when no prefix
fits it, the longest one wins, and what is left of the path is absolute where the
upstream has no base path but `/`.  `KilledAreSlow`: a request cut off by a
forced end had been under way for the shutdown timeout, less the 5 s of a new
connection (5 to 6.5 s in fact, for `Shutdown` looks at its connections in
intervals of up to half a second and compares whole seconds; the tick of 5 s
does not tell these apart).  `Stops`: after a signal the process ends.  *Bounds*: requests only
meet in the shutdown, for which two are enough; the configurations have nested
and equally long prefixes, a root, and upstreams with a base path, one of them
`/`.

Deadlock is checked in all passing runs but three: in `model_store` all workers
may be serving with nothing left to do, in `sdk` the request is answered, and in
`gateway` the process has ended.

The type invariants of `RateLimiter`, `Dashboard`, `Gateway`, `Health` and
`ZtnaSdk` are proved (section 4) and not in the runs.

### Fairness

- `Login`, `Mfa`: weak fairness of each started handler.  A handler waits for no other
  and its driver calls end with the 5 s context.  New requests, expiry
  and `Crash` are not fair.
- `RateLimiter`: weak fairness of `Tick`, `CleanupLoop` and `Allow`: time
  passes, the goroutine is scheduled and the mutex is held for short sections
  only.  `GetLimiter` is not fair.  `Tick` waits for requests that used up
  their `Stall`, which `Allow` ends.
- `ModelStore`: weak fairness of each worker, restart included: a process waits
  for no other and the container restarts unless stopped.  `Kill` is not fair.
- `ZtnaSdk`: weak fairness of the callbacks that are due and of the failure of
  the fetch (the idle timeout fires).  The engine need not answer.
- `Health`: weak fairness of the clock and of the timers that are due, the
  interval's and those of the oldest poll.  No service need answer; that a
  service is up is a hypothesis of `UpIsShown`.
- `Gateway`: weak fairness of the clock, of the closing of connections without a
  request, and of the two ends of `Shutdown`.  Handlers, upstreams and clients
  are not fair: a body may be copied for ever, and `Stops` holds all the same.
- `Policy`, `AccessDecision`, `Dashboard`: none; only safety is stated.  The
  requests of the page to the ML engine and the auth service have no timeout,
  so nothing would justify it.

## 4. Proofs

All eight proof modules follow the safety part, `Init /\ [][Next]_vars`, of the
specification for every value of the constants that meets the named
assumptions.

**LoginProofs** (assumes `LoginAssumption`: finitely many requests, a positive
threshold).
- `TypeCorrect`: `Spec => []TypeOK`.
- `FailuresBounded`: `Spec => []LockBound`, and `LockNeverForgotten`:
  `Spec => []LockPending`.  Neither is inductive.  What is, is an accounting of
  failures (`CountInv`).  While the account is unlocked (`UnlockedBound`), each
  failure past the threshold less one belongs to a request that still decides
  on the lock, or to a fault: `failed_logins =< MaxFailed - 1 +
  |Deciding| + lost`.  Once it is locked (`LockedBound`), only the requests
  that already stand before the increment can add one: `failed_logins +
  |At({"inc"})| =< MaxFailed - 1 + |Reqs| + lost`.  The proof has a step per
  action; the lemmas `AtEnter`, `AtLeave` and `AtStay` say how the number of
  requests at a point changes when one moves.
- `LocksAreJustified`: `Spec => []LockJustified`, from the invariant that the
  counter never exceeds the wrong passwords counted so far (`CountedBound`).
- `OvertakersOnlyLeave` and `LockIsFinal` are the part of `LockTakesHold` that is
  safety.  No step unlocks an account, and while it is locked no request comes to
  stand where it could count, decide, reset or grant (`Overtaking` never grows);
  so from the moment none does, none ever will: `[](LockHolds => []LockHolds)`.
  That the last of them leaves takes fairness.

**MfaProofs** (assumes `MfaAssumption`: finitely many requests, and an empty
secret that is never generated).
- `TypeCorrect`, which includes that a handler has a secret in hand exactly
  while it stores, answers or grants on one.
- `LateLoginsBounded`: `Spec => []LateLoginBound`.  The bound is inductive
  together with `NoneLate` (no login is late before MFA is on).  It is strict
  because the enrolment that turns MFA on stands in a slot of its own at that
  step (lemma `SlotTaken`).
- `StoredSecretIsTold`: `Spec => []StoredIsTold`, inductive with the types.
- `HoldersOnlyLeave` and `RetirementIsFinal` are the part of `ReplacedIsRetired`
  that is safety: a secret that was told and then replaced is never stored again,
  no later verification goes by it, and once the last that does has left none
  ever will.  This needs an invariant of its own, `OwnSecrets`: the enrolments in
  progress have different secrets, none of them told yet.  An enrolment that
  still has to store can then only store a secret nobody knows.

**RateLimiterProofs** (assumes `RateLimiterAssumption`, and `WellSized` as the
hypothesis of every theorem but the first).  `WellSized` says that a request
stays in the middleware for less time than an entry takes to become stale, and
that an empty bucket is refilled before its entry is stale.  The code enforces
neither, and its defaults satisfy both by far.
- `TypeCorrect`; `NeverOrphaned`; `DropsOnlyFull`.
- `Implements`: `WellSized => (Spec => ImplementsBucket)`, the refinement of
  `TokenBucket`, by one lemma per kind of step (`GetLimiterKeepsLevel`,
  `AllowMaps`, `CleanupKeepsLevel`, `TickMaps`).
- `AdmissionsBounded`: `WellSized => (WindowSpec => []AdmissionBound)`, and
  `RefusalsEarned`: `WellSized => (WindowSpec => RefusedWhenSpent)`, an action
  property.  The same lemmas carry the inductive invariant `Balance`: what the
  client got through and what is left in its bucket is together at most `Burst +
  Rate * ticks`, and at least `Rate * ticks` or, once the bucket ran over, `Burst`.
- The inductive invariant `Inv` adds to `NoOrphan` that two addresses never
  share a limiter (`Distinct`), that the entry of a request in flight is at
  most as old as the request's stay (`HeldRecent`, so it cannot be stale), and
  that a bucket is full or holds `Rate * (age - Stall)` tokens (`Refilled`, so
  a stale entry is full).  In the refinement, `GetLimiter` and `CleanupLoop`
  are stuttering steps, `Allow` is `Admit` or `Refuse`, `Tick` is `Tick`.

**PolicyProofs** (assumes `PolicyAssumption`: scores are integers).
- `AllowIsExact`, `IndicatorsDominate` and `PolicyIsStricter` prove
  `AllowedExactly`, `IndicatorsNeverPass` and `NeverLaxer` for every integer
  score.  They rest on the lemma `Answer`: a decision is the default, a conflict,
  or that of the only rule that applies.  `AllowNeeds` and `AllowGiven` are the two
  directions of the first.
- `BetterIsNotStricter`: `Spec => ScoreNeverHurts`, an action property.  The lemmas
  whose names begin with `Better` say which rules a better score can switch on
  or off.
- `ConflictsAreKnown`: `Spec => []OnlyKnownConflicts`.

**DecisionProofs** (assumes `DecisionAssumption`: readings within the range of
the models).
- `TypeCorrect`, `ThreatsDenied`, `OthersPass` and `ShownIsStricter` prove `TypeOK`,
  `LikelyThreatDenied`, `UnlikelyThreatPasses` and `ShownNotLaxer` of
  `AccessDecision`.  None but the first is inductive: they say nothing of how the
  score on the page came about.  The invariant `DecisionInv` does: the score is the
  one computed from the reading and the decision the one on that score, and
  neither is left over from an earlier run.  The bounds on the rounded score come
  from the lemma `ScoreBounds`, the rules from `PolicyProofs`, whose lemmas are used
  through an instance (`Facts`).
- `NoneIsAllowed`: if `score_samples` stays below -0.002, neither engine answers
  ALLOW to any request.  The library keeps it below -0.29 (external), so this
  is what the run `decision_allow` shows for one reading, for all of them.  The
  hypothesis is tight: at -0.002 and a probability of 0 the score is 80.

**DashboardProofs** (assumes `DashboardAssumption`: readings within the range of
the models, a log of at least one entry).
- `TypeCorrect`; lemma `PrependLog` says what the capped log is after an entry.
- `ColoursRight`: `Spec => []ColoursAgree`.  Inductive with the types is
  `Consistent`: a score on the page or in the log comes with the verdict made
  of it, or neither is there.
- `LogMatches`: `Spec => []LogMatchesResult`, inductive with the types.
- `AuthIsCurrent`: `Spec => []AuthAnswerCurrent`.  The invariant `AuthInv` adds
  that all logins under way are the last click or ones it met, and that the
  last click is under way, or the answer shown is its own or of one it met.
- `Implements`: `Spec => ImplementsDecision`.  The form, the log and the logins
  are stuttering steps of `AccessDecision`, the others map one to one; the
  lemmas `SameScore`, `SameAction` and `SameDecision` identify the operators of
  both modules.
- `PageDecidesWell`: `Spec => []` of `AccessDecision`'s `LikelyThreatDenied`,
  `UnlikelyThreatPasses` and `ShownNotLaxer`, under the refinement mapping.  It is
  `Implements` with the theorems of `DecisionProofs`, taken through an instance
  (`Promises`); the lemmas whose names begin with `Same` identify the operators.

**GatewayProofs** (assumes `GatewayAssumption`: the limits are natural numbers, a
configuration has finitely many prefixes, and paths are sequences of pieces
that begin with `/`).
- `TypeCorrect`, by lemmas on the one request that moves (`StepType`).
- `LogIsTrue`: `Spec => []LogTellsClient`.  `Honest` says what is known of a
  request before it is done, for instance that it carries no line before `Log`
  and that only a preflight is at `"logged"` without one; `Told` is the property
  itself for one request.
- `KilledWereSlow`: `ShutdownTimeout =< WriteTimeout` implies
  `Spec => []KilledAreSlow`.  The invariant `DrainInv` bounds the time since the
  signal by the age of every request (`Old`): a connection without a request
  was there before the signal and is closed within the grace.  The hypothesis
  keeps the cut-off of ages above the shutdown timeout; the defaults are 10 s
  and 15 s.
- `RoutesAreRight`: `Spec => []RoutedRight`, for every finite configuration.
  `RouteInv` keeps the list sorted; `AllListed` says that every prefix is in it,
  `MatchIsFirst` that the first one that fits is taken, and `LongestMatch` that
  this one is longest; `FromHead` is the case of the base path `/`.

**ServiceProofs** covers three specifications that share no state and extends
all three.  That is why the top-level names of `ModelStore` and `ZtnaSdk` carry a
prefix (`StoreInit`, `SdkNext`), as those of `AdmissionWindow` do.

*ModelStore* (assumes `ModelStoreAssumption`: any bound on the crashes).
- `StoreTypeCorrect` and `CrashesTear`: `StoreSpec => []TornOnlyByCrash`, for any
  number of workers.  No step of a worker tears a file (`RunTearsNone`), for a
  writer whose bytes were truncated meanwhile leaves the file to the one that
  truncated it; a kill leaves at most the file the worker was at (`KillTearsOne`).

*ZtnaSdk* (assumes `SdkAssumption`: scores from 0 to 100 points).
- `SdkAnswersJustified`: `SdkSpec => []AnswerJustified`.  `SdkInv` adds to it and to
  the types that the score and the action attached to a request say how the fetch
  ended (`Attached`), and that a request that is checked has something attached
  by the time it comes to `ztnaProtect`.
- `OnlyFailuresPass`: where no score reaches 80, as `NoneIsAllowed` says of this
  engine, a protected handler runs only in fail-open mode and for a request for
  which the engine could not be asked.

*Health* (assumes `HealthAssumption`: a deadline of at least a tick and
shorter than the interval).
- `TypeCorrect`.
- `CardsAreRecent`: `Spec => []ShownIsRecent`.  The invariant `RecentInv` says that
  at most one poll of the interval is under way, as old as the time since the
  interval fired, and how old a reading may be before and after it is in
  (`Pending`).  Polls of the Refresh button only ever bring readings younger than
  a deadline.
- `OlderOnlyByRefresh`: `Spec => OnlyRefreshGoesBack`, an action property that
  follows from `RecentInv`.

Only model-checked is all liveness (`AutoLock`, `LockTakesHold`, `ReplacedIsRetired`,
`IdleEntryDropped`, `ServesUnlessTorn`, `AnsweredUnlessDropped`, `UpIsShown`,
`Stops`), which is out of the prover's reach; the safety halves of
`LockTakesHold` and `ReplacedIsRetired` are theorems, and that of `AutoLock` is
`LockNeverForgotten`.  Every safety property of a passing run is proved.

## 5. Where the code and its texts disagree

Each run states the text as a property and TLC finds the counterexample.

| run | the text | what happens |
|---|---|---|
| `mfa_enrollment` | `README.md:81` "Enroll MFA (JWT required)", `peach.md:98` "silently renew their access token" | `token.go:49` leaves the username of a renewed token empty; `totp.Generate` refuses that, and enrolment fails with 500 until the next login |
| `decision_allow` | `slide.md:124` "ALLOW — Trust ≥ 80" for the trusted employee | the anomaly part gives 14 of its 40 points at most; no score reaches 80 |

Noticed, without a run of their own:
- `peach.md:153` says "Account is locked → DENY — regardless of score"; when
  another rule applies as well, the query fails.  `IndicatorsNeverPass` states
  what does hold: it is never more than that.
- `dashboard/src/app/tests/page.tsx:126` is named "Policy — High Trust → ALLOW".
  At 90 or more on a trusted device two rules apply with different reasons and
  there is no answer; `AllowedExactly` states the limit.
- `peach.md:148` says of a score of 90 that the "device doesn't even need to be
  registered".  Such a device, sent as `device_trusted: false`, makes two rules
  answer as well; only a query that leaves the field out is allowed
  (`AllowedExactly`).
- `docs/page.tsx:114` describes an option `timeout` as "HTTP timeout in ms for ML
  requests".  `fetchJSON` always uses `DEFAULT_CONFIG.timeout`, and a connection
  that breaks after the head settles nothing, so that the request is never
  answered; `AnsweredUnlessDropped` names that exception.
- A worker of the ML engine killed while it writes leaves a partial file, and
  every later start fails: `TornOnlyByCrash` states that nothing else leaves one,
  `ServesUnlessTorn` that nothing else keeps a worker from serving.
- The gateway strips the prefix after the director joined the base path of the
  upstream, so that with a base path nothing is stripped; a prefix also matches
  in the middle of a segment (`/api` takes `/apiary`, and asks the upstream for
  a path without a leading slash).  `RoutedRight` says when a path comes out
  right.
- The gateway's transport waits 30 s for a response head while its write
  deadline is 15 s: the 502 it then logs reaches no client.  Preflights leave no
  log line, and a `POST /health` goes to an upstream.
- The whole stack lets through any bearer token; none is validated.
- A success between the read-back and the lock resets the counter, and the
  account is locked with no failure recorded (`login.go:157-160`).
  `LockJustified` states what does hold: the failures were counted before.
- `login.go:109` says "If MFA is enabled, issue a partial token (mfa_done=false)"
  and `mfa.go:141` "MFA passed — issue a full token with mfa_done=true".  A login
  with MFA on gets a refresh token as well, and a renewed token has `mfa_done` set
  whatever the session had (`token.go:49`).  `LateLoginBound` does not speak of
  these tokens.
- The score route's own fallback, 50 points and CHALLENGE when a model is not
  loaded (`score.py:47-54`), cannot be reached: a worker loads both before it
  serves.  `AccessDecision` leaves it out.
- `login.go:75` calls the lock temporary and `config.json` has a
  `lockout_duration_minutes`; no code lifts a lock or reads the value.
- `config.Load` of the gateway accepts any burst, rate and cleanup interval,
  also those that are not `WellSized`.
- `QUARANTINE` is never answered: whenever its rule applies, `critical` does
  too.  At a score of 70 or more with an anomaly no IoT rule applies.
- In fail-closed mode the SDK challenges and does not deny; in fail-open mode
  an error *answer* of the engine is challenged all the same.  The middleware
  does not pass on `defaultMinScore` either, and a `minTrustScore` of 0 counts as 40.
- The feedback route says `baseline_updated` and updates nothing.

## 6. Not modelled

- Cryptography and libraries: bcrypt, TOTP, JWT signatures, the classifiers,
  Mongo's own replication.  What they answer is a free choice where it matters.
- Connection set-up, index creation, health endpoints, logging formats, page
  layout: no decisions, no shared state.
- `policies/data`: referenced by no rule.
- The feedback route: no state.
- The landing page, the layout, the navigation bar and the documentation page of
  the dashboard: presentation.  Their state is a chosen section and the mark of a
  copied block, which a timer takes back.
- The test page: it runs one request after another for a person to read.  A
  silent service stops its `runAll`, for no request has a timeout.  A test may be
  started again while it runs: the first answer marks it passed or failed, and
  the last one stays.
- `lib/api.ts`: no page imports it; it repeats what `Dashboard` and `Health` model.
- `config.go` beyond the shape of the target list, the lifetimes of tokens, and
  `extract_features`, whose effect `AccessDecision` covers by taking every
  reading of the models as possible.

## 7. Plan

The order put first what protects the system: the lock and the second factor,
then the limiter, the rules, the score and the places where they meet; then the
pieces around them, the page and the server.  These are modelled, and each
run asks a question of its own.  What is left:

The test page, should it grow a state that anything depends on.

## 8. Running it

    tlasany Login.tla
    tlc -workers 2 -config Login.cfg Login
    tlapm LoginProofs.tla

`PROJECT.json` lists the runs, the definitions with the source lines they
model, the hazards and the theorems.  All runs together take about
seven minutes; `rate_limiter`, `health` and `gateway` take most of them.
