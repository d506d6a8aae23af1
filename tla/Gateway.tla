------------------------------- MODULE Gateway -------------------------------
(***************************************************************************)
(* The proxy gateway as a server (proxy-gateway/cmd/proxy/main.go): the    *)
(* middleware stack and the reverse proxy answer requests concurrently,    *)
(* next to the write deadline of the server and its graceful shutdown.     *)
(*                                                                         *)
(* A handler runs in a goroutine of its own; once it has returned, its log *)
(* line is written and then net/http (external) flushes the response.  The *)
(* verdict of the rate limiter is left open here, RateLimiter models it.   *)
(*                                                                         *)
(* Time passes in ticks of five seconds and what happens, happens at a     *)
(* tick: at the very end of a time limit both orders are possible.  The    *)
(* transport waits 30 s for a response head, twice the write deadline, and *)
(* a dial has no limit: an upstream may fail at any age of a request.      *)
(*                                                                         *)
(* A path is a sequence of its pieces, "/" being one: <<"/", "api">>; it   *)
(* is absolute, as that of any request but a CONNECT.                      *)
(***************************************************************************)
EXTENDS Integers, SequencesExt

CONSTANTS Reqs,             (* requests, each on a connection of its own      *)
          Configurations,   (* PROXY_TARGETS: prefix -> base path of its URL  *)
          Paths,            (* the paths clients ask for                      *)
          AuthEnabled,      (* AUTH_ENABLED                                   *)
          WriteTimeout,     (* SERVER_WRITE_TIMEOUT, 15 s; also ReadTimeout   *)
          ShutdownTimeout,  (* SERVER_SHUTDOWN_TIMEOUT, 10 s                  *)
          NewGrace          (* external: Shutdown keeps a connection without  *)
                            (* a request for 5 s                              *)

ASSUME GatewayAssumption ==
  /\ \A t \in Configurations : LET given == DOMAIN t IN
       IsFiniteSet(given) /\ given \subseteq Seq(STRING) /\ \A p \in given : t[p] \in Seq(STRING)
  /\ Paths \subseteq Seq(STRING) /\ \A path \in Paths : path # <<>> /\ Head(path) = "/"
  /\ AuthEnabled \in BOOLEAN
  /\ WriteTimeout \in Nat \ {0} /\ ShutdownTimeout \in Nat \ {0} /\ NewGrace \in Nat

VARIABLES targets,    (* rp.targets                                           *)
          prefixes,   (* rp.prefixes                                          *)
          server,     (* the process                                          *)
          since,      (* ticks since the signal                               *)
          req         (* each request: where it stands, its age, the status   *)
                      (* of its response, its log line, what the client got   *)

vars == <<targets, prefixes, server, since, req>>

Root == <<"/">>
MaxAge == WriteTimeout + 1   (* bound: ages beyond it differ in nothing       *)

Places == {"closed", "new", "upstream", "body", "written", "logged", "done"}
StatusBadGateway == 502
Statuses == {0, 200, 204, 401, 404, 429, StatusBadGateway}   (* 0 for none     *)
Requests == [pc : Places, age : 0..MaxAge, status : Statuses, line : Statuses,
             got : {"nothing", "response", "cut", "left"}]

TypeOK ==
  /\ targets \in Configurations
  /\ prefixes \in SetToSeqs(DOMAIN targets)
  /\ server \in {"up", "draining", "stopped", "killed"}
  /\ since \in 0..ShutdownTimeout
  /\ req \in [Reqs -> Requests]

Sorted_ShortestFirst(s) == \A i, j \in DOMAIN s : i < j => Len(s[i]) =< Len(s[j])

(* proxy.New: the prefixes come out of a map in any order and are sorted   *)
(* longest first, which leaves the order of equally long ones open.        *)
Sorted(s) == \A i, j \in DOMAIN s : i < j => Len(s[i]) >= Len(s[j])

Init ==
  /\ targets \in Configurations
  /\ prefixes \in {s \in SetToSeqs(DOMAIN targets) : Sorted(s)}
  /\ server = "up" /\ since = 0
  /\ req = [r \in Reqs |->
              [pc |-> "closed", age |-> 0, status |-> 0, line |-> 0, got |-> "nothing"]]
-----------------------------------------------------------------------------
(* ReverseProxy.ServeHTTP: the first prefix in the list that fits, if any  *)
(* does.                                                                   *)
Fits(path) == {i \in DOMAIN prefixes : IsPrefix(prefixes[i], path)}
Match(path) == prefixes[Min(Fits(path))]

(* External: httputil joins the two paths with one slash between them.     *)
Joined(base, path) ==
  IF base # <<>> /\ Last(base) = "/" THEN base \o Tail(path) ELSE base \o path

(* The director: the base path of the upstream is joined first, and then   *)
(* the prefix is stripped from what came out, unless it is the root.       *)
Stripped(prefix, path) ==
  LET joined == Joined(targets[prefix], path)
      rest == IF prefix # Root /\ IsPrefix(prefix, joined)
              THEN SubSeq(joined, Len(prefix) + 1, Len(joined)) ELSE joined
  IN  IF rest = <<>> THEN Root ELSE rest

HEALTH == <<"/", "health">>

(* The middleware stack in its order; 0 stands for a request that goes to  *)
(* an upstream.  /health is limited, but asks for no token, and the router *)
(* sends other methods than GET for it on to the upstream.                 *)
Stack(method, allowed, bearer, path) ==
  IF method = "OPTIONS" THEN 204
  ELSE IF ~allowed THEN 429
  ELSE IF AuthEnabled /\ ~bearer /\ path # HEALTH THEN 401
  ELSE IF method = "GET" /\ path = HEALTH THEN 200
  ELSE IF Fits(path) = {} THEN 404
  ELSE 0

Alive == server \in {"up", "draining"}
InFlight(r) == req[r].pc \in {"upstream", "body", "written", "logged"}

(* Request r stands at one place and becomes q.                            *)
Step(r, from, q) ==
  /\ Alive /\ req[r].pc = from
  /\ req' = [req EXCEPT ![r] = q]
  /\ UNCHANGED <<targets, prefixes, server, since>>

Accept(r) == server = "up" /\ Step(r, "closed", [req[r] EXCEPT !.pc = "new", !.age = 0])

Answers ==
  {Stack(method, allowed, bearer, path) :
     method \in {"GET", "POST", "OPTIONS"}, allowed, bearer \in BOOLEAN, path \in Paths}

(* CORS answers a preflight outside of the logging middleware.             *)
After(status) ==
  CASE status = 0 -> "upstream" [] status = 204 -> "logged" [] OTHER -> "written"

(* A request arrives whole and its handler runs up to an answer, or to the *)
(* upstream.                                                               *)
Arrive(r) ==
  /\ req[r].pc = "new"
  /\ \E status \in Answers :
       Step(r, "new", [req[r] EXCEPT !.pc = After(status), !.age = 0, !.status = status])

(* The head of the upstream's answer is here and passed on.                *)
UpstreamHead(r) == Step(r, "upstream", [req[r] EXCEPT !.pc = "body", !.status = 200])

(* Unreachable, too slow with its head, or the client left: ErrorHandler.  *)
UpstreamFails(r) ==
  Step(r, "upstream", [req[r] EXCEPT !.pc = "written", !.status = StatusBadGateway])

BodyDone(r) == Step(r, "body", [req[r] EXCEPT !.pc = "written"])

(* What the client got, unless it left.                                    *)
Got(r, what) == IF req[r].got = "left" THEN "left" ELSE what

(* The body cannot be read, or no longer be written: httputil panics with  *)
(* ErrAbortHandler, which Recoverer passes on, past the logging.           *)
BodyBreaks(r) == Step(r, "body", [req[r] EXCEPT !.pc = "done", !.got = Got(r, "cut")])

Log_Uncaptured(r) == Step(r, "written", [req[r] EXCEPT !.pc = "logged", !.line = 200])

(* The handler returned: the line with the captured status.                *)
Log(r) == Step(r, "written", [req[r] EXCEPT !.pc = "logged", !.line = req[r].status])

(* External: the response goes out, unless the write deadline is past.     *)
Flush(r) ==
  \/ /\ req[r].age =< WriteTimeout
     /\ Step(r, "logged", [req[r] EXCEPT !.pc = "done", !.got = Got(r, "response")])
  \/ /\ req[r].age >= WriteTimeout
     /\ Step(r, "logged", [req[r] EXCEPT !.pc = "done"])

(* External: the client closes its connection.                             *)
ClientLeaves(r) == InFlight(r) /\ Step(r, req[r].pc, [req[r] EXCEPT !.got = "left"])

(* External: a connection that sends no request is closed, by the read     *)
(* deadline or by Shutdown.                                                *)
CloseNew(r) ==
  /\ req[r].age >= IF server = "draining" THEN NewGrace ELSE WriteTimeout
  /\ Step(r, "new", [req[r] EXCEPT !.pc = "closed"])

Signal ==
  /\ server = "up"
  /\ server' = "draining"
  /\ UNCHANGED <<targets, prefixes, since, req>>

(* srv.Shutdown returns when no connection is left.                        *)
Drained ==
  /\ server = "draining" /\ \A r \in Reqs : req[r].pc \in {"closed", "done"}
  /\ server' = "stopped"
  /\ UNCHANGED <<targets, prefixes, since, req>>

Forced_CancelledAtOnce ==
  /\ server = "draining"
  /\ server' = "killed"
  /\ UNCHANGED <<targets, prefixes, since, req>>

Forced_NoTimeout == FALSE /\ UNCHANGED vars

(* Or when its context expires: log.Fatal ends the process.                *)
Forced ==
  /\ server = "draining" /\ since = ShutdownTimeout
  /\ server' = "killed"
  /\ UNCHANGED <<targets, prefixes, since, req>>

(* Five seconds.  Shutdown acts on a limit before they are over.           *)
Tick ==
  /\ Alive
  /\ server = "draining" =>
       /\ since < ShutdownTimeout
       /\ \A r \in Reqs : req[r].pc = "new" => req[r].age < NewGrace
  /\ since' = IF server = "draining" THEN since + 1 ELSE 0
  /\ req' = [r \in Reqs |->
               IF (InFlight(r) \/ req[r].pc = "new") /\ req[r].age < MaxAge
               THEN [req[r] EXCEPT !.age = @ + 1] ELSE req[r]]
  /\ UNCHANGED <<targets, prefixes, server>>

Handle(r) ==
  \/ Arrive(r) \/ UpstreamHead(r) \/ UpstreamFails(r)
  \/ BodyDone(r) \/ BodyBreaks(r) \/ Log(r) \/ Flush(r)

Next ==
  \/ \E r \in Reqs : Accept(r) \/ Handle(r) \/ ClientLeaves(r) \/ CloseNew(r)
  \/ Signal \/ Drained \/ Forced \/ Tick

(* The runtime keeps its timers and runs what is due; an upstream, a body  *)
(* or a client need never move.                                            *)
Fairness ==
  /\ WF_vars(Tick) /\ WF_vars(Drained) /\ WF_vars(Forced)
  /\ \A r \in Reqs : WF_vars(CloseNew(r))

Spec == Init /\ [][Next]_vars /\ Fairness
-----------------------------------------------------------------------------
(* The log agrees with the clients (logging.go:53).  A response that got   *)
(* out has a line with its status, a preflight alone has none; a response  *)
(* cut off has no line.  A line stands for a response the client did not   *)
(* get only when it had left, or when the handler was slower than the      *)
(* write deadline (reverseproxy.go:79 against config.go:53).               *)
LogTellsClient ==
  \A r \in Reqs : LET q == req[r] IN
    q.pc = "done" =>
      /\ q.got = "response" => q.line = IF q.status = 204 THEN 0 ELSE q.status
      /\ q.got = "cut" => q.line = 0 /\ q.status = 200
      /\ q.got = "nothing" => q.age >= WriteTimeout

(* A path is only refused when no prefix matches it, and goes to the       *)
(* upstream with the longest one that does; where that prefix ends with a  *)
(* segment and the upstream's URL has no path, or the path "/", the        *)
(* upstream is asked for the rest of the path, which is absolute.          *)
RoutedRight ==
  \A path \in Paths :
    /\ \A p \in DOMAIN targets : IsPrefix(p, path) =>
         Fits(path) # {} /\ Len(p) =< Len(Match(path))
    /\ Fits(path) # {} =>
         LET prefix == Match(path)
             bare == targets[prefix] \in {<<>>, Root}
             sent == Stripped(prefix, path)
             whole == Len(prefix) = Len(path) \/ path[Len(prefix) + 1] = "/"
         IN  /\ prefix = Root /\ bare => sent = path
             /\ prefix # Root /\ whole /\ bare =>
                  sent[1] = "/" /\ path \in {prefix, prefix \o sent}

(* A shutdown cuts off no quick request: one that is under way when the    *)
(* process is killed has been so for the shutdown timeout, less the time a *)
(* new connection may take to send its request (main.go:123-128).          *)
KilledAreSlow ==
  server = "killed" =>
    \A r \in Reqs : InFlight(r) => req[r].age >= ShutdownTimeout - NewGrace

(* After a signal the process ends, whatever upstreams and clients do.     *)
Stops == server = "draining" ~> server \in {"stopped", "killed"}
=============================================================================
