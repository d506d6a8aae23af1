---------------------------- MODULE GatewayProofs ----------------------------
(***************************************************************************)
(* The log and the shutdown of the gateway, for every set of requests, all *)
(* configurations and all time limits.                                     *)
(***************************************************************************)
EXTENDS Gateway, FiniteSetTheorems, SequenceTheorems, WellFoundedInduction, TLAPS

(* What is known of a request before it is done: a line is only written of *)
(* the status that goes out, and only a preflight reaches "logged" without.*)
Honest(q) ==
  /\ q.pc \in {"closed", "new", "upstream"} => q.status = 0
  /\ q.pc = "body" => q.status = 200
  /\ q.pc = "written" => q.status \notin {0, 204}
  /\ q.pc \in {"closed", "new", "upstream", "body", "written"} =>
       q.line = 0 /\ q.got \in {"nothing", "left"}
  /\ q.pc = "logged" =>
       q.line = (IF q.status = 204 THEN 0 ELSE q.status) /\ q.got \in {"nothing", "left"}

(* LogTellsClient of one request.                                          *)
Told(q) ==
  q.pc = "done" =>
    /\ q.got = "response" => q.line = IF q.status = 204 THEN 0 ELSE q.status
    /\ q.got = "cut" => q.line = 0 /\ q.status = 200
    /\ q.got = "nothing" => q.age >= WriteTimeout

LogInv == TypeOK /\ \A r \in Reqs : Honest(req[r]) /\ Told(req[r])

(* During a shutdown, a connection without a request was there before the  *)
(* signal and is young; one with a request is old enough.                  *)
Old(q) ==
  /\ q.pc = "new" /\ since > 0 => since =< q.age /\ since =< NewGrace
  /\ q.pc \in {"upstream", "body", "written", "logged"} => q.age >= since - NewGrace

DrainInv ==
  /\ TypeOK
  /\ server = "up" => since = 0
  /\ server = "killed" => since = ShutdownTimeout
  /\ \A r \in Reqs : Old(req[r])
-----------------------------------------------------------------------------
LEMMA AnswersType == Answers \subseteq Statuses \ {StatusBadGateway}
BY DEF Answers, Stack, Statuses, StatusBadGateway

(* A request with a new place and a new status, of age a, is a request.    *)
LEMMA RequestType ==
  ASSUME NEW q \in Requests, NEW c \in Places, NEW a \in 0..MaxAge, NEW s \in Statuses
  PROVE  [q EXCEPT !.pc = c, !.age = a, !.status = s] \in Requests
BY DEF Requests

LEMMA MovedType ==
  ASSUME NEW q \in Requests, NEW c \in Places, NEW s \in Statuses
  PROVE  [q EXCEPT !.pc = c, !.status = s] \in Requests
BY DEF Requests

LEMMA OpenedType ==
  ASSUME NEW q \in Requests, NEW c \in Places, NEW a \in 0..MaxAge
  PROVE  [q EXCEPT !.pc = c, !.age = a] \in Requests
BY DEF Requests

LEMMA StepType ==
  ASSUME TypeOK, NEW r \in Reqs, NEW from, NEW q \in Requests, Step(r, from, q)
  PROVE  TypeOK'
BY DEF TypeOK, Step

LEMMA GotType ==
  ASSUME TypeOK, NEW r \in Reqs, NEW g \in {"response", "cut"}
  PROVE  Got(r, g) \in {"nothing", "response", "cut", "left"}
BY DEF Got

LEMMA TypeStep == TypeOK /\ [Next]_vars => TypeOK'
<1> SUFFICES ASSUME TypeOK, [Next]_vars PROVE TypeOK'
  OBVIOUS
<1>a. \A r \in Reqs : req[r] \in Requests
  BY DEF TypeOK
<1>b. 0 \in 0..MaxAge /\ 200 \in Statuses /\ StatusBadGateway \in Statuses
  BY GatewayAssumption DEF MaxAge, Statuses
<1>c. "new" \in Places /\ "body" \in Places /\ "written" \in Places
  BY DEF Places
<1>1. ASSUME NEW r \in Reqs, Accept(r) PROVE TypeOK'
  <2>1. [req[r] EXCEPT !.pc = "new", !.age = 0] \in Requests
    BY <1>a, <1>b, <1>c, OpenedType
  <2>2. QED
    BY <1>1, <2>1, StepType DEF Accept
<1>2. ASSUME NEW r \in Reqs, Arrive(r) PROVE TypeOK'
  <2>1. PICK s \in Statuses :
          Step(r, "new", [req[r] EXCEPT !.pc = After(s), !.age = 0, !.status = s])
    BY <1>2, AnswersType DEF Arrive
  <2>2. After(s) \in Places
    BY DEF After, Places
  <2>3. QED
    <3>1. [req[r] EXCEPT !.pc = After(s), !.age = 0, !.status = s] \in Requests
      BY <2>2, <1>a, <1>b, RequestType
    <3>2. QED
      BY <2>1, <3>1, StepType
<1>3. ASSUME NEW r \in Reqs, UpstreamHead(r) PROVE TypeOK'
  <2>1. [req[r] EXCEPT !.pc = "body", !.status = 200] \in Requests
    BY <1>a, <1>b, <1>c, MovedType
  <2>2. QED
    BY <1>3, <2>1, StepType DEF UpstreamHead
<1>4. ASSUME NEW r \in Reqs, UpstreamFails(r) PROVE TypeOK'
  <2>1. [req[r] EXCEPT !.pc = "written", !.status = StatusBadGateway] \in Requests
    BY <1>a, <1>b, <1>c, MovedType
  <2>2. QED
    BY <1>4, <2>1, StepType DEF UpstreamFails
<1>5. ASSUME NEW r \in Reqs, BodyDone(r) PROVE TypeOK'
  <2>1. [req[r] EXCEPT !.pc = "written"] \in Requests
    BY <1>a DEF Requests, Places
  <2>2. QED
    BY <1>5, <2>1, StepType DEF BodyDone
<1>6. ASSUME NEW r \in Reqs, BodyBreaks(r) PROVE TypeOK'
  <2>1. [req[r] EXCEPT !.pc = "done", !.got = Got(r, "cut")] \in Requests
    BY <1>a, GotType DEF Requests, Places
  <2>2. QED
    BY <1>6, <2>1, StepType DEF BodyBreaks
<1>7. ASSUME NEW r \in Reqs, Log(r) PROVE TypeOK'
  <2>1. [req[r] EXCEPT !.pc = "logged", !.line = req[r].status] \in Requests
    BY <1>a DEF Requests, Places
  <2>2. QED
    BY <1>7, <2>1, StepType DEF Log
<1>8. ASSUME NEW r \in Reqs, Flush(r) PROVE TypeOK'
  <2>1. /\ [req[r] EXCEPT !.pc = "done"] \in Requests
        /\ [req[r] EXCEPT !.pc = "done", !.got = Got(r, "response")] \in Requests
    BY <1>a, GotType DEF Requests, Places
  <2>2. QED
    BY <1>8, <2>1, StepType DEF Flush
<1>9. ASSUME NEW r \in Reqs, ClientLeaves(r) PROVE TypeOK'
  <2>1. [req[r] EXCEPT !.got = "left"] \in Requests
    BY <1>a DEF Requests
  <2>2. QED
    BY <1>9, <2>1, StepType DEF ClientLeaves
<1>10. ASSUME NEW r \in Reqs, CloseNew(r) PROVE TypeOK'
  <2>1. [req[r] EXCEPT !.pc = "closed"] \in Requests
    BY <1>a DEF Requests, Places
  <2>2. QED
    BY <1>10, <2>1, StepType DEF CloseNew
<1>11. ASSUME Signal \/ Drained \/ Forced PROVE TypeOK'
  BY <1>11 DEF Signal, Drained, Forced, TypeOK
<1>12. ASSUME Tick PROVE TypeOK'
  <2>1. ASSUME NEW r \in Reqs PROVE req'[r] \in Requests
    <3>1. \/ req[r].age < MaxAge /\ req'[r] = [req[r] EXCEPT !.age = @ + 1]
          \/ req'[r] = req[r]
      BY <1>12 DEF Tick
    <3>2. req[r].age < MaxAge => req[r].age + 1 \in 0..MaxAge
      BY <1>a, GatewayAssumption DEF MaxAge, Requests
    <3>3. QED
      BY <3>1, <3>2, <1>a DEF Requests
  <2>2. since' \in 0..ShutdownTimeout
    BY <1>12, GatewayAssumption DEF Tick, TypeOK
  <2>3. req' \in [Reqs -> Requests]
    BY <2>1, <1>12 DEF Tick
  <2>4. QED
    BY <2>2, <2>3, <1>12 DEF Tick, TypeOK
<1>13. CASE UNCHANGED vars
  BY <1>13 DEF vars, TypeOK
<1>14. QED
  BY <1>1, <1>2, <1>3, <1>4, <1>5, <1>6, <1>7, <1>8, <1>9, <1>10, <1>11, <1>12, <1>13
     DEF Next, Handle

(* Every variable keeps its type.                                          *)
THEOREM TypeCorrect == Spec => []TypeOK
<1>1. Init => TypeOK
  BY GatewayAssumption DEF Init, TypeOK, Requests, Places, Statuses, MaxAge
<1>2. QED
  BY <1>1, TypeStep, PTL DEF Spec
-----------------------------------------------------------------------------
LEMMA OneMoves ==
  ASSUME TypeOK, NEW r \in Reqs, NEW from, NEW q, Step(r, from, q)
  PROVE  /\ req[r].pc = from /\ req'[r] = q
         /\ \A x \in Reqs : x # r => req'[x] = req[x]
         /\ server' = server /\ since' = since /\ Alive
BY DEF TypeOK, Step

(* A step of one request keeps what holds of each.                         *)
LEMMA LogStep ==
  ASSUME LogInv, NEW r \in Reqs, NEW from, NEW q, Step(r, from, q), Honest(q), Told(q), TypeOK'
  PROVE  LogInv'
<1>1. ASSUME NEW x \in Reqs PROVE (Honest(req[x]) /\ Told(req[x]))'
  <2>1. CASE x = r
    BY <2>1, OneMoves DEF LogInv, Honest, Told
  <2>2. CASE x # r
    BY <2>2, OneMoves DEF LogInv, Honest, Told
  <2>3. QED
    BY <2>1, <2>2
<1>2. QED
  BY <1>1 DEF LogInv

LEMMA LogInduction == LogInv /\ [Next]_vars => LogInv'
<1> SUFFICES ASSUME LogInv, [Next]_vars PROVE LogInv'
  OBVIOUS
<1>t. TypeOK /\ TypeOK'
  BY TypeStep DEF LogInv
<1>a. \A r \in Reqs : req[r] \in Requests /\ Honest(req[r]) /\ Told(req[r])
  BY <1>t DEF LogInv, TypeOK
<1>1. ASSUME NEW r \in Reqs, Accept(r) PROVE LogInv'
  <2> DEFINE q == [req[r] EXCEPT !.pc = "new", !.age = 0]
  <2>1. Step(r, req[r].pc, q) /\ req[r].pc = "closed"
    BY <1>1, <1>t, OneMoves DEF Accept, Step
  <2>2. Honest(q) /\ Told(q)
    BY <2>1, <1>a DEF Requests, Honest, Told
  <2>3. QED
    BY <2>1, <2>2, <1>t, LogStep
<1>2. ASSUME NEW r \in Reqs, Arrive(r) PROVE LogInv'
  <2>1. PICK s \in Statuses \ {StatusBadGateway} :
          Step(r, "new", [req[r] EXCEPT !.pc = After(s), !.age = 0, !.status = s])
    BY <1>2, AnswersType DEF Arrive
  <2> DEFINE q == [req[r] EXCEPT !.pc = After(s), !.age = 0, !.status = s]
  <2>2. req[r].pc = "new"
    BY <2>1, <1>t, OneMoves
  <2>3. Honest(q) /\ Told(q)
    BY <2>1, <2>2, <1>a DEF Requests, Statuses, Honest, Told, After
  <2>4. QED
    BY <2>1, <2>3, <1>t, LogStep
<1>3. ASSUME NEW r \in Reqs, UpstreamHead(r) PROVE LogInv'
  <2> DEFINE q == [req[r] EXCEPT !.pc = "body", !.status = 200]
  <2>1. Step(r, req[r].pc, q) /\ req[r].pc = "upstream"
    BY <1>3, <1>t, OneMoves DEF UpstreamHead, Step
  <2>2. Honest(q) /\ Told(q)
    BY <2>1, <1>a DEF Requests, Honest, Told
  <2>3. QED
    BY <2>1, <2>2, <1>t, LogStep
<1>4. ASSUME NEW r \in Reqs, UpstreamFails(r) PROVE LogInv'
  <2> DEFINE q == [req[r] EXCEPT !.pc = "written", !.status = StatusBadGateway]
  <2>1. Step(r, req[r].pc, q) /\ req[r].pc = "upstream"
    BY <1>4, <1>t, OneMoves DEF UpstreamFails, Step
  <2>2. StatusBadGateway \notin {0, 204}
    BY DEF StatusBadGateway
  <2>3. Honest(q) /\ Told(q)
    BY <2>1, <2>2, <1>a DEF Requests, Honest, Told
  <2>4. QED
    BY <2>1, <2>3, <1>t, LogStep
<1>5. ASSUME NEW r \in Reqs, BodyDone(r) PROVE LogInv'
  <2> DEFINE q == [req[r] EXCEPT !.pc = "written"]
  <2>1. Step(r, req[r].pc, q) /\ req[r].pc = "body"
    BY <1>5, <1>t, OneMoves DEF BodyDone, Step
  <2>2. Honest(q) /\ Told(q)
    BY <2>1, <1>a DEF Requests, Honest, Told
  <2>3. QED
    BY <2>1, <2>2, <1>t, LogStep
<1>6. ASSUME NEW r \in Reqs, BodyBreaks(r) PROVE LogInv'
  <2> DEFINE q == [req[r] EXCEPT !.pc = "done", !.got = Got(r, "cut")]
  <2>1. Step(r, req[r].pc, q) /\ req[r].pc = "body"
    BY <1>6, <1>t, OneMoves DEF BodyBreaks, Step
  <2>2. Honest(q) /\ Told(q)
    BY <2>1, <1>a DEF Requests, Honest, Told, Got
  <2>3. QED
    BY <2>1, <2>2, <1>t, LogStep
<1>7. ASSUME NEW r \in Reqs, Log(r) PROVE LogInv'
  <2> DEFINE q == [req[r] EXCEPT !.pc = "logged", !.line = req[r].status]
  <2>1. Step(r, req[r].pc, q) /\ req[r].pc = "written"
    BY <1>7, <1>t, OneMoves DEF Log, Step
  <2>2. Honest(q) /\ Told(q)
    BY <2>1, <1>a DEF Requests, Honest, Told
  <2>3. QED
    BY <2>1, <2>2, <1>t, LogStep
<1>8. ASSUME NEW r \in Reqs, Flush(r) PROVE LogInv'
  <2>1. CASE Step(r, "logged", [req[r] EXCEPT !.pc = "done", !.got = Got(r, "response")])
    <3> DEFINE q == [req[r] EXCEPT !.pc = "done", !.got = Got(r, "response")]
    <3>1. req[r].pc = "logged"
      BY <2>1, <1>t, OneMoves
    <3>2. Honest(q) /\ Told(q)
      BY <3>1, <1>a DEF Requests, Honest, Told, Got
    <3>3. QED
      BY <2>1, <3>2, <1>t, LogStep
  <2>2. CASE req[r].age >= WriteTimeout /\ Step(r, "logged", [req[r] EXCEPT !.pc = "done"])
    <3> DEFINE q == [req[r] EXCEPT !.pc = "done"]
    <3>1. req[r].pc = "logged"
      BY <2>2, <1>t, OneMoves
    <3>2. Honest(q) /\ Told(q)
      BY <2>2, <3>1, <1>a DEF Requests, Honest, Told
    <3>3. QED
      BY <2>2, <3>2, <1>t, LogStep
  <2>3. QED
    BY <1>8, <2>1, <2>2 DEF Flush
<1>9. ASSUME NEW r \in Reqs, ClientLeaves(r) PROVE LogInv'
  <2> DEFINE q == [req[r] EXCEPT !.got = "left"]
  <2>1. Step(r, req[r].pc, q) /\ InFlight(r)
    BY <1>9, <1>t, OneMoves DEF ClientLeaves, Step
  <2>2. Honest(q) /\ Told(q)
    BY <2>1, <1>a DEF Requests, InFlight, Honest, Told
  <2>3. QED
    BY <2>1, <2>2, <1>t, LogStep
<1>10. ASSUME NEW r \in Reqs, CloseNew(r) PROVE LogInv'
  <2> DEFINE q == [req[r] EXCEPT !.pc = "closed"]
  <2>1. Step(r, req[r].pc, q) /\ req[r].pc = "new"
    BY <1>10, <1>t, OneMoves DEF CloseNew, Step
  <2>2. Honest(q) /\ Told(q)
    BY <2>1, <1>a DEF Requests, Honest, Told
  <2>3. QED
    BY <2>1, <2>2, <1>t, LogStep
<1>11. ASSUME Signal \/ Drained \/ Forced PROVE LogInv'
  BY <1>11, <1>t DEF Signal, Drained, Forced, LogInv, Honest, Told
<1>12. ASSUME Tick PROVE LogInv'
  <2>1. ASSUME NEW r \in Reqs PROVE (Honest(req[r]) /\ Told(req[r]))'
    <3>1. \/ req[r].pc # "done" /\ req'[r] = [req[r] EXCEPT !.age = @ + 1]
          \/ req'[r] = req[r]
      BY <1>12 DEF Tick, InFlight
    <3>2. QED
      BY <3>1, <1>a DEF Requests, Honest, Told
  <2>2. QED
    BY <2>1, <1>t DEF LogInv
<1>13. CASE UNCHANGED vars
  BY <1>13, <1>t DEF vars, LogInv, Honest, Told
<1>14. QED
  BY <1>1, <1>2, <1>3, <1>4, <1>5, <1>6, <1>7, <1>8, <1>9, <1>10, <1>11, <1>12, <1>13
     DEF Next, Handle

(* Every line in the log tells what its client got, however many requests  *)
(* are served and whatever the time limits are, with the exceptions that   *)
(* the property names.                                                     *)
THEOREM LogIsTrue == Spec => []LogTellsClient
<1>1. Init => LogInv
  <2>1. Init => TypeOK
    BY GatewayAssumption DEF Init, TypeOK, Requests, Places, Statuses, MaxAge
  <2>2. Init => \A r \in Reqs : Honest(req[r]) /\ Told(req[r])
    BY DEF Init, Honest, Told
  <2>3. QED
    BY <2>1, <2>2 DEF LogInv
<1>2. LogInv => LogTellsClient
  BY DEF LogInv, LogTellsClient, Told
<1>3. QED
  BY <1>1, <1>2, LogInduction, PTL DEF Spec
-----------------------------------------------------------------------------
(* A step of one request keeps what holds of the shutdown.                 *)
LEMMA DrainStep ==
  ASSUME DrainInv, NEW r \in Reqs, NEW from, NEW q, Step(r, from, q), Old(q), TypeOK'
  PROVE  DrainInv'
<1>1. /\ req'[r] = q /\ server' = server /\ since' = since
      /\ \A x \in Reqs : x # r => req'[x] = req[x]
  BY OneMoves DEF DrainInv
<1>2. ASSUME NEW x \in Reqs PROVE Old(req[x])'
  BY <1>1 DEF DrainInv, Old
<1>3. QED
  BY <1>1, <1>2 DEF DrainInv

LEMMA DrainInduction ==
  ASSUME ShutdownTimeout =< WriteTimeout, DrainInv, [Next]_vars
  PROVE  DrainInv'
<1>t. TypeOK /\ TypeOK'
  BY TypeStep DEF DrainInv
<1>a. \A r \in Reqs : req[r] \in Requests /\ Old(req[r])
  BY <1>t DEF DrainInv, TypeOK
<1>b. /\ NewGrace \in Nat /\ ShutdownTimeout \in Nat
      /\ WriteTimeout \in Nat /\ since \in Nat
  BY <1>t, GatewayAssumption DEF TypeOK
<1>1. ASSUME NEW r \in Reqs, Accept(r) PROVE DrainInv'
  <2> DEFINE q == [req[r] EXCEPT !.pc = "new", !.age = 0]
  <2>1. Step(r, "closed", q) /\ since = 0
    BY <1>1 DEF Accept, DrainInv
  <2>2. Old(q)
    BY <2>1, <1>a DEF Requests, Old
  <2>3. QED
    BY <2>1, <2>2, <1>t, DrainStep
<1>2. ASSUME NEW r \in Reqs, Arrive(r) PROVE DrainInv'
  <2>1. PICK s :
          Step(r, "new", [req[r] EXCEPT !.pc = After(s), !.age = 0, !.status = s])
    BY <1>2 DEF Arrive
  <2> DEFINE q == [req[r] EXCEPT !.pc = After(s), !.age = 0, !.status = s]
  <2>2. req[r].pc = "new"
    BY <2>1, <1>t, OneMoves
  <2>3. 0 >= since - NewGrace
    BY <2>2, <1>a, <1>b DEF Old
  <2>4. q.age = 0 /\ q.pc # "new"
    BY <1>a DEF Requests, After
  <2>5. Old(q)
    BY <2>3, <2>4 DEF Old
  <2>6. QED
    BY <2>1, <2>5, <1>t, DrainStep
<1>3. ASSUME NEW r \in Reqs, NEW from \in {"upstream", "body", "written", "logged"},
             NEW q, Step(r, from, q), q.age = req[r].age, q.pc # "new"
      PROVE  DrainInv'
  <2>1. req[r].pc = from
    BY <1>3, <1>t, OneMoves
  <2>2. Old(q)
    BY <2>1, <1>3, <1>a DEF Old
  <2>3. QED
    BY <2>2, <1>3, <1>t, DrainStep
<1>4. ASSUME NEW r \in Reqs, UpstreamHead(r) \/ UpstreamFails(r) \/ BodyDone(r)
      PROVE  DrainInv'
  <2>1. \A c \in {"body", "written"}, s \in {200, StatusBadGateway} :
          LET q == [req[r] EXCEPT !.pc = c, !.status = s]
          IN  q.age = req[r].age /\ q.pc # "new"
    BY <1>a DEF Requests
  <2>2. CASE UpstreamHead(r)
    BY <2>1, <2>2, <1>3 DEF UpstreamHead
  <2>3. CASE UpstreamFails(r)
    BY <2>1, <2>3, <1>3 DEF UpstreamFails
  <2>4. CASE BodyDone(r)
    <3>1. LET q == [req[r] EXCEPT !.pc = "written"]
          IN  q.age = req[r].age /\ q.pc # "new"
      BY <1>a DEF Requests
    <3>2. QED
      BY <2>4, <3>1, <1>3 DEF BodyDone
  <2>5. QED
    BY <1>4, <2>2, <2>3, <2>4
<1>5. ASSUME NEW r \in Reqs, BodyBreaks(r) \/ Log(r) \/ Flush(r) PROVE DrainInv'
  <2>1. \A g : LET q == [req[r] EXCEPT !.pc = "done", !.got = g]
               IN  q.age = req[r].age /\ q.pc # "new"
    BY <1>a DEF Requests
  <2>2. LET q == [req[r] EXCEPT !.pc = "done"]
        IN  q.age = req[r].age /\ q.pc # "new"
    BY <1>a DEF Requests
  <2>3. LET q == [req[r] EXCEPT !.pc = "logged", !.line = req[r].status]
        IN  q.age = req[r].age /\ q.pc # "new"
    BY <1>a DEF Requests
  <2>4. QED
    BY <1>5, <2>1, <2>2, <2>3, <1>3 DEF BodyBreaks, Log, Flush
<1>6. ASSUME NEW r \in Reqs, ClientLeaves(r) PROVE DrainInv'
  <2> DEFINE q == [req[r] EXCEPT !.got = "left"]
  <2>1. q.age = req[r].age /\ q.pc = req[r].pc
    BY <1>a DEF Requests
  <2>2. req[r].pc \in {"upstream", "body", "written", "logged"} /\ Step(r, req[r].pc, q)
    BY <1>6 DEF ClientLeaves, InFlight
  <2>3. QED
    BY <2>1, <2>2, <1>3
<1>7. ASSUME NEW r \in Reqs, CloseNew(r) PROVE DrainInv'
  <2> DEFINE q == [req[r] EXCEPT !.pc = "closed"]
  <2>1. Step(r, "new", q) /\ q.pc = "closed"
    BY <1>7, <1>a DEF CloseNew, Requests
  <2>2. Old(q)
    BY <2>1 DEF Old
  <2>3. QED
    BY <2>1, <2>2, <1>t, DrainStep
<1>8. CASE Signal \/ Drained \/ Forced
  <2>1. req' = req /\ since' = since
    BY <1>8 DEF Signal, Drained, Forced
  <2>2. \A r \in Reqs : Old(req[r])'
    BY <2>1, <1>a DEF Old
  <2>3. server' # "up" /\ (server' = "killed" => since' = ShutdownTimeout)
    BY <1>8 DEF Signal, Drained, Forced
  <2>4. QED
    BY <2>2, <2>3, <1>t DEF DrainInv
<1>9. CASE Tick
  <2>1. /\ server' = server /\ server \in {"up", "draining"}
        /\ server = "up" => since' = 0
        /\ server = "draining" => since' = since + 1 /\ since < ShutdownTimeout
    BY <1>9 DEF Tick, Alive
  <2>2. ASSUME NEW r \in Reqs PROVE Old(req[r])'
    <3>1. CASE req[r].pc \in {"upstream", "body", "written", "logged", "new"}
      <4>1. req'[r].pc = req[r].pc /\ req[r].age \in 0..MaxAge
        BY <1>9, <1>a DEF Tick, Requests
      <4>2. req'[r].age = IF req[r].age < MaxAge THEN req[r].age + 1 ELSE req[r].age
        BY <1>9, <1>a, <3>1 DEF Tick, Requests, InFlight
      <4>3. server = "draining" /\ req[r].pc = "new" => req[r].age < NewGrace
        BY <1>9 DEF Tick
      <4>4. CASE server = "up"
        BY <4>1, <4>2, <4>4, <2>1, <1>b DEF Old, MaxAge
      <4>5. CASE server = "draining"
        BY <4>1, <4>2, <4>3, <4>5, <2>1, <1>a, <1>b DEF Old, MaxAge
      <4>6. QED
        BY <4>4, <4>5, <2>1
    <3>2. CASE req[r].pc \notin {"upstream", "body", "written", "logged", "new"}
      <4>1. req'[r] = req[r]
        BY <1>9, <3>2 DEF Tick, InFlight
      <4>2. QED
        BY <4>1, <3>2 DEF Old
    <3>3. QED
      BY <3>1, <3>2
  <2>3. QED
    BY <2>1, <2>2, <1>t DEF DrainInv
<1>10. CASE UNCHANGED vars
  BY <1>10, <1>t DEF vars, DrainInv, Old
<1>11. QED
  BY <1>1, <1>2, <1>4, <1>5, <1>6, <1>7, <1>8, <1>9, <1>10 DEF Next, Handle

(* A shutdown never cuts off a request younger than the shutdown timeout   *)
(* less the grace of a new connection, for all time limits in which the    *)
(* shutdown timeout is at most the write timeout, as it is by default.     *)
THEOREM KilledWereSlow ==
  ASSUME ShutdownTimeout =< WriteTimeout PROVE Spec => []KilledAreSlow
<1>1. Init => DrainInv
  <2>1. Init => TypeOK
    BY GatewayAssumption DEF Init, TypeOK, Requests, Places, Statuses, MaxAge
  <2>2. Init => \A r \in Reqs : Old(req[r])
    BY DEF Init, Old
  <2>3. QED
    BY <2>1, <2>2 DEF Init, DrainInv
<1>2. DrainInv /\ [Next]_vars => DrainInv'
  BY DrainInduction
<1>3. DrainInv => KilledAreSlow
  BY DEF DrainInv, Old, KilledAreSlow, InFlight
<1>4. QED
  BY <1>1, <1>2, <1>3, PTL DEF Spec
-----------------------------------------------------------------------------
(* The routing table never changes once proxy.New has sorted it.           *)
RouteInv == TypeOK /\ Sorted(prefixes)

LEMMA TableType ==
  ASSUME TypeOK
  PROVE  /\ IsFiniteSet(DOMAIN targets) /\ DOMAIN targets \subseteq Seq(STRING)
         /\ \A p \in DOMAIN targets : targets[p] \in Seq(STRING)
         /\ Cardinality(DOMAIN targets) \in Nat
         /\ prefixes \in [1..Cardinality(DOMAIN targets) -> DOMAIN targets]
         /\ \A i, j \in DOMAIN prefixes : i # j => prefixes[i] # prefixes[j]
<1>1. /\ IsFiniteSet(DOMAIN targets) /\ DOMAIN targets \subseteq Seq(STRING)
      /\ \A p \in DOMAIN targets : targets[p] \in Seq(STRING)
  BY GatewayAssumption DEF TypeOK
<1>2. Cardinality(DOMAIN targets) \in Nat
  BY <1>1, FS_CardinalityType
<1>3. /\ prefixes \in [1..Cardinality(DOMAIN targets) -> DOMAIN targets]
      /\ \A i, j \in DOMAIN prefixes : i # j => prefixes[i] # prefixes[j]
  BY DEF TypeOK, SetToSeqs
<1>4. QED
  BY <1>1, <1>2, <1>3

(* As many different prefixes as there are: every one is in the list.      *)
LEMMA AllListed ==
  ASSUME TypeOK, NEW p \in DOMAIN targets
  PROVE  \E i \in DOMAIN prefixes : prefixes[i] = p
<1> DEFINE S == DOMAIN targets
           n == Cardinality(S)
<1>1. /\ IsFiniteSet(S) /\ n \in Nat /\ prefixes \in [1..n -> S]
      /\ \A i, j \in DOMAIN prefixes : i # j => prefixes[i] # prefixes[j]
  BY TableType
<1>2. IsFiniteSet(1..n) /\ Cardinality(1..n) = n
  BY <1>1, FS_Interval
<1>3. prefixes \in Injection(1..n, S)
  BY <1>1 DEF Injection, IsInjective
<1>4. prefixes \in Surjection(1..n, S)
  BY <1>1, <1>2, <1>3, FS_Injection
<1>5. QED
  BY <1>4 DEF Surjection

LEMMA LeastExists ==
  ASSUME NEW T, T \subseteq Nat, T # {}
  PROVE  Min(T) \in T /\ \A y \in T : Min(T) =< y
<1>1. PICK x \in T : \A y \in T : <<y, x>> \notin OpToRel(<, Nat)
  BY WFMin, NatLessThanWellFounded, Zenon
<1>2. \A y \in T : ~(y < x)
  BY <1>1, Zenon DEF OpToRel
<1>3. \A y \in T : x =< y
  BY <1>2
<1>4. QED
  BY <1>3 DEF Min

LEMMA MatchIsFirst ==
  ASSUME TypeOK, NEW path, Fits(path) # {}
  PROVE  \E i \in DOMAIN prefixes :
           /\ Match(path) = prefixes[i] /\ IsPrefix(prefixes[i], path)
           /\ \A j \in DOMAIN prefixes : IsPrefix(prefixes[j], path) => i =< j
<1>1. DOMAIN prefixes \subseteq Nat
  BY TableType
<1>2. /\ Min(Fits(path)) \in Fits(path)
      /\ \A j \in Fits(path) : Min(Fits(path)) =< j
  <2>1. Fits(path) \subseteq Nat
    BY <1>1 DEF Fits
  <2>2. QED
    BY <2>1, LeastExists
<1>3. QED
  BY <1>2 DEF Fits, Match

(* The first prefix that fits is the longest, for the list is sorted.      *)
LEMMA LongestMatch ==
  ASSUME RouteInv, NEW path, NEW p \in DOMAIN targets, IsPrefix(p, path)
  PROVE  Fits(path) # {} /\ Len(p) =< Len(Match(path))
<1>1. PICK k \in DOMAIN prefixes : prefixes[k] = p
  BY AllListed DEF RouteInv
<1>2. Fits(path) # {}
  BY <1>1 DEF Fits
<1>3. PICK i \in DOMAIN prefixes :
        /\ Match(path) = prefixes[i]
        /\ \A j \in DOMAIN prefixes : IsPrefix(prefixes[j], path) => i =< j
  BY <1>2, MatchIsFirst DEF RouteInv
<1>4. i =< k /\ i \in Int /\ k \in Int /\ Len(p) \in Nat
  BY <1>1, <1>3, TableType DEF RouteInv
<1>5. i < k => Len(prefixes[i]) >= Len(prefixes[k])
  BY <1>1, <1>3 DEF RouteInv, Sorted
<1>6. Len(prefixes[i]) \in Nat
  BY TableType DEF RouteInv
<1>7. Len(p) =< Len(prefixes[i])
  BY <1>1, <1>4, <1>5, <1>6
<1>8. QED
  BY <1>2, <1>3, <1>7

(* What is left of a path behind one of its prefixes.                      *)
LEMMA Rest ==
  ASSUME NEW p \in Seq(STRING), NEW s \in Seq(STRING), IsPrefix(p, s)
  PROVE  LET rest == SubSeq(s, Len(p) + 1, Len(s))
         IN  /\ rest \in Seq(STRING) /\ s = p \o rest
             /\ rest = <<>> <=> Len(p) = Len(s)
             /\ rest # <<>> => rest[1] = s[Len(p) + 1]
<1> DEFINE rest == SubSeq(s, Len(p) + 1, Len(s))
<1>1. Len(p) \in Nat /\ Len(s) \in Nat /\ Len(p) =< Len(s)
  BY DEF IsPrefix
<1>2. p = SubSeq(s, 1, Len(p))
  <2>1. SubSeq(p, 1, Len(p)) = p
    BY SubSeqFull
  <2>2. QED
    BY <2>1 DEF IsPrefix
<1>3. /\ rest \in Seq(STRING)
      /\ Len(rest) = IF Len(p) + 1 =< Len(s) THEN Len(s) - Len(p) ELSE 0
      /\ Len(rest) > 0 => rest[1] = s[Len(p) + 1]
  BY <1>1
<1>4. s = p \o rest
  <2>1. SubSeq(s, 1, Len(p)) \o SubSeq(s, Len(p) + 1, Len(s)) = SubSeq(s, 1, Len(s))
    <3>1. 1 \in 1..Len(s) + 1 /\ Len(p) \in 1 - 1 .. Len(s) /\ Len(s) \in Len(p)..Len(s)
      BY <1>1
    <3>2. QED
      BY <3>1, ConcatAdjacentSubSeq, Zenon
  <2>2. QED
    BY <2>1, <1>2, SubSeqFull
<1> HIDE DEF rest
<1>5. rest = <<>> <=> Len(rest) = 0
  BY <1>3
<1>6. QED
  BY <1>1, <1>3, <1>4, <1>5 DEF rest

LEMMA RouteInduction == RouteInv /\ [Next]_vars => RouteInv'
<1> SUFFICES ASSUME RouteInv, [Next]_vars PROVE RouteInv'
  OBVIOUS
<1>1. TypeOK'
  BY TypeStep DEF RouteInv
<1>2. prefixes' = prefixes
  BY DEF Next, Handle, vars, Accept, Arrive, UpstreamHead, UpstreamFails, BodyDone, BodyBreaks,
         Log, Flush, ClientLeaves, CloseNew, Step, Signal, Drained, Forced, Tick
<1>3. QED
  BY <1>1, <1>2 DEF RouteInv, Sorted

LEMMA FromHead ==
  ASSUME NEW S, NEW s \in Seq(S), s # <<>>
  PROVE  <<Head(s)>> \o Tail(s) = s
<1>1. Len(s) \in Nat /\ Len(s) # 0
  BY EmptySeq, LenProperties
<1>2. SubSeq(s, 1, Len(s)) = <<s[1]>> \o SubSeq(s, 2, Len(s))
  BY <1>1, SubSeqRecursiveFirst
<1>3. SubSeq(s, 1, Len(s)) = s
  BY SMT
<1>4. QED
  BY <1>2, <1>3, TailIsSubSeq

(* A path is refused only when no configured prefix matches it, it goes to *)
(* the upstream of the longest one that does, and what is sent there is    *)
(* the rest of the path: for every configuration and every path, and in    *)
(* whatever order the prefixes came out of the map.                        *)
THEOREM RoutesAreRight == Spec => []RoutedRight
<1>1. Init => RouteInv
  <2>1. Init => TypeOK
    BY GatewayAssumption DEF Init, TypeOK, Requests, Places, Statuses, MaxAge
  <2>2. QED
    BY <2>1 DEF Init, RouteInv
<1>2. ASSUME RouteInv, NEW path \in Paths, Fits(path) # {},
             targets[Match(path)] \in {<<>>, Root}
      PROVE  /\ Match(path) = Root => Stripped(Match(path), path) = path
             /\ /\ Match(path) # Root
                /\ Len(Match(path)) = Len(path) \/ path[Len(Match(path)) + 1] = "/"
                => LET sent == Stripped(Match(path), path)
                   IN  sent[1] = "/" /\ path \in {Match(path), Match(path) \o sent}
  <2> DEFINE p == Match(path)
             rest == SubSeq(path, Len(p) + 1, Len(path))
  <2>1. p \in Seq(STRING) /\ path \in Seq(STRING) /\ IsPrefix(p, path)
    BY <1>2, MatchIsFirst, TableType, GatewayAssumption DEF RouteInv
  <2>2. Joined(targets[p], path) = path
    <3>1. path # <<>> /\ Head(path) = "/"
      BY GatewayAssumption
    <3>2. CASE targets[p] = <<>>
      BY <2>1, <3>2, ConcatEmptySeq DEF Joined
    <3>3. CASE targets[p] = Root
      <4>1. Root # <<>> /\ Last(Root) = "/"
        BY DEF Root, Last
      <4>2. Root \o Tail(path) = path
        BY <2>1, <3>1, FromHead DEF Root
      <4>3. QED
        BY <3>3, <4>1, <4>2 DEF Joined
    <3>4. QED
      BY <1>2, <3>2, <3>3
  <2> HIDE DEF p
  <2>3. /\ path = p \o rest
        /\ rest = <<>> <=> Len(p) = Len(path)
        /\ rest # <<>> => rest[1] = path[Len(p) + 1]
    BY <2>1, Rest
  <2>4. ASSUME p = Root PROVE Stripped(p, path) = path
    <3>1. path # <<>>
      BY <2>1, <2>4 DEF Root, IsPrefix
    <3>2. QED
      BY <2>2, <2>4, <3>1 DEF Stripped
  <2>5. ASSUME p # Root PROVE Stripped(p, path) = IF rest = <<>> THEN Root ELSE rest
    BY <2>1, <2>2, <2>5 DEF Stripped
  <2>6. ASSUME p # Root, Len(p) = Len(path) \/ path[Len(p) + 1] = "/"
        PROVE  Stripped(p, path)[1] = "/" /\ path \in {p, p \o Stripped(p, path)}
    <3>1. CASE rest = <<>>
      <4>1. path = p
        BY <2>1, <2>3, <3>1, ConcatEmptySeq
      <4>2. QED
        BY <2>5, <2>6, <3>1, <4>1 DEF Root
    <3>2. CASE rest # <<>>
      BY <2>3, <2>5, <2>6, <3>2
    <3>3. QED
      BY <3>1, <3>2
  <2>7. QED
    BY <2>4, <2>6 DEF p
<1>3. RouteInv => RoutedRight
  BY <1>2, LongestMatch DEF RoutedRight
<1>4. QED
  BY <1>1, <1>3, RouteInduction, PTL DEF Spec
=============================================================================
