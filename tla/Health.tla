-------------------------------- MODULE Health --------------------------------
(***************************************************************************)
(* The service health cards of the dashboard page (page.tsx).  A poll asks *)
(* every service at once and shows the readings together, when the last of *)
(* them is in (Promise.all).  Polls are started on entry, by an interval   *)
(* timer and by the Refresh button, so that they overlap, and one that     *)
(* began earlier may end later and overwrite newer readings.               *)
(*                                                                         *)
(* Time is counted in ticks.  Timers of a visible page are taken to fire   *)
(* in the tick they are due.                                               *)
(***************************************************************************)
EXTENDS Integers, Sequences, SequencesExt

CONSTANTS Direct,      (* the services the page asks itself                   *)
          Routed,      (* those it asks through a route of its own: OPA       *)
          Interval,    (* ticks between two polls: 6 s in the code            *)
          Timeout,     (* ticks until a request is aborted: 3 s in the code   *)
          MaxOverlap   (* bound: Refresh is clicked below this many polls     *)

ASSUME HealthAssumption ==
  /\ Interval \in Nat /\ Timeout \in Nat \ {0} /\ Timeout < Interval
  /\ MaxOverlap \in Nat

VARIABLES mounted,   (* whether the page is open                              *)
          timer,     (* ticks until the interval fires                        *)
          polls,     (* the polls under way, in the order they were started   *)
          services,  (* the state variable of this name: what is shown        *)
          age,       (* ghost: ticks since the poll that is shown was started *)
          manual     (* ghost: whether the Refresh button started it          *)

vars == <<mounted, timer, polls, services, age, manual>>

Services == Direct \cup Routed
Statuses == {"healthy", "unhealthy", "unreachable"}
MaxAge == Interval + 2 * Timeout
Polls == [age : 0..Timeout, manual : BOOLEAN, got : [Services -> Statuses \cup {"waiting"}]]

TypeOK ==
  /\ mounted \in BOOLEAN /\ timer \in 0..Interval
  /\ polls \in Seq(Polls)
  /\ services \in [Services -> Statuses \cup {"checking"}]
  /\ age \in 0..(MaxAge + 1) /\ manual \in BOOLEAN

(* checkHealth is called: all requests go out.                             *)
Poll(m) == [age |-> 0, manual |-> m, got |-> [s \in Services |-> "waiting"]]

Init ==
  /\ mounted = FALSE /\ timer = Interval /\ polls = <<>>
  /\ services = [s \in Services |-> "checking"]
  /\ age = 0 /\ manual = FALSE
-----------------------------------------------------------------------------
(* The effect of the page: a poll at once, and the interval.               *)
Mount ==
  /\ ~mounted
  /\ mounted' = TRUE
  /\ polls' = <<Poll(FALSE)>> /\ timer' = Interval
  /\ services' = [s \in Services |-> "checking"]
  /\ age' = 0 /\ manual' = FALSE

(* Leaving the page clears the interval; what the polls under way set      *)
(* later, they set on a page that is gone.                                 *)
Unmount ==
  /\ mounted
  /\ mounted' = FALSE /\ polls' = <<>> /\ timer' = Interval
  /\ UNCHANGED <<services, age, manual>>

IntervalFires_Once ==
  /\ mounted /\ timer = 0
  /\ timer' = Interval
  /\ UNCHANGED <<mounted, polls, services, age, manual>>

IntervalFires ==
  /\ mounted /\ timer = 0
  /\ timer' = Interval
  /\ polls' = Append(polls, Poll(FALSE))
  /\ UNCHANGED <<mounted, services, age, manual>>

(* The button is never disabled.                                           *)
Refresh ==
  /\ mounted /\ Len(polls) < MaxOverlap
  /\ polls' = Append(polls, Poll(TRUE))
  /\ UNCHANGED <<mounted, timer, services, age, manual>>
-----------------------------------------------------------------------------
(* What comes back from a service: a status and a JSON body, a body that   *)
(* is not JSON, or nothing (the connection fails).                         *)
Answers == {"ok", "error", "nojson", "none"}

(* The route passes on a status with its body, and answers 503 with a body *)
(* of its own for all the rest.                                            *)
ViaRoute(a) == IF a \in {"ok", "error"} THEN a ELSE "error"

Verdict(a) ==
  CASE a = "ok"    -> "healthy"
    [] a = "error" -> "unhealthy"
    [] OTHER       -> "unreachable"

Settle_Rejects(i, s, v) ==
  LET got == [polls[i].got EXCEPT ![s] = v]
  IN  /\ polls[i].got[s] = "waiting"
      /\ IF v # "unreachable" /\ \E t \in Services : got[t] = "waiting"
         THEN /\ polls' = [polls EXCEPT ![i].got = got]
              /\ UNCHANGED <<services, age, manual>>
         ELSE /\ polls' = RemoveAt(polls, i)
              /\ services' = IF v = "unreachable" THEN services ELSE got
              /\ age' = polls[i].age /\ manual' = polls[i].manual
      /\ UNCHANGED <<mounted, timer>>

(* A request of the i-th poll is done.  With the last one the readings of  *)
(* the poll replace those on the page, whatever poll they came from.       *)
Settle(i, s, v) ==
  LET got == [polls[i].got EXCEPT ![s] = v]
  IN  /\ polls[i].got[s] = "waiting"
      /\ IF \E t \in Services : got[t] = "waiting"
         THEN /\ polls' = [polls EXCEPT ![i].got = got]
              /\ UNCHANGED <<services, age, manual>>
         ELSE /\ polls' = RemoveAt(polls, i)
              /\ services' = got
              /\ age' = polls[i].age /\ manual' = polls[i].manual
      /\ UNCHANGED <<mounted, timer>>

Answered(i, s, a) == Settle(i, s, Verdict(IF s \in Routed THEN ViaRoute(a) ELSE a))

Deadline_PastInterval == Interval + 1

(* AbortSignal.timeout                                                     *)
Deadline == Timeout

(* Silent until the deadline: the page aborts, unless the route, whose own *)
(* timer of the same length runs against it, comes first with its 503.     *)
TimedOut(i, s) ==
  /\ polls[i].age = Deadline
  /\ \/ Settle(i, s, "unreachable")
     \/ s \in Routed /\ Settle(i, s, "unhealthy")

(* Time passes when no timer is due.                                       *)
Tick ==
  /\ mounted /\ timer > 0
  /\ \A i \in DOMAIN polls : polls[i].age < Deadline
  /\ timer' = timer - 1
  /\ polls' = [i \in DOMAIN polls |-> [polls[i] EXCEPT !.age = @ + 1]]
  /\ age' = IF age > MaxAge THEN age ELSE age + 1
  /\ UNCHANGED <<mounted, services, manual>>

Next ==
  \/ Mount \/ Unmount \/ IntervalFires \/ Refresh \/ Tick
  \/ \E i \in DOMAIN polls, s \in Services :
       TimedOut(i, s) \/ \E a \in Answers : Answered(i, s, a)

(* Time passes, and timers that are due fire, that of the oldest poll      *)
(* first.  No service need ever answer.                                    *)
Fairness ==
  /\ WF_vars(Tick) /\ WF_vars(IntervalFires)
  /\ WF_vars(\E s \in Services : polls # <<>> /\ TimedOut(1, s))

Spec == Init /\ [][Next]_vars /\ Fairness
-----------------------------------------------------------------------------
(* One card of the page.                                                   *)
Card(s) ==
  [dot   |-> CASE services[s] = "healthy"  -> "emerald"
               [] services[s] = "checking" -> "sky"
               [] OTHER                    -> "rose",
   badge |-> IF services[s] = "checking" THEN "..." ELSE services[s]]

(* No card is still being checked after the first deadline, and none ever  *)
(* shows a reading that was asked for longer ago than an interval and two  *)
(* deadlines: a poll overtaken by a newer one may put its older readings   *)
(* back, and they stay until the next interval's poll is in.               *)
ShownIsRecent ==
  mounted => \A s \in Services :
    age =< (IF Card(s).dot = "sky" THEN Timeout ELSE MaxAge)

(* Readings are only ever replaced by older ones if the Refresh button     *)
(* started one of the two polls: those of the interval never overlap.      *)
OnlyRefreshGoesBack ==
  [][mounted /\ mounted' /\ timer' = timer /\ age' > age => manual \/ manual']_vars

(* A service that from some time on answers every poll well is shown as    *)
(* healthy for good, however slow the other services of its polls are, and *)
(* however often Refresh is clicked.                                       *)
WellFromNowOn(s) ==
  <>[][\A i \in DOMAIN polls :
         ~TimedOut(i, s) /\ \A a \in Answers \ {"ok"} : ~Answered(i, s, a)]_vars

UpIsShown ==
  \A s \in Services : <>[]mounted /\ WellFromNowOn(s) => <>[](Card(s).dot = "emerald")
=============================================================================
