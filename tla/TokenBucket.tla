----------------------------- MODULE TokenBucket -----------------------------
(***************************************************************************)
(* What the rate limiter of the gateway promises each client: one token    *)
(* bucket that is never lost and never refilled early.  "Each IP gets a    *)
(* fixed number of requests per second with a burst allowance"             *)
(* (peach.md:72).                                                          *)
(***************************************************************************)
EXTENDS Integers

CONSTANTS Ips,    (* clients                             *)
          Rate,   (* tokens a bucket gains per tick      *)
          Burst   (* tokens a bucket holds at most       *)

VARIABLES level,    (* tokens of each client              *)
          verdict   (* what its latest request was told   *)

Verdicts == {"none", "admit", "refuse"}

TypeOK ==
  /\ level \in [Ips -> 0..Burst]
  /\ verdict \in [Ips -> Verdicts]

Init ==
  /\ level = [ip \in Ips |-> Burst]
  /\ verdict = [ip \in Ips |-> "none"]

Refill(n) == IF n + Rate < Burst THEN n + Rate ELSE Burst

Tick ==
  /\ level' = [ip \in Ips |-> Refill(level[ip])]
  /\ UNCHANGED verdict

(* A request is admitted exactly when there is a token for it.             *)
Admit(ip) ==
  /\ level[ip] >= 1
  /\ level' = [level EXCEPT ![ip] = @ - 1]
  /\ verdict' = [verdict EXCEPT ![ip] = "admit"]

Refuse(ip) ==
  /\ level[ip] = 0
  /\ verdict' = [verdict EXCEPT ![ip] = "refuse"]
  /\ UNCHANGED level

Next == Tick \/ \E ip \in Ips : Admit(ip) \/ Refuse(ip)

Spec == Init /\ [][Next]_<<level, verdict>>
=============================================================================
