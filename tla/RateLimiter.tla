----------------------------- MODULE RateLimiter -----------------------------
(***************************************************************************)
(* The per-IP rate limiter of the proxy gateway                            *)
(* (proxy-gateway/internal/middleware/ratelimiter.go): a map from client   *)
(* addresses to limiter objects under a mutex, a background loop that      *)
(* drops stale entries, and requests that fetch a limiter under the mutex  *)
(* and ask it for a token after they released the mutex.                   *)
(*                                                                         *)
(* Time is counted in ticks.  Clock readings are kept as ages: the age of  *)
(* an entry is time.Since(lastSeen), and it saturates once it is stale.    *)
(***************************************************************************)
EXTENDS Integers, FiniteSets

CONSTANTS Ips,      (* client addresses                                       *)
          Reqs,     (* request slots: requests in the middleware at one time  *)
          Lims,     (* limiter objects on the heap                            *)
          Rate,     (* tokens a limiter gains per tick                        *)
          Burst,    (* tokens a limiter holds at most                         *)
          Cleanup,  (* ticks between two cleanups                             *)
          Stall,    (* longest stay between getLimiter and Allow, in ticks    *)
          None      (* no limiter, no request                                 *)

Holdings == [ip : Ips, lim : Lims, since : 0..Stall]
Stale == 3 * Cleanup + 1   (* the first age that exceeds cleanup*3            *)

ASSUME RateLimiterAssumption ==
  /\ Rate \in Nat \ {0} /\ Burst \in Nat \ {0}
  /\ Cleanup \in Nat \ {0} /\ Stall \in Nat
  /\ None \notin Lims /\ None \notin Holdings

VARIABLES limiters,  (* the map: the limiter of an address, or None           *)
          age,       (* ticks since lastSeen of the entry of an address       *)
          tokens,    (* tokens of each limiter object, advanced to now        *)
          held,      (* the limiter a request holds, with its address         *)
          phase,     (* ticks since the ticker fired                          *)
          fired,     (* a tick waits in the ticker's channel                  *)
          verdict    (* what the latest request of an address was told        *)

vars == <<limiters, age, tokens, held, phase, fired, verdict>>

TypeOK ==
  /\ limiters \in [Ips -> Lims \cup {None}]
  /\ age \in [Ips -> 0..Stale]
  /\ tokens \in [Lims -> 0..Burst]
  /\ held \in [Reqs -> Holdings \cup {None}]
  /\ phase \in 0..(Cleanup - 1)
  /\ fired \in BOOLEAN
  /\ verdict \in [Ips -> {"none", "admit", "refuse"}]

Init ==
  /\ limiters = [ip \in Ips |-> None]
  /\ age = [ip \in Ips |-> 0]
  /\ tokens = [l \in Lims |-> Burst]
  /\ held = [q \in Reqs |-> None]
  /\ phase = 0
  /\ fired = FALSE
  /\ verdict = [ip \in Ips |-> "none"]

(* Objects that nothing refers to: a new limiter is one of them.           *)
Free ==
  {l \in Lims : /\ \A ip \in Ips : limiters[ip] # l
                /\ \A q \in Reqs : held[q] # None => held[q].lim # l}

Hold(q, ip, l) == held' = [held EXCEPT ![q] = [ip |-> ip, lim |-> l, since |-> 0]]
-----------------------------------------------------------------------------
GetLimiter_KeepsLastSeen(q, ip) ==
  /\ held[q] = None
  /\ \/ /\ limiters[ip] = None
        /\ \E l \in Free :
             /\ limiters' = [limiters EXCEPT ![ip] = l]
             /\ tokens' = [tokens EXCEPT ![l] = Burst]
             /\ Hold(q, ip, l)
        /\ age' = [age EXCEPT ![ip] = 0]
     \/ /\ limiters[ip] # None
        /\ Hold(q, ip, limiters[ip])
        /\ UNCHANGED <<limiters, tokens, age>>
  /\ UNCHANGED <<phase, fired, verdict>>

GetLimiter_BurstOfOne(q, ip) ==
  /\ held[q] = None
  /\ \/ /\ limiters[ip] = None
        /\ \E l \in Free :
             /\ limiters' = [limiters EXCEPT ![ip] = l]
             /\ tokens' = [tokens EXCEPT ![l] = 1]
             /\ Hold(q, ip, l)
     \/ /\ limiters[ip] # None
        /\ Hold(q, ip, limiters[ip])
        /\ UNCHANGED <<limiters, tokens>>
  /\ age' = [age EXCEPT ![ip] = 0]
  /\ UNCHANGED <<phase, fired, verdict>>

(* getLimiter: the whole function runs under the mutex.  A limiter is      *)
(* created full; an existing one is returned and its lastSeen refreshed.   *)
GetLimiter(q, ip) ==
  /\ held[q] = None
  /\ \/ /\ limiters[ip] = None
        /\ \E l \in Free :
             /\ limiters' = [limiters EXCEPT ![ip] = l]
             /\ tokens' = [tokens EXCEPT ![l] = Burst]
             /\ Hold(q, ip, l)
     \/ /\ limiters[ip] # None
        /\ Hold(q, ip, limiters[ip])
        /\ UNCHANGED <<limiters, tokens>>
  /\ age' = [age EXCEPT ![ip] = 0]
  /\ UNCHANGED <<phase, fired, verdict>>

(* Allow, outside the mutex, on the object the request holds: it takes a   *)
(* token if there is one; otherwise the request is answered 429.           *)
Allow(q) ==
  /\ held[q] # None
  /\ \/ /\ tokens[held[q].lim] >= 1
        /\ tokens' = [tokens EXCEPT ![held[q].lim] = @ - 1]
        /\ verdict' = [verdict EXCEPT ![held[q].ip] = "admit"]
     \/ /\ tokens[held[q].lim] = 0
        /\ verdict' = [verdict EXCEPT ![held[q].ip] = "refuse"]
        /\ UNCHANGED tokens
  /\ held' = [held EXCEPT ![q] = None]
  /\ UNCHANGED <<limiters, age, phase, fired>>

CleanupLoop_NoTriple ==
  /\ fired
  /\ fired' = FALSE
  /\ limiters' = [ip \in Ips |-> IF age[ip] > Cleanup THEN None ELSE limiters[ip]]
  /\ UNCHANGED <<age, tokens, held, phase, verdict>>

CleanupLoop_NoDelete ==
  /\ fired
  /\ fired' = FALSE
  /\ UNCHANGED <<limiters, age, tokens, held, phase, verdict>>

(* One round of cleanupLoop under the mutex.                               *)
CleanupLoop ==
  /\ fired
  /\ fired' = FALSE
  /\ limiters' = [ip \in Ips |-> IF age[ip] > Cleanup * 3 THEN None ELSE limiters[ip]]
  /\ UNCHANGED <<age, tokens, held, phase, verdict>>

Refill(n) == IF n + Rate < Burst THEN n + Rate ELSE Burst

(* One tick of time: every bucket refills, every age grows, and the ticker *)
(* fires every Cleanup ticks (a tick nobody has read yet is not repeated). *)
Tick ==
  /\ \A q \in Reqs : held[q] # None => held[q].since < Stall
  /\ tokens' = [l \in Lims |-> Refill(tokens[l])]
  /\ age' = [ip \in Ips |-> IF age[ip] < Stale THEN age[ip] + 1 ELSE Stale]
  /\ held' = [q \in Reqs |-> IF held[q] = None THEN None
                             ELSE [held[q] EXCEPT !.since = @ + 1]]
  /\ phase' = (phase + 1) % Cleanup
  /\ fired' = (fired \/ phase' = 0)
  /\ UNCHANGED <<limiters, verdict>>

Next ==
  \/ \E q \in Reqs : (\E ip \in Ips : GetLimiter(q, ip)) \/ Allow(q)
  \/ CleanupLoop
  \/ Tick

(* Time passes, the loop reads its ticker, a request reaches Allow.        *)
Fairness == WF_vars(Tick) /\ WF_vars(CleanupLoop) /\ \A q \in Reqs : WF_vars(Allow(q))

Spec == Init /\ [][Next]_vars /\ Fairness
-----------------------------------------------------------------------------
(* A request that passed getLimiter still holds the limiter of its address *)
(* when it calls Allow: the cleanup never drops a limiter in use, so two   *)
(* requests of one client never draw on two buckets.                       *)
NoOrphan == \A q \in Reqs : held[q] # None => limiters[held[q].ip] = held[q].lim

(* The sizes under which dropping an entry is harmless: nobody stays in    *)
(* the middleware for as long as an entry takes to become stale, and a     *)
(* bucket is refilled before its entry is.                                 *)
WellSized == Stall =< 3 * Cleanup /\ Burst =< Rate * (Stale - Stall)

(* A limiter the cleanup may drop is full again, so the fresh one that     *)
(* replaces it gives its client nothing.                                   *)
StaleIsFull ==
  \A ip \in Ips : limiters[ip] # None /\ age[ip] > Cleanup * 3 =>
    tokens[limiters[ip]] = Burst

(* An entry whose client stays away is dropped in the end: the map does    *)
(* not keep every address it ever saw.                                     *)
IdleEntryDropped ==
  \A ip \in Ips : limiters[ip] # None /\ age[ip] > 0
                    ~> limiters[ip] = None \/ age[ip] = 0

(* The map with its comings and goings is one bucket per client: a client  *)
(* without an entry has a full one.                                        *)
Level == [ip \in Ips |-> IF limiters[ip] = None THEN Burst ELSE tokens[limiters[ip]]]
Bucket == INSTANCE TokenBucket WITH level <- Level

(* The limiter admits and refuses exactly as one ideal bucket per client   *)
(* does, whatever the cleanup drops and however requests interleave.       *)
ImplementsBucket == Bucket!Spec
=============================================================================
