-------------------------- MODULE RateLimiterProofs --------------------------
(***************************************************************************)
(* The rate limiter implements one token bucket per client, and so bounds  *)
(* what a client gets through in any stretch of time, for all clients,     *)
(* requests and sizes that satisfy WellSized.                              *)
(***************************************************************************)
EXTENDS AdmissionWindow, TLAPS

(* Two addresses never share a limiter.                                    *)
Distinct ==
  \A i, j \in Ips : i # j /\ limiters[i] # None => limiters[i] # limiters[j]

(* The entry of a request's address was refreshed no earlier than the      *)
(* request fetched its limiter.                                            *)
HeldRecent == \A q \in Reqs : held[q] # None => age[held[q].ip] =< held[q].since

(* A bucket has refilled for at least the age of its entry less Stall.     *)
Refilled ==
  \A ip \in Ips : limiters[ip] # None =>
    \/ tokens[limiters[ip]] = Burst
    \/ tokens[limiters[ip]] >= Rate * (age[ip] - Stall)

Inv == TypeOK /\ Distinct /\ NoOrphan /\ HeldRecent /\ Refilled

LEMMA RemainderBelow == \A n \in Nat, c \in Nat \ {0} : n % c \in 0..(c - 1)
OBVIOUS

LEMMA RefillType ==
  ASSUME NEW n \in 0..Burst
  PROVE  Refill(n) \in 0..Burst /\ Refill(n) >= n
BY RateLimiterAssumption DEF Refill

LEMMA HoldingFields ==
  ASSUME TypeOK, NEW q \in Reqs, held[q] # None
  PROVE  held[q] \in Holdings /\ held[q].ip \in Ips /\ held[q].lim \in Lims
           /\ held[q].since \in 0..Stall
BY DEF TypeOK, Holdings

LEMMA TypeInit == Init => TypeOK
<1>1. 0 \in 0..(Cleanup - 1) /\ 0 \in 0..Stale /\ Burst \in 0..Burst
  BY RateLimiterAssumption DEF Stale
<1>2. QED
  BY <1>1 DEF Init, TypeOK

LEMMA TypeStep == TypeOK /\ [Next]_vars => TypeOK'
<1> SUFFICES ASSUME TypeOK, [Next]_vars PROVE TypeOK'
  OBVIOUS
<1> USE RateLimiterAssumption DEF Stale
<1>1. ASSUME NEW q \in Reqs, NEW ip \in Ips, GetLimiter(q, ip) PROVE TypeOK'
  <2>1. limiters' \in [Ips -> Lims \cup {None}] /\ tokens' \in [Lims -> 0..Burst]
    BY <1>1 DEF TypeOK, GetLimiter, Free
  <2>2. \E l \in Lims : Hold(q, ip, l)
    BY <1>1 DEF TypeOK, GetLimiter, Free
  <2>3. held' \in [Reqs -> Holdings \cup {None}]
    BY <2>2 DEF TypeOK, Hold, Holdings
  <2>4. age' \in [Ips -> 0..Stale] /\ UNCHANGED <<phase, fired, verdict>>
    BY <1>1 DEF TypeOK, GetLimiter
  <2>5. QED
    BY <2>1, <2>3, <2>4 DEF TypeOK
<1>2. ASSUME NEW q \in Reqs, Allow(q) PROVE TypeOK'
  <2>1. held[q].lim \in Lims /\ held[q].ip \in Ips
    BY <1>2, HoldingFields DEF Allow
  <2>2. tokens' \in [Lims -> 0..Burst]
    BY <1>2, <2>1 DEF TypeOK, Allow
  <2>3. QED
    BY <1>2, <2>1, <2>2 DEF TypeOK, Allow
<1>3. ASSUME CleanupLoop PROVE TypeOK'
  BY <1>3 DEF TypeOK, CleanupLoop
<1>4. ASSUME Tick PROVE TypeOK'
  <2>1. tokens' \in [Lims -> 0..Burst]
    BY <1>4, RefillType DEF TypeOK, Tick
  <2>2. age' \in [Ips -> 0..Stale]
    BY <1>4 DEF TypeOK, Tick
  <2>3. ASSUME NEW q \in Reqs, held[q] # None
        PROVE  [held[q] EXCEPT !.since = @ + 1] \in Holdings
    BY <1>4, <2>3, HoldingFields DEF Tick, Holdings
  <2>4. held' \in [Reqs -> Holdings \cup {None}]
    BY <1>4, <2>3 DEF Tick
  <2>5. phase' \in 0..(Cleanup - 1)
    BY <1>4, RemainderBelow DEF TypeOK, Tick
  <2>6. QED
    BY <1>4, <2>1, <2>2, <2>4, <2>5 DEF TypeOK, Tick
<1>5. CASE UNCHANGED vars
  BY <1>5 DEF TypeOK, vars
<1>6. QED
  BY <1>1, <1>2, <1>3, <1>4, <1>5 DEF Next

(* Every variable keeps its type; no bucket holds less than 0 tokens.      *)
THEOREM TypeCorrect == Spec => []TypeOK
BY TypeInit, TypeStep, PTL DEF Spec
-----------------------------------------------------------------------------
(* Under WellSized, a request in flight keeps its entry fresh, and a stale *)
(* entry has a full bucket.                                                *)
LEMMA HeldIsFresh ==
  ASSUME WellSized, TypeOK, HeldRecent, NEW q \in Reqs, held[q] # None
  PROVE  age[held[q].ip] =< Stall /\ age[held[q].ip] < Stale
<1>1. held[q].since \in 0..Stall /\ held[q].ip \in Ips
  BY HoldingFields
<1>2. age[held[q].ip] \in 0..Stale
  BY <1>1 DEF TypeOK
<1>3. QED
  BY <1>1, <1>2, RateLimiterAssumption DEF WellSized, Stale, HeldRecent

LEMMA FullWhenStale ==
  ASSUME WellSized, TypeOK, Refilled
  PROVE  StaleIsFull
<1> SUFFICES ASSUME NEW ip \in Ips, limiters[ip] # None, age[ip] > Cleanup * 3
             PROVE  tokens[limiters[ip]] = Burst
  BY DEF StaleIsFull
<1>1. age[ip] = Stale
  BY RateLimiterAssumption DEF TypeOK, Stale
<1>2. tokens[limiters[ip]] \in 0..Burst
  BY DEF TypeOK
<1>3. CASE tokens[limiters[ip]] >= Rate * (age[ip] - Stall)
  <2>1. tokens[limiters[ip]] >= Rate * (Stale - Stall)
    BY <1>1, <1>3
  <2>2. Rate * (Stale - Stall) \in Int /\ Rate * (Stale - Stall) >= Burst
    BY RateLimiterAssumption DEF WellSized, Stale
  <2>3. QED
    BY <1>2, <2>1, <2>2, RateLimiterAssumption
<1>4. QED
  BY <1>3 DEF Refilled

LEMMA OneMoreTick == \A r, n \in Int : r * (n + 1) = r * n + r
OBVIOUS

LEMMA NothingOwed == \A r \in Nat, n \in Int : n =< 0 => r * n =< 0
OBVIOUS

LEMMA InvStep == WellSized /\ Inv /\ TypeOK' /\ [Next]_vars => Inv'
<1> SUFFICES ASSUME WellSized, Inv, TypeOK', [Next]_vars
             PROVE  Distinct' /\ NoOrphan' /\ HeldRecent' /\ Refilled'
  BY DEF Inv
<1>t. TypeOK /\ Distinct /\ NoOrphan /\ HeldRecent /\ Refilled
  BY DEF Inv
<1>1. ASSUME NEW q \in Reqs, NEW ip \in Ips, GetLimiter(q, ip)
      PROVE  Distinct' /\ NoOrphan' /\ HeldRecent' /\ Refilled'
  <2>1. age' = [age EXCEPT ![ip] = 0] /\ age'[ip] = 0
    BY <1>1, <1>t DEF GetLimiter, TypeOK
  <2>2. CASE limiters[ip] = None
    <3>1. PICK l \in Free : /\ limiters' = [limiters EXCEPT ![ip] = l]
                            /\ tokens' = [tokens EXCEPT ![l] = Burst]
                            /\ Hold(q, ip, l)
      BY <1>1, <2>2 DEF GetLimiter
    <3>2. l \in Lims /\ l # None /\ \A i \in Ips : limiters[i] # l
      BY RateLimiterAssumption DEF Free
    <3>3. Distinct'
      BY <1>t, <3>1, <3>2 DEF Distinct, TypeOK
    <3>4. \A p \in Reqs : held[p] # None => held[p].ip # ip
      BY <1>t, <2>2, HoldingFields, RateLimiterAssumption DEF NoOrphan
    <3>5. held'[q].ip = ip /\ held'[q].lim = l /\ held'[q].since = 0
      BY <1>t, <3>1 DEF Hold, TypeOK
    <3>6. NoOrphan'
      BY <1>t, <3>1, <3>4, <3>5, HoldingFields DEF NoOrphan, Hold, TypeOK
    <3>7. HeldRecent'
      BY <1>t, <2>1, <3>1, <3>4, <3>5, HoldingFields DEF HeldRecent, Hold, TypeOK
    <3>8. Refilled'
      BY <1>t, <2>1, <3>1, <3>2 DEF Refilled, TypeOK
    <3>9. QED
      BY <3>3, <3>6, <3>7, <3>8
  <2>3. CASE limiters[ip] # None
    <3>1. Hold(q, ip, limiters[ip]) /\ UNCHANGED <<limiters, tokens>>
      BY <1>1, <2>3 DEF GetLimiter
    <3>2. held'[q].ip = ip /\ held'[q].lim = limiters[ip] /\ held'[q].since = 0
      BY <1>t, <3>1 DEF Hold, TypeOK
    <3>3. \A p \in Reqs : p # q => held'[p] = held[p]
      BY <1>t, <3>1 DEF Hold, TypeOK
    <3>4. \A i \in Ips : age'[i] =< age[i] /\ age[i] \in 0..Stale
      BY <1>t, <2>1, RateLimiterAssumption DEF TypeOK, Stale
    <3>5. Distinct' /\ NoOrphan'
      BY <1>t, <3>1, <3>2, <3>3 DEF Distinct, NoOrphan
    <3>6. HeldRecent'
      <4>1. ASSUME NEW p \in Reqs, p # q, held[p] # None
            PROVE  age'[held[p].ip] =< held[p].since
        <5>1. age[held[p].ip] =< held[p].since /\ held[p].ip \in Ips /\ held[p].since \in 0..Stall
          BY <1>t, <4>1, HoldingFields DEF HeldRecent
        <5>2. age'[held[p].ip] \in 0..Stale
          BY <5>1 DEF TypeOK
        <5>3. QED
          BY <5>1, <5>2, <3>4, RateLimiterAssumption DEF Stale
      <4>2. QED
        BY <4>1, <2>1, <3>2, <3>3 DEF HeldRecent
    <3>7. Refilled'
      <4>1. ASSUME NEW i \in Ips, limiters[i] # None
            PROVE  tokens[limiters[i]] = Burst \/ tokens[limiters[i]] >= Rate * (age'[i] - Stall)
        <5>1. CASE i = ip
          <6>1. tokens[limiters[i]] \in 0..Burst
            BY <1>t, <4>1 DEF TypeOK
          <6>2. Rate * (0 - Stall) =< 0 /\ Rate * (0 - Stall) \in Int
            BY NothingOwed, RateLimiterAssumption
          <6>3. QED
            BY <5>1, <2>1, <6>1, <6>2, RateLimiterAssumption
        <5>2. CASE i # ip
          BY <5>2, <4>1, <1>t, <2>1 DEF Refilled, TypeOK
        <5>3. QED
          BY <5>1, <5>2
      <4>2. QED
        BY <4>1, <3>1 DEF Refilled
    <3>8. QED
      BY <3>5, <3>6, <3>7
  <2>4. QED
    BY <2>2, <2>3
<1>2. ASSUME NEW q \in Reqs, Allow(q)
      PROVE  Distinct' /\ NoOrphan' /\ HeldRecent' /\ Refilled'
  <2>1. /\ held[q] # None /\ UNCHANGED <<limiters, age>>
        /\ held' = [held EXCEPT ![q] = None]
        /\ \A l \in Lims : l # held[q].lim => tokens'[l] = tokens[l]
    BY <1>2, <1>t DEF Allow, TypeOK
  <2>2. \A p \in Reqs : held'[p] # None => held'[p] = held[p] /\ held[p] # None
    BY <2>1, <1>t DEF TypeOK
  <2>3. Distinct' /\ NoOrphan' /\ HeldRecent'
    BY <1>t, <2>1, <2>2 DEF Distinct, NoOrphan, HeldRecent
  <2>4. ASSUME NEW i \in Ips, limiters[i] # None
        PROVE  tokens'[limiters[i]] = Burst \/ tokens'[limiters[i]] >= Rate * (age[i] - Stall)
    <3>1. CASE i = held[q].ip
      <4>1. age[i] =< Stall /\ age[i] \in Nat
        BY <3>1, <2>1, <1>t, HeldIsFresh, RateLimiterAssumption DEF TypeOK, Stale
      <4>2. tokens'[limiters[i]] \in 0..Burst
        BY <2>4, <1>t DEF TypeOK
      <4>3. Rate * (age[i] - Stall) =< 0 /\ Rate * (age[i] - Stall) \in Int
        BY <4>1, NothingOwed, RateLimiterAssumption
      <4>4. QED
        BY <4>2, <4>3, RateLimiterAssumption
    <3>2. CASE i # held[q].ip
      <4>1. limiters[i] # held[q].lim /\ limiters[i] \in Lims
        BY <3>2, <2>1, <2>4, <1>t, HoldingFields DEF NoOrphan, Distinct, TypeOK
      <4>2. QED
        BY <4>1, <2>1, <2>4, <1>t DEF Refilled
    <3>3. QED
      BY <3>1, <3>2
  <2>5. QED
    BY <2>1, <2>3, <2>4 DEF Refilled
<1>3. ASSUME CleanupLoop
      PROVE  Distinct' /\ NoOrphan' /\ HeldRecent' /\ Refilled'
  <2>1. \A q \in Reqs : held[q] # None => ~(age[held[q].ip] > Cleanup * 3)
    BY <1>t, HeldIsFresh, HoldingFields, RateLimiterAssumption DEF Stale, TypeOK
  <2>2. UNCHANGED <<age, tokens, held>>
          /\ \A i \in Ips : limiters'[i] = IF age[i] > Cleanup * 3 THEN None ELSE limiters[i]
    BY <1>3 DEF CleanupLoop
  <2>3. Distinct' /\ HeldRecent' /\ Refilled'
    BY <1>t, <2>2 DEF Distinct, HeldRecent, Refilled
  <2>4. NoOrphan'
    BY <1>t, <2>1, <2>2, HoldingFields DEF NoOrphan
  <2>5. QED
    BY <2>3, <2>4
<1>4. ASSUME Tick
      PROVE  Distinct' /\ NoOrphan' /\ HeldRecent' /\ Refilled'
  <2>1. /\ UNCHANGED limiters
        /\ \A l \in Lims : tokens'[l] = Refill(tokens[l])
        /\ \A i \in Ips : age'[i] = IF age[i] < Stale THEN age[i] + 1 ELSE Stale
        /\ \A q \in Reqs : held'[q] = IF held[q] = None THEN None
                                       ELSE [held[q] EXCEPT !.since = @ + 1]
    BY <1>4 DEF Tick
  <2>2. ASSUME NEW q \in Reqs, held'[q] # None
        PROVE  /\ held[q] # None
               /\ held'[q].ip = held[q].ip
               /\ held'[q].lim = held[q].lim
               /\ held'[q].since = held[q].since + 1
    BY <2>1, <2>2, <1>t, HoldingFields DEF Holdings
  <2>3. Distinct' /\ NoOrphan'
    BY <1>t, <2>1, <2>2 DEF Distinct, NoOrphan
  <2>4. HeldRecent'
    <3>1. ASSUME NEW q \in Reqs, held'[q] # None
          PROVE  age'[held[q].ip] =< held[q].since + 1
      <4>1. /\ age[held[q].ip] =< held[q].since /\ held[q].ip \in Ips
            /\ held[q].since \in 0..Stall /\ age[held[q].ip] < Stale
        BY <1>t, <2>2, <3>1, HoldingFields, HeldIsFresh DEF HeldRecent
      <4>2. age[held[q].ip] \in 0..Stale
        BY <1>t, <4>1 DEF TypeOK
      <4>3. QED
        BY <2>1, <4>1, <4>2, RateLimiterAssumption DEF Stale
    <3>2. QED
      BY <2>2, <3>1 DEF HeldRecent
  <2>5. ASSUME NEW i \in Ips, limiters[i] # None
        PROVE  tokens'[limiters[i]] = Burst \/ tokens'[limiters[i]] >= Rate * (age'[i] - Stall)
    <3> DEFINE t == tokens[limiters[i]]
               a == age[i]
    <3>1. /\ limiters[i] \in Lims /\ t \in 0..Burst /\ a \in 0..Stale
          /\ Burst \in Nat /\ Rate \in Nat /\ Stall \in Nat /\ Stale \in Nat
      BY <1>t, <2>5, RateLimiterAssumption DEF TypeOK, Stale
    <3>2. tokens'[limiters[i]] = Refill(t)
      BY <2>1, <3>1
    <3>3. age'[i] = IF a < Stale THEN a + 1 ELSE Stale
      BY <2>1
    <3>4. CASE t = Burst
      BY <3>1, <3>2, <3>4, RateLimiterAssumption DEF Refill
    <3>5. CASE t >= Rate * (a - Stall)
      <4>1. Rate * (a - Stall) \in Int /\ Rate * ((a - Stall) + 1) = Rate * (a - Stall) + Rate
        BY <3>1, OneMoreTick
      <4>2. CASE a < Stale
        <5>1. age'[i] - Stall = (a - Stall) + 1
          BY <4>2, <3>1, <3>3
        <5>2. Rate * (age'[i] - Stall) =< t + Rate
          BY <5>1, <4>1, <3>1, <3>5
        <5>3. Rate * (age'[i] - Stall) \in Int
          BY <5>1, <4>1, <3>1
        <5>4. QED
          BY <5>2, <5>3, <3>1, <3>2 DEF Refill
      <4>3. CASE a = Stale
        <5>1. age'[i] = a
          BY <4>3, <3>1, <3>3
        <5>2. Refill(t) \in 0..Burst /\ Refill(t) >= t
          BY <3>1, RefillType
        <5>3. QED
          BY <5>1, <5>2, <4>1, <3>1, <3>2, <3>5
      <4>4. QED
        BY <3>1, <4>2, <4>3
    <3>6. QED
      BY <1>t, <2>5, <3>4, <3>5 DEF Refilled
  <2>6. QED
    BY <2>1, <2>3, <2>4, <2>5 DEF Refilled
<1>5. CASE UNCHANGED vars
  BY <1>5, <1>t DEF vars, Distinct, NoOrphan, HeldRecent, Refilled
<1>6. QED
  BY <1>1, <1>2, <1>3, <1>4, <1>5 DEF Next

LEMMA InitInv == Init => Inv
BY TypeInit DEF Init, Inv, Distinct, NoOrphan, HeldRecent, Refilled

LEMMA Invariance ==
  ASSUME WellSized
  PROVE  Spec => []Inv
BY InitInv, InvStep, TypeCorrect, PTL DEF Spec

(* Under WellSized a request never outlives the entry of its limiter.      *)
THEOREM NeverOrphaned == WellSized => (Spec => []NoOrphan)
<1> SUFFICES ASSUME WellSized PROVE Spec => []NoOrphan
  OBVIOUS
<1>1. Inv => NoOrphan
  BY DEF Inv
<1>2. QED
  BY <1>1, Invariance, PTL

(* Under WellSized the cleanup only drops full buckets.                    *)
THEOREM DropsOnlyFull == WellSized => (Spec => []StaleIsFull)
<1> SUFFICES ASSUME WellSized PROVE Spec => []StaleIsFull
  OBVIOUS
<1>1. Inv => StaleIsFull
  BY FullWhenStale DEF Inv
<1>2. QED
  BY <1>1, Invariance, PTL
-----------------------------------------------------------------------------
LEMMA StateFacts ==
  ASSUME WellSized, Inv
  PROVE  TypeOK /\ Distinct /\ NoOrphan /\ StaleIsFull
BY FullWhenStale DEF Inv

(* A new limiter is full, as the bucket of a client without one.           *)
LEMMA GetLimiterKeepsLevel ==
  ASSUME WellSized, Inv, NEW q \in Reqs, NEW ip \in Ips, GetLimiter(q, ip)
  PROVE  UNCHANGED <<Level, verdict>>
<1>1. CASE limiters[ip] = None
  <2>1. PICK l \in Free : /\ limiters' = [limiters EXCEPT ![ip] = l]
                          /\ tokens' = [tokens EXCEPT ![l] = Burst]
    BY <1>1 DEF GetLimiter
  <2>2. l \in Lims /\ l # None /\ \A i \in Ips : limiters[i] # l
    BY RateLimiterAssumption DEF Free
  <2>3. \A i \in Ips : (IF limiters'[i] = None THEN Burst ELSE tokens'[limiters'[i]])
                        = (IF limiters[i] = None THEN Burst ELSE tokens[limiters[i]])
    BY StateFacts, <1>1, <2>1, <2>2 DEF TypeOK
  <2>4. QED
    BY <2>3 DEF GetLimiter, Level
<1>2. CASE limiters[ip] # None
  BY <1>2 DEF GetLimiter, Level
<1>3. QED
  BY <1>1, <1>2

(* Allow takes a token of the client's own bucket, or refuses.             *)
LEMMA AllowMaps ==
  ASSUME WellSized, Inv, NEW q \in Reqs, Allow(q)
  PROVE  held[q].ip \in Ips /\ (Bucket!Admit(held[q].ip) \/ Bucket!Refuse(held[q].ip))
<1> DEFINE ip == held[q].ip
           l == held[q].lim
<1>t. TypeOK /\ Distinct /\ NoOrphan
  BY StateFacts
<1>1. ip \in Ips /\ l \in Lims /\ limiters[ip] = l /\ l # None
  BY <1>t, HoldingFields, RateLimiterAssumption DEF Allow, NoOrphan
<1>2. Level[ip] = tokens[l]
  BY <1>1 DEF Level
<1>3. CASE /\ tokens[l] >= 1
           /\ tokens' = [tokens EXCEPT ![l] = @ - 1]
           /\ verdict' = [verdict EXCEPT ![ip] = "admit"]
  <2>1. \A i \in Ips : i # ip => limiters[i] # l
    BY <1>1, <1>t DEF Distinct
  <2>2. tokens'[l] = tokens[l] - 1 /\ \A k \in Lims : k # l => tokens'[k] = tokens[k]
    BY <1>1, <1>3, <1>t DEF TypeOK
  <2>3. limiters' = limiters
    BY DEF Allow
  <2>4. Level' = [Level EXCEPT ![ip] = @ - 1]
    BY <1>1, <2>1, <2>2, <2>3, <1>t DEF Level, TypeOK
  <2>5. QED
    BY <1>1, <1>2, <1>3, <2>4 DEF Bucket!Admit
<1>4. CASE /\ tokens[l] = 0
           /\ verdict' = [verdict EXCEPT ![ip] = "refuse"]
           /\ UNCHANGED tokens
  <2>1. Level' = Level
    BY <1>4 DEF Allow, Level
  <2>2. QED
    BY <1>1, <1>2, <1>4, <2>1 DEF Bucket!Refuse
<1>5. QED
  BY <1>3, <1>4 DEF Allow

(* What the cleanup drops is full.                                         *)
LEMMA CleanupKeepsLevel ==
  ASSUME WellSized, Inv, CleanupLoop
  PROVE  UNCHANGED <<Level, verdict>>
BY StateFacts DEF CleanupLoop, Level, StaleIsFull

LEMMA TickMaps ==
  ASSUME WellSized, Inv, Tick
  PROVE  Bucket!Tick
<1>1. Refill(Burst) = Burst
  BY RateLimiterAssumption DEF Refill
<1>2. \A i \in Ips : limiters[i] # None => limiters[i] \in Lims
  BY StateFacts DEF TypeOK
<1>3. Level' = [i \in Ips |-> Refill(Level[i])]
  BY <1>1, <1>2 DEF Tick, Level
<1>4. Level' = [i \in Ips |-> Bucket!Refill(Level[i])]
  BY <1>3 DEF Refill, Bucket!Refill
<1>5. QED
  BY <1>4 DEF Tick, Bucket!Tick

(* Under WellSized the limiter is one ideal bucket per client: the map,    *)
(* the identity of the limiters and the cleanup are invisible.             *)
THEOREM Implements == WellSized => (Spec => ImplementsBucket)
<1> SUFFICES ASSUME WellSized PROVE Spec => ImplementsBucket
  OBVIOUS
<1>1. Init => Bucket!Init
  BY DEF Init, Bucket!Init, Level
<1>2. Inv /\ [Next]_vars => [Bucket!Next]_<<Level, verdict>>
  <2> SUFFICES ASSUME Inv, [Next]_vars
               PROVE  Bucket!Next \/ UNCHANGED <<Level, verdict>>
    OBVIOUS
  <2>1. ASSUME NEW q \in Reqs, NEW ip \in Ips, GetLimiter(q, ip)
        PROVE  UNCHANGED <<Level, verdict>>
    BY <2>1, GetLimiterKeepsLevel
  <2>2. ASSUME NEW q \in Reqs, Allow(q) PROVE Bucket!Next
    BY <2>2, AllowMaps DEF Bucket!Next
  <2>3. CASE CleanupLoop
    BY <2>3, CleanupKeepsLevel
  <2>4. CASE Tick
    BY <2>4, TickMaps DEF Bucket!Next
  <2>5. CASE UNCHANGED vars
    BY <2>5 DEF vars, Level
  <2>6. QED
    BY <2>1, <2>2, <2>3, <2>4, <2>5 DEF Next
<1>3. QED
  BY <1>1, <1>2, Invariance, PTL DEF Spec, ImplementsBucket, Bucket!Spec
-----------------------------------------------------------------------------
(* The window watches: its steps are those of the limiter.                 *)
LEMMA WindowWatches == [WindowNext]_<<vars, window>> => [Next]_vars
BY DEF WindowNext, Next, vars

(* What the client got through together with what it could take at once is *)
(* at most a full bucket and what was refilled; and it is at least what    *)
(* was refilled, unless the bucket was full in between.                    *)
Balance ==
  /\ window \in [ticks : Nat, admitted : Nat]
  /\ window.admitted + Level[Watched] =< Burst + Rate * window.ticks
  /\ \/ window.admitted + Level[Watched] >= Burst
     \/ window.admitted + Level[Watched] >= Rate * window.ticks

LEMMA LevelType ==
  ASSUME TypeOK
  PROVE  Level \in [Ips -> 0..Burst]
BY RateLimiterAssumption DEF TypeOK, Level

LEMMA BalanceStep ==
  WellSized /\ Inv /\ TypeOK' /\ Balance /\ [WindowNext]_<<vars, window>> => Balance'
<1> SUFFICES ASSUME WellSized, Inv, TypeOK', Balance, [WindowNext]_<<vars, window>>
             PROVE  Balance'
  OBVIOUS
<1>1. Watched \in Ips /\ window.ticks \in Nat /\ window.admitted \in Nat
  BY WindowAssumption DEF Balance
<1>2. Level \in [Ips -> 0..Burst] /\ Level' \in [Ips -> 0..Burst]
  BY StateFacts, LevelType, RateLimiterAssumption DEF TypeOK, Level
<1>3. ASSUME UNCHANGED <<Level, verdict>>, UNCHANGED window
      PROVE  Balance'
  BY <1>3 DEF Balance
<1>4. ASSUME window' = Opened
      PROVE  Balance'
  <2>1. /\ window' \in [ticks : Nat, admitted : Nat]
        /\ window'.ticks = 0 /\ window'.admitted = 0
    BY <1>4 DEF Opened
  <2>2. Level'[Watched] \in 0..Burst
    BY <1>1, <1>2
  <2>3. QED
    BY <2>1, <2>2, RateLimiterAssumption DEF Balance
<1>5. ASSUME NEW q \in Reqs, Allow(q), window' = Count(q)
      PROVE  Balance'
  <2> DEFINE ip == held[q].ip
  <2>1. ip \in Ips /\ (Bucket!Admit(ip) \/ Bucket!Refuse(ip))
    BY <1>5, AllowMaps
  <2>2. verdict'[ip] = "admit" => Level'[ip] = Level[ip] - 1
    BY <2>1, <1>2, StateFacts DEF Bucket!Admit, Bucket!Refuse, TypeOK
  <2>3. ip # Watched \/ verdict'[ip] # "admit" => Level'[Watched] = Level[Watched]
    BY <2>1, <1>1, <1>2, StateFacts DEF Bucket!Admit, Bucket!Refuse, TypeOK
  <2>4. CASE ip = Watched /\ verdict'[ip] = "admit"
    <3>1. /\ window' \in [ticks : Nat, admitted : Nat]
          /\ window'.ticks = window.ticks
          /\ window'.admitted = window.admitted + 1
      BY <1>1, <1>5, <2>4 DEF Count, Balance
    <3>2. window'.admitted + Level'[Watched] = window.admitted + Level[Watched]
      BY <1>1, <1>2, <2>2, <2>4, <3>1
    <3>3. QED
      BY <3>1, <3>2 DEF Balance
  <2>5. CASE ~(ip = Watched /\ verdict'[ip] = "admit")
    <3>1. window' = window
      BY <1>5, <2>5 DEF Count
    <3>2. QED
      BY <2>3, <2>5, <3>1 DEF Balance
  <2>6. QED
    BY <2>4, <2>5
<1>6. ASSUME Tick, window' = [window EXCEPT !.ticks = @ + 1]
      PROVE  Balance'
  <2> DEFINE a == window.admitted
             b == Level[Watched]
  <2>1. Level'[Watched] = IF b + Rate < Burst THEN b + Rate ELSE Burst
    BY <1>1, <1>6, TickMaps DEF Bucket!Tick, Bucket!Refill
  <2>2. /\ window' \in [ticks : Nat, admitted : Nat]
        /\ window'.admitted = a /\ window'.ticks = window.ticks + 1
    BY <1>1, <1>6 DEF Balance
  <2>3. Rate * (window.ticks + 1) = Rate * window.ticks + Rate
    BY <1>1, OneMoreTick, RateLimiterAssumption
  <2>4. Rate * window.ticks \in Nat /\ a \in Nat /\ b \in 0..Burst
    BY <1>1, <1>2, RateLimiterAssumption
  <2>5. /\ a + b =< Burst + Rate * window.ticks
        /\ a + b >= Burst \/ a + b >= Rate * window.ticks
    BY DEF Balance
  <2>6. \A r \in Nat, s \in 0..Burst :
          /\ a + b =< Burst + r
          /\ a + b >= Burst \/ a + b >= r
          /\ s = IF b + Rate < Burst THEN b + Rate ELSE Burst
          => /\ a + s =< Burst + (r + Rate)
             /\ a + s >= Burst \/ a + s >= r + Rate
    BY <2>4, RateLimiterAssumption
  <2>7. Level'[Watched] \in 0..Burst
    BY <1>1, <1>2
  <2>8. /\ a + Level'[Watched] =< Burst + (Rate * window.ticks + Rate)
        /\ \/ a + Level'[Watched] >= Burst
           \/ a + Level'[Watched] >= Rate * window.ticks + Rate
    BY <2>1, <2>4, <2>5, <2>6, <2>7
  <2>9. QED
    BY <2>2, <2>3, <2>8 DEF Balance
<1>7. CASE UNCHANGED <<vars, window>>
  BY <1>3, <1>7 DEF vars, Level
<1>8. QED
  BY <1>3, <1>4, <1>5, <1>6, <1>7, GetLimiterKeepsLevel, CleanupKeepsLevel
     DEF WindowNext, Lengthen

LEMMA WindowInvariant ==
  ASSUME WellSized
  PROVE  WindowSpec => [](Inv /\ Balance)
<1>1. WindowInit => Inv /\ Balance
  <2> SUFFICES ASSUME WindowInit PROVE Inv /\ Balance
    OBVIOUS
  <2>1. Inv
    BY InitInv DEF WindowInit
  <2>2. Level[Watched] \in 0..Burst
    BY <2>1, LevelType, WindowAssumption DEF Inv
  <2>3. QED
    BY <2>1, <2>2, RateLimiterAssumption DEF Balance, WindowInit, Opened
<1>2. Inv /\ Balance /\ [WindowNext]_<<vars, window>> => (Inv /\ Balance)'
  <2>1. Inv /\ [Next]_vars => TypeOK'
    BY TypeStep DEF Inv
  <2>2. QED
    BY <2>1, InvStep, BalanceStep, WindowWatches
<1>3. QED
  BY <1>1, <1>2, PTL DEF WindowSpec

(* In any stretch of time a client gets through no more than a full bucket *)
(* and what is refilled meanwhile, whatever is dropped from the map        *)
(* (getLimiter, Allow and cleanupLoop of ratelimiter.go).                  *)
THEOREM AdmissionsBounded == WellSized => (WindowSpec => []AdmissionBound)
<1> SUFFICES ASSUME WellSized PROVE WindowSpec => []AdmissionBound
  OBVIOUS
<1>1. Inv /\ Balance => AdmissionBound
  <2> SUFFICES ASSUME Inv, Balance PROVE AdmissionBound
    OBVIOUS
  <2>1. Level[Watched] \in 0..Burst
    BY LevelType, WindowAssumption DEF Inv
  <2>2. Rate * window.ticks \in Int
    BY RateLimiterAssumption DEF Balance
  <2>3. QED
    BY <2>1, <2>2, RateLimiterAssumption DEF Balance, AdmissionBound
<1>2. QED
  BY <1>1, WindowInvariant, PTL

(* Only the request itself gives up its limiter, in Allow.                 *)
LEMMA LeavesByAllow ==
  ASSUME WellSized, Inv, [WindowNext]_<<vars, window>>,
         NEW q \in Reqs, held[q] # None, held'[q] = None
  PROVE  Allow(q)
<1>t. TypeOK
  BY StateFacts
<1>1. ASSUME NEW p \in Reqs, NEW ip \in Ips, GetLimiter(p, ip) PROVE FALSE
  <2>1. PICK l \in Lims : Hold(p, ip, l)
    BY <1>1, <1>t DEF GetLimiter, Free, TypeOK
  <2>2. p # q
    BY <1>1 DEF GetLimiter
  <2>3. QED
    BY <2>1, <2>2, <1>t DEF Hold, TypeOK
<1>2. ASSUME NEW p \in Reqs, Allow(p) PROVE p = q
  BY <1>2, <1>t DEF Allow, TypeOK
<1>3. CASE Tick
  <2>1. [held[q] EXCEPT !.since = @ + 1] \in Holdings
    BY <1>3, <1>t, HoldingFields, RateLimiterAssumption DEF Tick, Holdings
  <2>2. held'[q] \in Holdings
    BY <1>3, <2>1 DEF Tick
  <2>3. QED
    BY <2>2, RateLimiterAssumption
<1>4. QED
  BY <1>1, <1>2, <1>3 DEF WindowNext, CleanupLoop, vars

(* A refusal comes to a client that used up its rate for the time, or a    *)
(* burst, in every stretch of time that ends with it.                      *)
THEOREM RefusalsEarned == WellSized => (WindowSpec => RefusedWhenSpent)
<1> SUFFICES ASSUME WellSized PROVE WindowSpec => RefusedWhenSpent
  OBVIOUS
<1>1. Inv /\ Balance /\ [WindowNext]_<<vars, window>> => SpentWhenRefused
  <2> SUFFICES ASSUME Inv, Balance, [WindowNext]_<<vars, window>>,
                      NEW q \in Reqs, Refused(q)
               PROVE  window.admitted >= Burst \/ window.admitted >= Rate * window.ticks
    BY DEF SpentWhenRefused
  <2>1. Bucket!Admit(Watched) \/ Bucket!Refuse(Watched)
    BY LeavesByAllow, AllowMaps DEF Refused
  <2>2. verdict \in [Ips -> {"none", "admit", "refuse"}]
    BY StateFacts DEF TypeOK
  <2>3. Level[Watched] = 0
    BY <2>1, <2>2, WindowAssumption DEF Bucket!Admit, Bucket!Refuse, Refused
  <2>4. QED
    BY <2>3 DEF Balance
<1>2. QED
  BY <1>1, WindowInvariant, PTL DEF WindowSpec, RefusedWhenSpent
=============================================================================
