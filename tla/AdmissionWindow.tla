--------------------------- MODULE AdmissionWindow ---------------------------
(***************************************************************************)
(* The rate limiter under the eye of an upstream: a window that may be     *)
(* opened at any moment counts the time and the requests of one client     *)
(* that the limiter lets through.  The window is a history variable: it    *)
(* watches RateLimiter and takes no part in it.                            *)
(***************************************************************************)
EXTENDS RateLimiter

CONSTANTS Watched,   (* the client whose requests are counted                 *)
          Longest    (* ticks after which a new window is opened              *)

ASSUME WindowAssumption == Watched \in Ips /\ Longest \in Nat

VARIABLE window    (* how long it has been open, how many requests got through *)

Opened == [ticks |-> 0, admitted |-> 0]

WindowInit == Init /\ window = Opened

(* A request of the client is let through when Allow admits it.            *)
Count(q) ==
  IF held[q].ip = Watched /\ verdict'[Watched] = "admit"
  THEN [window EXCEPT !.admitted = @ + 1]
  ELSE window

Lengthen == IF window.ticks < Longest THEN [window EXCEPT !.ticks = @ + 1] ELSE Opened

WindowNext ==
  \/ window' = Opened /\ UNCHANGED vars
  \/ \E q \in Reqs, ip \in Ips : GetLimiter(q, ip) /\ UNCHANGED window
  \/ \E q \in Reqs : Allow(q) /\ window' = Count(q)
  \/ CleanupLoop /\ UNCHANGED window
  \/ Tick /\ window' = Lengthen

WindowSpec == WindowInit /\ [][WindowNext]_<<vars, window>> /\ Fairness
-----------------------------------------------------------------------------
(* In any stretch of time, whenever it begins, a client gets through what  *)
(* a full bucket holds and what is refilled meanwhile, and no more.  It    *)
(* cannot gain by staying away until its entry is dropped, nor by several  *)
(* requests that hold the limiter while that happens.                      *)
AdmissionBound == window.admitted =< Burst + Rate * window.ticks

Refused(q) ==
  /\ held[q] # None /\ held'[q] = None
  /\ held[q].ip = Watched /\ verdict'[Watched] = "refuse"

SpentWhenRefused ==
  \A q \in Reqs : Refused(q) =>
    window.admitted >= Burst \/ window.admitted >= Rate * window.ticks

(* A client is refused only when it has used up what it is entitled to: in *)
(* every stretch of time that ends with a refusal it got through the rate  *)
(* for that time, or a whole burst.                                        *)
RefusedWhenSpent == [][SpentWhenRefused]_<<vars, window>>
=============================================================================
