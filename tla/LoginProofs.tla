----------------------------- MODULE LoginProofs -----------------------------
(***************************************************************************)
(* The invariants of Login, for every set of requests, threshold and       *)
(* number of faults.                                                       *)
(***************************************************************************)
EXTENDS Login, FiniteSetTheorems, TLAPS

(* While the account is unlocked, each failure past MaxFailed - 1 is that  *)
(* of a request that still decides on the lock or was cut short.           *)
UnlockedBound ==
  ~user.is_locked =>
    user.failed_logins =< MaxFailed - 1 + Cardinality(Deciding) + lost

(* Once it is locked, only the requests at "inc" can still add a failure.  *)
LockedBound ==
  user.is_locked =>
    user.failed_logins + Cardinality(At({"inc"}))
      =< MaxFailed - 1 + Cardinality(Reqs) + lost

(* The counter never exceeds the failures counted so far.                  *)
CountedBound == wrong < MaxFailed => user.failed_logins =< wrong

CountInv == TypeOK /\ UnlockedBound /\ LockedBound
LockInv == TypeOK /\ CountedBound /\ LockJustified
-----------------------------------------------------------------------------
(* Every variable keeps its type: the counter never leaves Nat.            *)
THEOREM TypeCorrect == Spec => []TypeOK
<1>1. Init => TypeOK
  BY LoginAssumption DEF Init, TypeOK, PCs
<1>2. TypeOK /\ [Next]_vars => TypeOK'
  <2> SUFFICES ASSUME TypeOK, [Next]_vars PROVE TypeOK'
    OBVIOUS
  <2> USE LoginAssumption DEF TypeOK, PCs, Goto
  <2>1. ASSUME NEW r \in Reqs, Receive(r) PROVE TypeOK'
    BY <2>1 DEF Receive
  <2>2. ASSUME NEW r \in Reqs, FindUser(r) PROVE TypeOK'
    BY <2>2 DEF FindUser
  <2>3. ASSUME NEW r \in Reqs, IncrementFailedLogins(r) PROVE TypeOK'
    BY <2>3 DEF IncrementFailedLogins, CountFailure, CutShort
  <2>4. ASSUME NEW r \in Reqs, ReadBack(r) PROVE TypeOK'
    BY <2>4 DEF ReadBack, CutShort
  <2>5. ASSUME NEW r \in Reqs, SetLocked(r) PROVE TypeOK'
    <3>1. lost' \in Nat /\ pc' \in [Reqs -> PCs] /\ wrong' = wrong
      BY <2>5 DEF SetLocked, CutShort
    <3>2. user' \in [failed_logins : Nat, is_locked : BOOLEAN]
      BY <2>5 DEF SetLocked
    <3>3. QED
      BY <3>1, <3>2
  <2>6. ASSUME NEW r \in Reqs, ResetFailedLogins(r) PROVE TypeOK'
    BY <2>6 DEF ResetFailedLogins
  <2>7. ASSUME Crash PROVE TypeOK'
    <3>1. IsFiniteSet(Deciding)
      BY FS_Subset DEF Deciding, At
    <3>2. Cardinality(Deciding) \in Nat
      BY <3>1, FS_CardinalityType
    <3>3. QED
      BY <2>7, <3>2 DEF Crash
  <2>8. CASE UNCHANGED vars
    BY <2>8 DEF vars
  <2>9. QED
    BY <2>1, <2>2, <2>3, <2>4, <2>5, <2>6, <2>7, <2>8 DEF Next, Handle
<1>3. QED
  BY <1>1, <1>2, PTL DEF Spec
-----------------------------------------------------------------------------
(* How many requests stand at a set of points, before and after one moves. *)
LEMMA AtFinite ==
  ASSUME NEW S
  PROVE  /\ IsFiniteSet(At(S))
         /\ Cardinality(At(S)) \in Nat
         /\ Cardinality(At(S)) =< Cardinality(Reqs)
<1>1. At(S) \subseteq Reqs
  BY DEF At
<1>2. IsFiniteSet(At(S)) /\ Cardinality(At(S)) =< Cardinality(Reqs)
  BY <1>1, FS_Subset, LoginAssumption
<1>3. QED
  BY <1>2, FS_CardinalityType

LEMMA AtEnter ==
  ASSUME TypeOK, NEW r \in Reqs, NEW l, NEW S, Goto(r, l), l \in S, pc[r] \notin S
  PROVE  Cardinality(At(S)') = Cardinality(At(S)) + 1
<1>1. At(S)' = At(S) \cup {r} /\ r \notin At(S)
  BY DEF At, Goto, TypeOK
<1>2. QED
  BY <1>1, AtFinite, FS_AddElement

LEMMA AtLeave ==
  ASSUME TypeOK, NEW r \in Reqs, NEW l, NEW S, Goto(r, l), l \notin S, pc[r] \in S
  PROVE  Cardinality(At(S)') = Cardinality(At(S)) - 1
<1>1. At(S)' = At(S) \ {r} /\ r \in At(S)
  BY DEF At, Goto, TypeOK
<1>2. QED
  BY <1>1, AtFinite, FS_RemoveElement

LEMMA AtStay ==
  ASSUME TypeOK, NEW r \in Reqs, NEW l, NEW S, Goto(r, l), l \in S <=> pc[r] \in S
  PROVE  At(S)' = At(S)
BY DEF At, Goto, TypeOK

(* The requests at "inc" and those that decide are different requests.     *)
LEMMA IncAndDeciding ==
  Cardinality(At({"inc"})) + Cardinality(Deciding) =< Cardinality(Reqs)
<1>1. At({"inc"}) \cup Deciding = At({"inc", "readback", "lock"})
  BY DEF At, Deciding
<1>2. At({"inc"}) \cap Deciding = {}
  BY DEF At, Deciding
<1>3. IsFiniteSet(At({"inc"})) /\ IsFiniteSet(Deciding)
  BY AtFinite DEF Deciding
<1>4. /\ Cardinality(At({"inc"})) \in Nat
      /\ Cardinality(Deciding) \in Nat
      /\ Cardinality(At({"inc"}) \cap Deciding) = 0
  BY <1>2, <1>3, AtFinite, FS_EmptySet DEF Deciding
<1>5. Cardinality(At({"inc"}) \cup Deciding)
        = Cardinality(At({"inc"})) + Cardinality(Deciding) - 0
  BY <1>3, <1>4, FS_Union
<1>6. Cardinality(At({"inc"}) \cup Deciding) =< Cardinality(Reqs)
  BY <1>1, AtFinite
<1>7. Cardinality(Reqs) \in Nat
  BY FS_CardinalityType, LoginAssumption
<1>8. QED
  BY <1>4, <1>5, <1>6, <1>7
-----------------------------------------------------------------------------
(* CountInv is inductive.                                                  *)
LEMMA CountInvInit == Init => CountInv
<1> SUFFICES ASSUME Init PROVE CountInv
  OBVIOUS
<1>1. Deciding = {}
  BY DEF Init, Deciding, At
<1>2. Cardinality(Deciding) = 0
  BY <1>1, FS_EmptySet
<1>3. QED
  BY <1>2, LoginAssumption
  DEF Init, CountInv, TypeOK, PCs, UnlockedBound, LockedBound

LEMMA CountInvStep == CountInv /\ TypeOK' /\ [Next]_vars => CountInv'
<1> SUFFICES ASSUME CountInv, TypeOK', [Next]_vars PROVE UnlockedBound' /\ LockedBound'
  BY DEF CountInv
<1>t. TypeOK /\ UnlockedBound /\ LockedBound
  BY DEF CountInv
<1> DEFINE Inc == At({"inc"})
           nInc == Cardinality(Inc)
           nDec == Cardinality(Deciding)
<1>n. /\ nInc \in Nat /\ nDec \in Nat /\ Cardinality(Reqs) \in Nat
      /\ nInc + nDec =< Cardinality(Reqs)
  BY AtFinite, IncAndDeciding, FS_CardinalityType, LoginAssumption DEF Deciding
<1>p. Inc' = At({"inc"})' /\ Deciding' = At({"readback", "lock"})'
  BY DEF Deciding
<1> HIDE DEF Inc
<1>1. ASSUME NEW r \in Reqs, pc[r] \in {"idle", "find"}, Goto(r, "idle") \/ Goto(r, "find"),
             UNCHANGED <<user, lost>>
      PROVE  UnlockedBound' /\ LockedBound'
  <2>1. Inc' = Inc /\ Deciding' = Deciding
    BY <1>1, <1>t, <1>p, AtStay DEF Inc, Deciding
  <2>2. QED
    BY <2>1, <1>1, <1>t DEF UnlockedBound, LockedBound, Inc
<1>2. ASSUME NEW r \in Reqs, Receive(r) PROVE UnlockedBound' /\ LockedBound'
  BY <1>1, <1>2 DEF Receive
<1>3. ASSUME NEW r \in Reqs, FindUser(r) PROVE UnlockedBound' /\ LockedBound'
  <2>1. CASE Goto(r, "idle") \/ Goto(r, "reset")
    <3>1. Inc' = Inc /\ Deciding' = Deciding
      BY <1>3, <2>1, <1>t, <1>p, AtStay DEF FindUser, Inc, Deciding
    <3>2. QED
      BY <3>1, <1>3, <1>t DEF FindUser, UnlockedBound, LockedBound, Inc
  <2>2. CASE ~user.is_locked /\ Goto(r, "inc")
    <3>1. Deciding' = Deciding
      BY <1>3, <2>2, <1>t, <1>p, AtStay DEF FindUser, Deciding
    <3>2. QED
      BY <3>1, <2>2, <1>3, <1>t DEF FindUser, UnlockedBound, LockedBound
  <2>3. QED
    BY <1>3, <2>1, <2>2 DEF FindUser
<1>4. ASSUME NEW r \in Reqs, IncrementFailedLogins(r) PROVE UnlockedBound' /\ LockedBound'
  <2>1. nInc' = nInc - 1
    BY <1>4, <1>t, <1>p, AtLeave DEF IncrementFailedLogins, CutShort, Inc
  <2>2. CASE CountFailure /\ Goto(r, "readback") /\ UNCHANGED lost
    <3>1. nDec' = nDec + 1
      BY <1>4, <2>2, <1>t, <1>p, AtEnter DEF IncrementFailedLogins, Deciding
    <3>2. QED
      BY <2>1, <2>2, <3>1, <1>t, <1>n, LoginAssumption
      DEF CountFailure, TypeOK, UnlockedBound, LockedBound, Inc
  <2>3. CASE CountFailure /\ CutShort(r)
    <3>1. nDec' = nDec
      BY <1>4, <2>3, <1>t, <1>p, AtStay DEF IncrementFailedLogins, CutShort, Deciding
    <3>2. QED
      BY <2>1, <2>3, <3>1, <1>t, <1>n, LoginAssumption
      DEF CountFailure, CutShort, TypeOK, UnlockedBound, LockedBound, Inc
  <2>4. CASE Goto(r, "idle") /\ UNCHANGED <<user, wrong, lost>>
    <3>1. nDec' = nDec
      BY <1>4, <2>4, <1>t, <1>p, AtStay DEF IncrementFailedLogins, Deciding
    <3>2. QED
      BY <2>1, <2>4, <3>1, <1>t, <1>n, LoginAssumption
      DEF TypeOK, UnlockedBound, LockedBound, Inc
  <2>5. QED
    BY <1>4, <2>2, <2>3, <2>4 DEF IncrementFailedLogins
<1>5. ASSUME NEW r \in Reqs, ReadBack(r) PROVE UnlockedBound' /\ LockedBound'
  <2>1. nInc' = nInc /\ user' = user
    BY <1>5, <1>t, <1>p, AtStay DEF ReadBack, CutShort, Inc
  <2>2. CASE user.failed_logins >= MaxFailed /\ Goto(r, "lock") /\ UNCHANGED lost
    <3>1. nDec' = nDec
      BY <1>5, <2>2, <1>t, <1>p, AtStay DEF ReadBack, Deciding
    <3>2. QED
      BY <2>1, <2>2, <3>1, <1>t DEF UnlockedBound, LockedBound, Inc
  <2>3. CASE user.failed_logins < MaxFailed /\ Goto(r, "idle") /\ UNCHANGED lost
    <3>1. nDec' \in Nat
      <4>1. IsFiniteSet(Deciding')
        BY LoginAssumption, FS_Subset DEF Deciding, At
      <4>2. QED
        BY <4>1, FS_CardinalityType
    <3>2. QED
      BY <2>1, <2>3, <3>1, <1>t, <1>n, LoginAssumption
      DEF TypeOK, UnlockedBound, LockedBound, Inc
  <2>4. CASE CutShort(r)
    <3>1. nDec' = nDec - 1
      BY <1>5, <2>4, <1>t, <1>p, AtLeave DEF ReadBack, CutShort, Deciding
    <3>2. QED
      BY <2>1, <2>4, <3>1, <1>t, <1>n, LoginAssumption
      DEF CutShort, TypeOK, UnlockedBound, LockedBound, Inc
  <2>5. QED
    BY <1>5, <2>2, <2>3, <2>4 DEF ReadBack
<1>6. ASSUME NEW r \in Reqs, SetLocked(r) PROVE UnlockedBound' /\ LockedBound'
  <2>1. nInc' = nInc
    BY <1>6, <1>t, <1>p, AtStay DEF SetLocked, CutShort, Inc
  <2>2. nDec' = nDec - 1
    BY <1>6, <1>t, <1>p, AtLeave DEF SetLocked, CutShort, Deciding
  <2>3. CASE user' = [user EXCEPT !.is_locked = TRUE] /\ UNCHANGED lost
    <3>1. /\ user'.is_locked
          /\ user'.failed_logins = user.failed_logins
          /\ user.failed_logins \in Nat
          /\ lost' = lost /\ lost \in Nat
      BY <2>3, <1>t DEF TypeOK
    <3>2. UnlockedBound'
      BY <3>1 DEF UnlockedBound
    <3>3. user.failed_logins + nInc =< MaxFailed - 1 + Cardinality(Reqs) + lost
      <4>1. CASE user.is_locked
        BY <4>1, <1>t DEF LockedBound, Inc
      <4>2. CASE ~user.is_locked
        BY <4>2, <3>1, <1>n, <1>t, LoginAssumption DEF UnlockedBound
      <4>3. QED
        BY <4>1, <4>2
    <3>4. LockedBound'
      BY <3>1, <3>3, <2>1 DEF LockedBound, Inc
    <3>5. QED
      BY <3>2, <3>4
  <2>4. CASE CutShort(r) /\ UNCHANGED user
    BY <2>1, <2>2, <2>4, <1>t, <1>n, LoginAssumption
    DEF CutShort, TypeOK, UnlockedBound, LockedBound, Inc
  <2>5. QED
    BY <1>6, <2>3, <2>4 DEF SetLocked
<1>7. ASSUME NEW r \in Reqs, ResetFailedLogins(r) PROVE UnlockedBound' /\ LockedBound'
  <2>1. nInc' = nInc /\ nDec' = nDec
    BY <1>7, <1>t, <1>p, AtStay DEF ResetFailedLogins, Inc, Deciding
  <2>2. CASE user' = [user EXCEPT !.failed_logins = 0]
    BY <1>7, <2>1, <2>2, <1>t, <1>n, LoginAssumption
    DEF ResetFailedLogins, TypeOK, UnlockedBound, LockedBound, Inc
  <2>3. CASE UNCHANGED user
    BY <1>7, <2>1, <2>3, <1>t DEF ResetFailedLogins, UnlockedBound, LockedBound, Inc
  <2>4. QED
    BY <1>7, <2>2, <2>3 DEF ResetFailedLogins
<1>8. ASSUME Crash PROVE UnlockedBound' /\ LockedBound'
  <2>1. Inc' = {} /\ Deciding' = {}
    BY <1>8, <1>p DEF Crash, At
  <2>2. nInc' = 0 /\ nDec' = 0
    BY <2>1, FS_EmptySet
  <2>3. QED
    BY <1>8, <2>2, <1>t, <1>n, LoginAssumption
    DEF Crash, TypeOK, UnlockedBound, LockedBound, Inc
<1>9. CASE UNCHANGED vars
  BY <1>9, <1>t DEF vars, UnlockedBound, LockedBound, At, Deciding
<1>10. QED
  BY <1>2, <1>3, <1>4, <1>5, <1>6, <1>7, <1>8, <1>9 DEF Next, Handle

LEMMA CountInvariant == Spec => []CountInv
BY CountInvInit, CountInvStep, TypeCorrect, PTL DEF Spec
-----------------------------------------------------------------------------
(* The counter overshoots the threshold by the requests in flight and the  *)
(* decisions that faults cut short, never by more.                         *)
THEOREM FailuresBounded == Spec => []LockBound
<1>1. CountInv => LockBound
  <2> SUFFICES ASSUME CountInv PROVE LockBound
    OBVIOUS
  <2>1. /\ Cardinality(At({"inc"})) \in Nat /\ Cardinality(Reqs) \in Nat
        /\ Cardinality(Deciding) \in Nat
        /\ Cardinality(At({"inc"})) + Cardinality(Deciding) =< Cardinality(Reqs)
    BY AtFinite, IncAndDeciding, FS_CardinalityType, LoginAssumption DEF Deciding
  <2>2. QED
    BY <2>1, LoginAssumption DEF CountInv, TypeOK, UnlockedBound, LockedBound, LockBound
<1>2. QED
  BY <1>1, CountInvariant, PTL

(* Without a fault, an unlocked account at the threshold always has a      *)
(* request that is about to lock it.                                       *)
THEOREM LockNeverForgotten == Spec => []LockPending
<1>1. CountInv => LockPending
  <2> SUFFICES ASSUME CountInv, user.failed_logins >= MaxFailed, ~user.is_locked, lost = 0,
                      Deciding = {}
               PROVE  FALSE
    BY DEF LockPending
  <2>1. Cardinality(Deciding) = 0
    BY FS_EmptySet
  <2>2. QED
    BY <2>1, LoginAssumption DEF CountInv, TypeOK, UnlockedBound
<1>2. QED
  BY <1>1, CountInvariant, PTL
-----------------------------------------------------------------------------
(* An account is locked only after MaxFailed counted failures.             *)
THEOREM LocksAreJustified == Spec => []LockJustified
<1>1. Init => LockInv
  BY LoginAssumption DEF Init, LockInv, TypeOK, PCs, CountedBound, LockJustified, At
<1>2. LockInv /\ TypeOK' /\ [Next]_vars => LockInv'
  <2> SUFFICES ASSUME LockInv, TypeOK', [Next]_vars PROVE CountedBound' /\ LockJustified'
    BY DEF LockInv
  <2> USE LoginAssumption DEF LockInv, TypeOK, CountedBound, LockJustified, At, Goto
  <2>1. ASSUME NEW r \in Reqs, Receive(r) PROVE CountedBound' /\ LockJustified'
    BY <2>1 DEF Receive
  <2>2. ASSUME NEW r \in Reqs, FindUser(r) PROVE CountedBound' /\ LockJustified'
    BY <2>2 DEF FindUser
  <2>3. ASSUME NEW r \in Reqs, IncrementFailedLogins(r) PROVE CountedBound' /\ LockJustified'
    BY <2>3 DEF IncrementFailedLogins, CountFailure, CutShort
  <2>4. ASSUME NEW r \in Reqs, ReadBack(r) PROVE CountedBound' /\ LockJustified'
    BY <2>4 DEF ReadBack, CutShort
  <2>5. ASSUME NEW r \in Reqs, SetLocked(r) PROVE CountedBound' /\ LockJustified'
    BY <2>5 DEF SetLocked, CutShort
  <2>6. ASSUME NEW r \in Reqs, ResetFailedLogins(r) PROVE CountedBound' /\ LockJustified'
    BY <2>6 DEF ResetFailedLogins
  <2>7. ASSUME Crash PROVE CountedBound' /\ LockJustified'
    BY <2>7 DEF Crash
  <2>8. CASE UNCHANGED vars
    BY <2>8 DEF vars
  <2>9. QED
    BY <2>1, <2>2, <2>3, <2>4, <2>5, <2>6, <2>7, <2>8 DEF Next, Handle
<1>3. LockInv => LockJustified
  BY DEF LockInv
<1>4. QED
  BY <1>1, <1>2, <1>3, TypeCorrect, PTL DEF Spec
-----------------------------------------------------------------------------
(* The requests that read the account before it was locked, perhaps, and   *)
(* that may still count, decide, reset or grant.                           *)
Overtaking == At(PCs \ {"idle", "find"})
LockHolds == user.is_locked /\ Overtaking = {}

LEMMA LockedStep ==
  ASSUME TypeOK, [Next]_vars, user.is_locked
  PROVE  user'.is_locked /\ Overtaking' \subseteq Overtaking
<1> DEFINE Good == user'.is_locked /\ Overtaking' \subseteq Overtaking
<1>0. ASSUME NEW r \in Reqs, NEW l \in PCs, Goto(r, l), user'.is_locked,
             l \in {"idle", "find"} \/ pc[r] \notin {"idle", "find"}
      PROVE  Good
  BY <1>0 DEF Overtaking, At, Goto, TypeOK
<1>1. ASSUME NEW r \in Reqs, Receive(r) PROVE Good
  BY <1>0, <1>1 DEF Receive, PCs
<1>2. ASSUME NEW r \in Reqs, FindUser(r) PROVE Good
  BY <1>0, <1>2 DEF FindUser, PCs
<1>3. ASSUME NEW r \in Reqs, IncrementFailedLogins(r) PROVE Good
  <2>1. user'.is_locked
    BY <1>3 DEF IncrementFailedLogins, CountFailure, TypeOK
  <2>2. QED
    BY <1>0, <1>3, <2>1 DEF IncrementFailedLogins, CutShort, PCs
<1>4. ASSUME NEW r \in Reqs, ReadBack(r) PROVE Good
  BY <1>0, <1>4 DEF ReadBack, CutShort, PCs
<1>5. ASSUME NEW r \in Reqs, SetLocked(r) PROVE Good
  <2>1. user'.is_locked
    BY <1>5 DEF SetLocked, TypeOK
  <2>2. QED
    BY <1>0, <1>5, <2>1 DEF SetLocked, CutShort, PCs
<1>6. ASSUME NEW r \in Reqs, ResetFailedLogins(r) PROVE Good
  <2>1. user'.is_locked
    BY <1>6 DEF ResetFailedLogins, TypeOK
  <2>2. QED
    BY <1>0, <1>6, <2>1 DEF ResetFailedLogins, PCs
<1>7. ASSUME Crash PROVE Good
  BY <1>7 DEF Crash, Overtaking, At
<1>8. CASE UNCHANGED vars
  BY <1>8 DEF vars, Overtaking, At
<1>9. QED
  BY <1>1, <1>2, <1>3, <1>4, <1>5, <1>6, <1>7, <1>8 DEF Next, Handle

(* Nothing unlocks an account, not even a right password that was read     *)
(* before the lock, and no request gets past the check of is_locked after  *)
(* it: those that did before only leave.                                   *)
THEOREM OvertakersOnlyLeave ==
  Spec => [][user.is_locked => user'.is_locked /\ Overtaking' \subseteq Overtaking]_vars
<1>1. TypeOK /\ [Next]_vars
        => [user.is_locked => user'.is_locked /\ Overtaking' \subseteq Overtaking]_vars
  BY LockedStep
<1>2. QED
  BY <1>1, TypeCorrect, PTL DEF Spec

(* From the moment the last of them has left a locked account, no failure  *)
(* is counted, no counter reset and no token granted, ever: what is left   *)
(* of LockTakesHold is that they leave.                                    *)
THEOREM LockIsFinal == Spec => [](LockHolds => []LockHolds)
<1>1. TypeOK /\ LockHolds /\ [Next]_vars => LockHolds'
  BY LockedStep DEF LockHolds
<1>2. QED
  BY <1>1, TypeCorrect, PTL DEF Spec
=============================================================================
