-------------------------------- MODULE Login --------------------------------
(***************************************************************************)
(* The login handler of the auth service and the one user document its     *)
(* requests share (auth-service/internal/handlers/login.go).               *)
(*                                                                         *)
(* ServeHTTP works on a snapshot: it reads the document once, decides on   *)
(* the snapshot, and then writes with separate updates.  Every driver call *)
(* is an action of its own, so the requests of one account interleave      *)
(* between any two of them.  A driver call may fail (the 5 s context of    *)
(* the request, a dropped client, the database), and a failed write may    *)
(* have taken effect or not.  The process may crash between two calls.     *)
(***************************************************************************)
EXTENDS Integers, FiniteSets

CONSTANTS Reqs,       (* handler slots: the requests in flight at one time    *)
          MaxFailed,  (* failures that lock the account: 5 in login.go        *)
          MaxLost     (* bound: how many lock decisions faults may cut short  *)

ASSUME LoginAssumption ==
  /\ IsFiniteSet(Reqs)
  /\ MaxFailed \in Nat \ {0}
  /\ MaxLost \in Nat

VARIABLES user,   (* the document of the account                              *)
          pc,     (* where the handler of each request stands                 *)
          lost,   (* ghost: counted failures whose lock decision was cut short *)
          wrong   (* ghost: failures counted so far, saturating at MaxFailed  *)

vars == <<user, pc, lost, wrong>>

PCs == {"idle", "find", "inc", "readback", "lock", "reset"}

(* The requests that stand at one of the points in S.                      *)
At(S) == {r \in Reqs : pc[r] \in S}

(* Requests that counted a failure and have not decided on the lock yet.   *)
Deciding == At({"readback", "lock"})

TypeOK ==
  /\ user \in [failed_logins : Nat, is_locked : BOOLEAN]
  /\ pc \in [Reqs -> PCs]
  /\ lost \in Nat
  /\ wrong \in 0..MaxFailed

(* seed.go creates the account unlocked, with no failure.                  *)
Init ==
  /\ user = [failed_logins |-> 0, is_locked |-> FALSE]
  /\ pc = [r \in Reqs |-> "idle"]
  /\ lost = 0
  /\ wrong = 0

Goto(r, l) == pc' = [pc EXCEPT ![r] = l]

-----------------------------------------------------------------------------
(* A request whose body has both fields.  The others are answered 400      *)
(* before anything is read or written.                                     *)
Receive(r) ==
  /\ pc[r] = "idle"
  /\ Goto(r, "find")
  /\ UNCHANGED <<user, lost, wrong>>

FindUser_IgnoresLock(r) ==
  /\ pc[r] = "find"
  /\ \E l \in {"idle", "inc", "reset"} : Goto(r, l)
  /\ UNCHANGED <<user, lost, wrong>>

FindUser_LockAfterPassword(r) ==
  /\ pc[r] = "find"
  /\ \E l \in IF user.is_locked THEN {"idle", "reset"} ELSE {"idle", "inc", "reset"} :
       Goto(r, l)
  /\ UNCHANGED <<user, lost, wrong>>

(* FindOne, then the checks on the snapshot: no such user or an error ends *)
(* the request, a locked account is refused, bcrypt decides the rest.      *)
FindUser(r) ==
  /\ pc[r] = "find"
  /\ \/ Goto(r, "idle")
     \/ user.is_locked /\ Goto(r, "idle")
     \/ ~user.is_locked /\ \E l \in {"inc", "reset"} : Goto(r, l)
  /\ UNCHANGED <<user, lost, wrong>>

(* A fault ends request r after its failure was counted: the error of the  *)
(* driver call is ignored, so nobody decides whether to lock.              *)
CutShort(r) ==
  /\ lost < MaxLost
  /\ lost' = lost + 1
  /\ Goto(r, "idle")

CountFailure ==
  /\ user' = [user EXCEPT !.failed_logins = @ + 1]
  /\ wrong' = IF wrong < MaxFailed THEN wrong + 1 ELSE wrong

(* UpdateOne $inc.  Without a result (an error) the read-back is skipped,  *)
(* whether or not the server applied the increment.                        *)
IncrementFailedLogins(r) ==
  /\ pc[r] = "inc"
  /\ \/ CountFailure /\ Goto(r, "readback") /\ UNCHANGED lost
     \/ CountFailure /\ CutShort(r)
     \/ Goto(r, "idle") /\ UNCHANGED <<user, wrong, lost>>

ReadBack_OffByOne(r) ==
  /\ pc[r] = "readback"
  /\ Goto(r, IF user.failed_logins >= MaxFailed - 1 THEN "lock" ELSE "idle")
  /\ UNCHANGED <<user, wrong, lost>>

ReadBack_StrictlyMore(r) ==
  /\ pc[r] = "readback"
  /\ \/ Goto(r, IF user.failed_logins > MaxFailed THEN "lock" ELSE "idle")
        /\ UNCHANGED lost
     \/ CutShort(r)
  /\ UNCHANGED <<user, wrong>>

(* FindOne after the increment; on an error the zero User has no failures. *)
ReadBack(r) ==
  /\ pc[r] = "readback"
  /\ \/ user.failed_logins >= MaxFailed /\ Goto(r, "lock") /\ UNCHANGED lost
     \/ user.failed_logins < MaxFailed /\ Goto(r, "idle") /\ UNCHANGED lost
     \/ CutShort(r)
  /\ UNCHANGED <<user, wrong>>

SetLocked(r) ==
  /\ pc[r] = "lock"
  /\ \/ user' = [user EXCEPT !.is_locked = TRUE] /\ Goto(r, "idle") /\ UNCHANGED lost
     \/ CutShort(r) /\ UNCHANGED user
  /\ UNCHANGED wrong

ResetFailedLogins_Decrements(r) ==
  /\ pc[r] = "reset"
  /\ user' = [user EXCEPT !.failed_logins = @ - 1]
  /\ Goto(r, "idle")
  /\ UNCHANGED <<lost, wrong>>

(* The right password: clear the counter (the error of this write is       *)
(* ignored), issue the tokens from the snapshot, answer 200.               *)
ResetFailedLogins(r) ==
  /\ pc[r] = "reset"
  /\ \/ user' = [user EXCEPT !.failed_logins = 0]
     \/ UNCHANGED user
  /\ Goto(r, "idle")
  /\ UNCHANGED <<lost, wrong>>

(* The process stops and every handler in flight is gone.                  *)
Crash ==
  /\ At(PCs \ {"idle"}) # {}
  /\ lost + Cardinality(Deciding) =< MaxLost
  /\ lost' = lost + Cardinality(Deciding)
  /\ pc' = [r \in Reqs |-> "idle"]
  /\ UNCHANGED <<user, wrong>>

Handle(r) ==
  \/ FindUser(r)
  \/ IncrementFailedLogins(r)
  \/ ReadBack(r)
  \/ SetLocked(r)
  \/ ResetFailedLogins(r)

Next ==
  \/ \E r \in Reqs : Receive(r) \/ Handle(r)
  \/ Crash

(* A handler never waits for another one and its context ends after 5 s,   *)
(* so every handler that was started takes its next step.                  *)
Fairness == \A r \in Reqs : WF_vars(Handle(r))

Spec == Init /\ [][Next]_vars /\ Fairness
-----------------------------------------------------------------------------
(* The counter overshoots MaxFailed by the requests in flight at most:     *)
(* a request that read the account before it was locked still counts its   *)
(* failure, and no later request does.  Each lock decision a fault cuts    *)
(* short allows one more.                                                  *)
LockBound == user.failed_logins =< MaxFailed - 1 + Cardinality(Reqs) + lost

(* An account is locked, or about to be, only when MaxFailed wrong         *)
(* passwords were counted for it, however the requests interleave.         *)
LockJustified ==
  user.is_locked \/ At({"lock"}) # {} => wrong >= MaxFailed

(* Some request still has to decide on the lock whenever an account has    *)
(* reached MaxFailed failures unlocked: without a fault the decision is    *)
(* never forgotten, even when the reads and writes of requests cross.      *)
LockPending ==
  user.failed_logins >= MaxFailed /\ ~user.is_locked /\ lost = 0 => Deciding # {}

(* An account that reached MaxFailed failures is locked in the end, unless *)
(* a fault cut the decision short or a success cleared the counter.        *)
AutoLock ==
  user.failed_logins >= MaxFailed
    ~> user.is_locked \/ lost > 0 \/ user.failed_logins < MaxFailed

(* Once an account is locked, the requests that read it before finish, and *)
(* from then on none counts a failure, resets the counter or grants.       *)
LockTakesHold ==
  user.is_locked ~> [](At(PCs \ {"idle", "find"}) = {})
=============================================================================
