--------------------------------- MODULE Mfa ---------------------------------
(***************************************************************************)
(* MFA enrolment and verification, and the tokens of one account           *)
(* (auth-service/internal/handlers/{mfa,token,login}.go,                   *)
(* internal/middleware/jwt.go).                                            *)
(*                                                                         *)
(* As in Login, a handler reads the user document once, decides on the     *)
(* snapshot and then writes or grants: logins, enrolments and verifications *)
(* of the account interleave in between.  Whether the password is right is *)
(* Login's matter; a login here is one that passes it.                     *)
(*                                                                         *)
(* A token is what the handlers tell apart: its kind, and mfa_done.  When  *)
(* it expires is left open: any token may expire at any time.              *)
(***************************************************************************)
EXTENDS Integers, FiniteSets

CONSTANTS Reqs,       (* handler slots: the requests in flight at one time    *)
          Secrets,    (* TOTP secrets; each is generated once                 *)
          NoSecret,   (* the empty mfa_secret                                 *)
          MaxFaults   (* bound: failed driver calls, lost answers and crashes *)

ASSUME MfaAssumption ==
  /\ IsFiniteSet(Reqs) /\ NoSecret \notin Secrets /\ MaxFaults \in Nat

VARIABLES user,     (* mfa_secret and mfa_enabled of the document             *)
          pc,       (* where the handler of each request stands               *)
          hand,     (* the secret a handler generated, or read and matched    *)
          tokens,   (* the tokens that are valid now                          *)
          told,     (* secrets a client was given for its authenticator       *)
          used,     (* secrets generated so far                               *)
          faults,   (* driver calls, answers and processes lost so far        *)
          late,     (* ghost: logins granted mfa_done with MFA on, saturating *)
          refused   (* an enrolment with an access token was answered 500     *)

vars == <<user, pc, hand, tokens, told, used, faults, late, refused>>

PCs == {"idle", "full", "partial", "store", "answer", "verified"}
HoldsSecret == {"store", "answer", "verified"}

(* "access" carries user id, name and role; "renewed" is an access token   *)
(* with the user id only; "refresh" carries none of them.                  *)
Tokens == [kind : {"access", "renewed", "refresh"}, mfa_done : BOOLEAN]
Refresh == [kind |-> "refresh", mfa_done |-> FALSE]
Renewed == [kind |-> "renewed", mfa_done |-> TRUE]
Access(done) == [kind |-> "access", mfa_done |-> done]

At(S) == {r \in Reqs : pc[r] \in S}

TypeOK ==
  /\ user \in [mfa_secret : Secrets \cup {NoSecret}, mfa_enabled : BOOLEAN]
  /\ pc \in [Reqs -> PCs]
  /\ hand \in [Reqs -> Secrets \cup {NoSecret}]
  /\ \A r \in Reqs : pc[r] \in HoldsSecret <=> hand[r] # NoSecret
  /\ tokens \subseteq Tokens
  /\ told \subseteq Secrets /\ used \subseteq Secrets
  /\ faults \in 0..MaxFaults
  /\ late \in 0..Cardinality(Reqs)
  /\ refused \in BOOLEAN

(* seed.go creates the account without MFA.                                *)
Init ==
  /\ user = [mfa_secret |-> NoSecret, mfa_enabled |-> FALSE]
  /\ pc = [r \in Reqs |-> "idle"] /\ hand = [r \in Reqs |-> NoSecret]
  /\ tokens = {} /\ told = {} /\ used = {}
  /\ faults = 0 /\ late = 0 /\ refused = FALSE

Goto(r, l, s) == pc' = [pc EXCEPT ![r] = l] /\ hand' = [hand EXCEPT ![r] = s]
Done(r) == Goto(r, "idle", NoSecret)
Fault == faults < MaxFaults /\ faults' = faults + 1
-----------------------------------------------------------------------------
LoginFind_IgnoresMfa(r) ==
  /\ pc[r] = "idle"
  /\ Goto(r, "full", NoSecret)
  /\ UNCHANGED <<user, tokens, told, used, faults, late, refused>>

(* A login with the right password reads the document: from here on it     *)
(* goes by the mfa_enabled it read.                                        *)
LoginFind(r) ==
  /\ pc[r] = "idle"
  /\ Goto(r, IF user.mfa_enabled THEN "partial" ELSE "full", NoSecret)
  /\ UNCHANGED <<user, tokens, told, used, faults, late, refused>>

(* The counter is reset and both tokens are issued.                        *)
LoginGrant(r) ==
  /\ pc[r] \in {"full", "partial"}
  /\ tokens' = tokens \cup {Access(pc[r] = "full"), Refresh}
  /\ late' = IF pc[r] = "full" /\ user.mfa_enabled /\ late < Cardinality(Reqs)
             THEN late + 1 ELSE late
  /\ Done(r)
  /\ UNCHANGED <<user, told, used, faults, refused>>

(* JWTAuth accepts the bearer's token and a new secret is generated.       *)
EnrollGenerate(r) ==
  /\ pc[r] = "idle"
  /\ \E t \in tokens : t.kind = "access"
  /\ \E s \in Secrets \ used : Goto(r, "store", s) /\ used' = used \cup {s}
  /\ UNCHANGED <<user, tokens, told, faults, late, refused>>

(* A renewed token has no username, and totp.Generate needs an account     *)
(* name: the enrolment is answered 500 before anything is stored.          *)
EnrollRefused(r) ==
  /\ pc[r] = "idle"
  /\ Renewed \in tokens
  /\ refused' = TRUE
  /\ UNCHANGED <<user, pc, hand, tokens, told, used, faults, late>>

Store(r) == user' = [mfa_secret |-> hand[r], mfa_enabled |-> TRUE]

(* UpdateOne.  After an error the secret is not answered, whether or not   *)
(* it was stored.                                                          *)
EnrollStore(r) ==
  /\ pc[r] = "store"
  /\ \/ Store(r) /\ Goto(r, "answer", hand[r]) /\ UNCHANGED faults
     \/ Store(r) /\ Done(r) /\ Fault
     \/ UNCHANGED user /\ Done(r) /\ Fault
  /\ UNCHANGED <<tokens, told, used, late, refused>>

EnrollAnswer_FirstOnly(r) ==
  /\ pc[r] = "answer"
  /\ told' = IF told = {} THEN {hand[r]} ELSE told
  /\ Done(r)
  /\ UNCHANGED <<user, tokens, used, faults, late, refused>>

(* The secret is sent to the client; the answer may be lost.               *)
EnrollAnswer(r) ==
  /\ pc[r] = "answer"
  /\ \/ told' = told \cup {hand[r]} /\ UNCHANGED faults
     \/ Fault /\ UNCHANGED told
  /\ Done(r)
  /\ UNCHANGED <<user, tokens, used, late, refused>>

VerifyFind_AnySecret(r) ==
  /\ pc[r] = "idle"
  /\ \E s \in told : Goto(r, "verified", s)
  /\ UNCHANGED <<user, tokens, told, used, faults, late, refused>>

VerifyFind_NotEnrolled(r) ==
  /\ pc[r] = "idle"
  /\ \E s \in told \cup {NoSecret} : s = user.mfa_secret /\ Goto(r, "verified", s)
  /\ UNCHANGED <<user, tokens, told, used, faults, late, refused>>

(* A verification reads the document, and the code the client computed     *)
(* from a secret it was told matches the one that was read.  All others    *)
(* are answered 400, 401 or 404 and change nothing.                        *)
VerifyFind(r) ==
  /\ pc[r] = "idle"
  /\ user.mfa_secret # NoSecret
  /\ \E s \in told : s = user.mfa_secret /\ Goto(r, "verified", s)
  /\ UNCHANGED <<user, tokens, told, used, faults, late, refused>>

VerifyGrant(r) ==
  /\ pc[r] = "verified"
  /\ tokens' = tokens \cup {Access(TRUE)}
  /\ Done(r)
  /\ UNCHANGED <<user, told, used, faults, late, refused>>

(* Any token that is signed and has not expired is renewed; the account is *)
(* not looked at, so the new token has the user id and nothing else of it, *)
(* and mfa_done whatever the old one had.                                  *)
RefreshToken ==
  /\ tokens # {}
  /\ tokens' = tokens \cup {Renewed}
  /\ UNCHANGED <<user, pc, hand, told, used, faults, late, refused>>

Expire ==
  /\ \E t \in tokens : tokens' = tokens \ {t}
  /\ UNCHANGED <<user, pc, hand, told, used, faults, late, refused>>

(* The process stops and every handler in flight is gone.                  *)
Crash ==
  /\ At(PCs \ {"idle"}) # {}
  /\ Fault
  /\ pc' = [r \in Reqs |-> "idle"] /\ hand' = [r \in Reqs |-> NoSecret]
  /\ UNCHANGED <<user, tokens, told, used, late, refused>>

Handle(r) == LoginGrant(r) \/ EnrollStore(r) \/ EnrollAnswer(r) \/ VerifyGrant(r)
Receive(r) == LoginFind(r) \/ EnrollGenerate(r) \/ EnrollRefused(r) \/ VerifyFind(r)

Next ==
  \/ \E r \in Reqs : Receive(r) \/ Handle(r)
  \/ RefreshToken \/ Expire \/ Crash

(* A handler never waits for another one and its context ends after 5 s.   *)
Fairness == \A r \in Reqs : WF_vars(Handle(r))

Spec == Init /\ [][Next]_vars /\ Fairness
-----------------------------------------------------------------------------
(* The login handler computes mfaDone from its snapshot (login.go:110).    *)
(* Once MFA is on, it sets mfa_done for logins that read the account       *)
(* before and for no others, in all the time to come: one fewer than there *)
(* are slots, for the enrolment took one of them.  This bounds the race in *)
(* the login handler and not the tokens that the password alone leads to:  *)
(* a partial login has a refresh token as well, and RefreshToken sets      *)
(* mfa_done in whatever it renews (token.go:49), without limit.            *)
LateLoginBound == user.mfa_enabled => late + Cardinality(At({"full"})) < Cardinality(Reqs)

(* However enrolments cross, the secret that is stored in the end is one   *)
(* that a client was told, unless a fault lost an answer: nobody is locked *)
(* out by two enrolments that overwrite each other.                        *)
StoredIsTold ==
  user.mfa_secret # NoSecret /\ faults = 0 =>
    user.mfa_secret \in told \cup {hand[r] : r \in At({"answer"})}

(* A replaced secret stops working: after the verifications that read it   *)
(* have finished, no code of it is ever accepted again.                    *)
ReplacedIsRetired ==
  \A s \in Secrets :
    s \in told /\ user.mfa_secret # s
      ~> [](\A r \in At({"verified"}) : hand[r] # s)
=============================================================================
