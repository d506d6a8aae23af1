------------------------------ MODULE MfaProofs ------------------------------
(***************************************************************************)
(* The invariants of Mfa, for every set of requests and secrets and every  *)
(* number of faults.                                                       *)
(***************************************************************************)
EXTENDS Mfa, FiniteSetTheorems, TLAPS

(* No login is late before MFA is on.                                      *)
NoneLate == ~user.mfa_enabled => late = 0

LateInv == TypeOK /\ NoneLate /\ LateLoginBound
ToldInv == TypeOK /\ StoredIsTold

LEMMA ReqsCount == Cardinality(Reqs) \in Nat
BY FS_CardinalityType, MfaAssumption

LEMMA TokenTypes ==
  Refresh \in Tokens /\ Renewed \in Tokens /\ \A b \in BOOLEAN : Access(b) \in Tokens
BY DEF Refresh, Renewed, Access, Tokens

LEMMA UserType ==
  \A s \in Secrets \cup {NoSecret}, b \in BOOLEAN :
    [mfa_secret |-> s, mfa_enabled |-> b]
      \in [mfa_secret : Secrets \cup {NoSecret}, mfa_enabled : BOOLEAN]
OBVIOUS

(* Every variable keeps its type, and a handler has a secret in hand       *)
(* exactly while it stores, answers or grants on one.                      *)
THEOREM TypeCorrect == Spec => []TypeOK
<1>1. Init => TypeOK
  <2> SUFFICES ASSUME Init PROVE TypeOK
    OBVIOUS
  <2>1. user \in [mfa_secret : Secrets \cup {NoSecret}, mfa_enabled : BOOLEAN]
    BY UserType DEF Init
  <2>2. late \in 0..Cardinality(Reqs) /\ faults \in 0..MaxFaults
    BY ReqsCount, MfaAssumption DEF Init
  <2>3. QED
    BY <2>1, <2>2 DEF Init, TypeOK, PCs, HoldsSecret
<1>2. TypeOK /\ [Next]_vars => TypeOK'
  <2> SUFFICES ASSUME TypeOK, [Next]_vars PROVE TypeOK'
    OBVIOUS
  <2> USE ReqsCount, MfaAssumption DEF TypeOK, PCs, HoldsSecret, Goto, Done, Fault
  <2>1. ASSUME NEW r \in Reqs, LoginFind(r) PROVE TypeOK'
    BY <2>1 DEF LoginFind
  <2>2. ASSUME NEW r \in Reqs, LoginGrant(r) PROVE TypeOK'
    <3>1. tokens' \subseteq Tokens
      BY <2>2, TokenTypes DEF LoginGrant
    <3>2. late' \in 0..Cardinality(Reqs)
      BY <2>2 DEF LoginGrant
    <3>3. QED
      BY <2>2, <3>1, <3>2 DEF LoginGrant
  <2>3. ASSUME NEW r \in Reqs, EnrollGenerate(r) PROVE TypeOK'
    BY <2>3 DEF EnrollGenerate
  <2>4. ASSUME NEW r \in Reqs, EnrollRefused(r) PROVE TypeOK'
    BY <2>4 DEF EnrollRefused
  <2>5. ASSUME NEW r \in Reqs, EnrollStore(r) PROVE TypeOK'
    <3>1. user' \in [mfa_secret : Secrets \cup {NoSecret}, mfa_enabled : BOOLEAN]
      BY <2>5, UserType DEF EnrollStore, Store
    <3>2. pc' \in [Reqs -> PCs] /\ hand' \in [Reqs -> Secrets \cup {NoSecret}]
      BY <2>5 DEF EnrollStore
    <3>3. \A q \in Reqs : pc'[q] \in HoldsSecret <=> hand'[q] # NoSecret
      BY <2>5 DEF EnrollStore
    <3>4. faults' \in 0..MaxFaults
      BY <2>5 DEF EnrollStore
    <3>5. QED
      BY <2>5, <3>1, <3>2, <3>3, <3>4 DEF EnrollStore
  <2>6. ASSUME NEW r \in Reqs, EnrollAnswer(r) PROVE TypeOK'
    BY <2>6 DEF EnrollAnswer
  <2>7. ASSUME NEW r \in Reqs, VerifyFind(r) PROVE TypeOK'
    BY <2>7 DEF VerifyFind
  <2>8. ASSUME NEW r \in Reqs, VerifyGrant(r) PROVE TypeOK'
    <3>1. tokens' \subseteq Tokens
      BY <2>8, TokenTypes DEF VerifyGrant
    <3>2. QED
      BY <2>8, <3>1 DEF VerifyGrant
  <2>9. ASSUME RefreshToken PROVE TypeOK'
    BY <2>9, TokenTypes DEF RefreshToken
  <2>10. ASSUME Expire PROVE TypeOK'
    BY <2>10 DEF Expire
  <2>11. ASSUME Crash PROVE TypeOK'
    BY <2>11 DEF Crash
  <2>12. CASE UNCHANGED vars
    BY <2>12 DEF vars
  <2>13. QED
    BY <2>1, <2>2, <2>3, <2>4, <2>5, <2>6, <2>7, <2>8, <2>9, <2>10, <2>11, <2>12
       DEF Next, Receive, Handle
<1>3. QED
  BY <1>1, <1>2, PTL DEF Spec
-----------------------------------------------------------------------------
(* How many requests are about to grant in full, as one of them moves.     *)
LEMMA FullFinite ==
  /\ IsFiniteSet(At({"full"}))
  /\ Cardinality(At({"full"})) \in Nat
<1>1. At({"full"}) \subseteq Reqs
  BY DEF At
<1>2. IsFiniteSet(At({"full"}))
  BY <1>1, FS_Subset, MfaAssumption
<1>3. QED
  BY <1>2, FS_CardinalityType

LEMMA FullLeaves ==
  ASSUME TypeOK, NEW r \in Reqs, pc[r] = "full", Done(r)
  PROVE  Cardinality(At({"full"})') = Cardinality(At({"full"})) - 1
<1>1. At({"full"})' = At({"full"}) \ {r} /\ r \in At({"full"})
  BY DEF At, Done, Goto, TypeOK
<1>2. QED
  BY <1>1, FullFinite, FS_RemoveElement

LEMMA FullStays ==
  ASSUME TypeOK, NEW r \in Reqs, NEW l, NEW s, Goto(r, l, s),
         l # "full", pc[r] # "full"
  PROVE  At({"full"})' = At({"full"})
BY DEF At, Goto, TypeOK

(* A request that is elsewhere leaves at most the other ones at "full".    *)
LEMMA SlotTaken ==
  ASSUME NEW r \in Reqs, pc[r] # "full"
  PROVE  Cardinality(At({"full"})) < Cardinality(Reqs)
<1>1. At({"full"}) \subseteq Reqs \ {r}
  BY DEF At
<1>2. IsFiniteSet(Reqs \ {r}) /\ Cardinality(Reqs \ {r}) = Cardinality(Reqs) - 1
  BY FS_RemoveElement, MfaAssumption
<1>3. Cardinality(At({"full"})) =< Cardinality(Reqs \ {r})
  BY <1>1, <1>2, FS_Subset
<1>4. QED
  BY <1>2, <1>3, FullFinite, ReqsCount
-----------------------------------------------------------------------------
LEMMA LateInvStep == LateInv /\ TypeOK' /\ [Next]_vars => LateInv'
<1> SUFFICES ASSUME LateInv, TypeOK', [Next]_vars
             PROVE  NoneLate' /\ LateLoginBound'
  BY DEF LateInv
<1> DEFINE Good == NoneLate' /\ LateLoginBound'
           Same == UNCHANGED <<user, late>> /\ At({"full"})' = At({"full"})
<1>0. ASSUME Same PROVE Good
  BY <1>0 DEF LateInv, NoneLate, LateLoginBound
<1>1. ASSUME NEW r \in Reqs, LoginFind(r) PROVE Good
  <2>1. CASE user.mfa_enabled
    <3>1. Goto(r, "partial", NoSecret) /\ pc[r] # "full"
      BY <1>1, <2>1 DEF LoginFind
    <3>2. QED
      BY <1>0, <1>1, <3>1, FullStays DEF LateInv, LoginFind
  <2>2. CASE ~user.mfa_enabled
    BY <1>1, <2>2 DEF LateInv, LoginFind, NoneLate, LateLoginBound
  <2>3. QED
    BY <2>1, <2>2
<1>2. ASSUME NEW r \in Reqs, LoginGrant(r) PROVE Good
  <2>1. CASE pc[r] = "full"
    <3>1. Cardinality(At({"full"})') = Cardinality(At({"full"})) - 1
      BY <1>2, <2>1, FullLeaves DEF LateInv, LoginGrant
    <3>2. late' =< late + 1 /\ (~user.mfa_enabled => late' = late) /\ UNCHANGED user
      BY <1>2, <2>1 DEF LateInv, TypeOK, LoginGrant
    <3>3. late \in Nat /\ late' \in Nat
      BY ReqsCount DEF LateInv, TypeOK
    <3>4. QED
      BY <3>1, <3>2, <3>3, FullFinite, ReqsCount DEF LateInv, NoneLate, LateLoginBound
  <2>2. CASE pc[r] = "partial"
    <3>1. Goto(r, "idle", NoSecret) /\ pc[r] # "full" /\ UNCHANGED <<user, late>>
      BY <1>2, <2>2 DEF LoginGrant, Done
    <3>2. QED
      BY <1>0, <3>1, FullStays DEF LateInv
  <2>3. QED
    BY <1>2, <2>1, <2>2 DEF LoginGrant
<1>3. ASSUME NEW r \in Reqs, EnrollGenerate(r) PROVE Good
  <2>1. PICK s \in Secrets : Goto(r, "store", s)
    BY <1>3 DEF EnrollGenerate
  <2>2. pc[r] # "full" /\ UNCHANGED <<user, late>>
    BY <1>3 DEF EnrollGenerate
  <2>3. QED
    BY <1>0, <2>1, <2>2, FullStays DEF LateInv
<1>4. ASSUME NEW r \in Reqs, EnrollStore(r) PROVE Good
  <2>1. pc[r] # "full" /\ late' = late
    BY <1>4 DEF EnrollStore
  <2>2. At({"full"})' = At({"full"})
    BY <1>4, <2>1, FullStays DEF LateInv, EnrollStore, Done
  <2>3. CASE user.mfa_enabled
    <3>1. user'.mfa_enabled
      BY <1>4, <2>3 DEF EnrollStore, Store
    <3>2. QED
      BY <2>1, <2>2, <2>3, <3>1 DEF LateInv, NoneLate, LateLoginBound
  <2>4. CASE ~user.mfa_enabled
    <3>1. late = 0 /\ Cardinality(At({"full"})) < Cardinality(Reqs)
      BY <2>1, <2>4, SlotTaken DEF LateInv, NoneLate
    <3>2. 0 + Cardinality(At({"full"})) < Cardinality(Reqs)
      BY <3>1, FullFinite
    <3>3. QED
      BY <2>1, <2>2, <3>1, <3>2 DEF NoneLate, LateLoginBound
  <2>5. QED
    BY <2>3, <2>4
<1>5. ASSUME NEW r \in Reqs, EnrollAnswer(r) \/ VerifyGrant(r) PROVE Good
  <2>1. Goto(r, "idle", NoSecret) /\ pc[r] # "full" /\ UNCHANGED <<user, late>>
    BY <1>5 DEF EnrollAnswer, VerifyGrant, Done
  <2>2. QED
    BY <1>0, <2>1, FullStays DEF LateInv
<1>6. ASSUME NEW r \in Reqs, VerifyFind(r) PROVE Good
  <2>1. PICK s \in told : Goto(r, "verified", s)
    BY <1>6 DEF VerifyFind
  <2>2. pc[r] # "full" /\ UNCHANGED <<user, late>>
    BY <1>6 DEF VerifyFind
  <2>3. QED
    BY <1>0, <2>1, <2>2, FullStays DEF LateInv
<1>7. CASE (\E r \in Reqs : EnrollRefused(r)) \/ RefreshToken \/ Expire \/ UNCHANGED vars
  <2>1. UNCHANGED <<user, pc, late>>
    BY <1>7 DEF EnrollRefused, RefreshToken, Expire, vars
  <2>2. QED
    BY <1>0, <2>1 DEF At
<1>8. ASSUME Crash PROVE Good
  <2>1. At({"full"})' = {} /\ UNCHANGED <<user, late>>
    BY <1>8 DEF Crash, At
  <2>2. Cardinality(At({"full"})') = 0
    BY <2>1, FS_EmptySet
  <2>3. late \in Nat
    BY ReqsCount DEF LateInv, TypeOK
  <2>4. QED
    BY <2>1, <2>2, <2>3, FullFinite, ReqsCount DEF LateInv, NoneLate, LateLoginBound
<1>9. QED
  BY <1>1, <1>2, <1>3, <1>4, <1>5, <1>6, <1>7, <1>8 DEF Next, Receive, Handle

(* However many logins, enrolments and faults there are, the logins that   *)
(* the login handler itself gives mfa_done although MFA is on are fewer    *)
(* than the request slots.  Renewed tokens are not among what it counts.   *)
THEOREM LateLoginsBounded == Spec => []LateLoginBound
<1>1. Init => NoneLate /\ LateLoginBound
  BY DEF Init, NoneLate, LateLoginBound
<1>2. QED
  BY <1>1, LateInvStep, TypeCorrect, PTL DEF Spec, LateInv
-----------------------------------------------------------------------------
(* Whatever enrolments overwrite each other, without a fault the secret    *)
(* that is stored is told to a client, or about to be.                     *)
THEOREM StoredSecretIsTold == Spec => []StoredIsTold
<1>1. Init => StoredIsTold
  BY DEF Init, StoredIsTold
<1>2. ToldInv /\ TypeOK' /\ [Next]_vars => StoredIsTold'
  <2> SUFFICES ASSUME ToldInv, TypeOK', [Next]_vars,
                      user'.mfa_secret # NoSecret, faults' = 0
               PROVE  \/ user'.mfa_secret \in told'
                      \/ \E r \in Reqs : pc'[r] = "answer" /\ hand'[r] = user'.mfa_secret
    BY DEF StoredIsTold, At
  <2> DEFINE Known == \/ user'.mfa_secret \in told'
                      \/ \E r \in Reqs : pc'[r] = "answer" /\ hand'[r] = user'.mfa_secret
  <2>0. ASSUME UNCHANGED <<user, faults>>, told \subseteq told',
               \A r \in Reqs : pc[r] = "answer" =>
                 \/ hand[r] \in told'
                 \/ pc'[r] = "answer" /\ hand'[r] = hand[r]
        PROVE  Known
    BY <2>0 DEF ToldInv, StoredIsTold, At
  <2> USE DEF ToldInv, TypeOK, Goto, Done
  <2>1. ASSUME NEW r \in Reqs, LoginFind(r) PROVE Known
    BY <2>0, <2>1 DEF LoginFind
  <2>2. ASSUME NEW r \in Reqs, LoginGrant(r) PROVE Known
    BY <2>0, <2>2 DEF LoginGrant
  <2>3. ASSUME NEW r \in Reqs, EnrollGenerate(r) PROVE Known
    BY <2>0, <2>3 DEF EnrollGenerate
  <2>4. ASSUME NEW r \in Reqs, EnrollStore(r) PROVE Known
    <3>1. Store(r) /\ Goto(r, "answer", hand[r])
      BY <2>4, MfaAssumption DEF EnrollStore, Fault
    <3>2. user'.mfa_secret = hand[r] /\ pc'[r] = "answer" /\ hand'[r] = hand[r]
      BY <3>1 DEF Store
    <3>3. QED
      BY <3>2
  <2>5. ASSUME NEW r \in Reqs, EnrollAnswer(r) PROVE Known
    <3>1. told' = told \cup {hand[r]} /\ UNCHANGED <<user, faults>>
      BY <2>5, MfaAssumption DEF EnrollAnswer, Fault
    <3>2. QED
      BY <2>0, <2>5, <3>1 DEF EnrollAnswer
  <2>6. ASSUME NEW r \in Reqs, VerifyFind(r) PROVE Known
    BY <2>0, <2>6 DEF VerifyFind
  <2>7. ASSUME NEW r \in Reqs, VerifyGrant(r) PROVE Known
    BY <2>0, <2>7 DEF VerifyGrant
  <2>8. CASE (\E r \in Reqs : EnrollRefused(r)) \/ RefreshToken \/ Expire \/ UNCHANGED vars
    BY <2>0, <2>8 DEF EnrollRefused, RefreshToken, Expire, vars
  <2>9. ASSUME Crash PROVE Known
    BY <2>9, MfaAssumption DEF Crash, Fault
  <2>10. QED
    BY <2>1, <2>2, <2>3, <2>4, <2>5, <2>6, <2>7, <2>8, <2>9 DEF Next, Receive, Handle
<1>3. QED
  BY <1>1, <1>2, TypeCorrect, PTL DEF Spec, ToldInv
-----------------------------------------------------------------------------
(* Enrolments in progress: each has a secret of its own, which nobody was  *)
(* told.                                                                   *)
Enrolling == At({"store", "answer"})
OwnSecrets ==
  /\ told \subseteq used
  /\ \A r \in Enrolling : hand[r] \in used \ told
  /\ \A q, r \in Enrolling : hand[q] = hand[r] => q = r

LEMMA OwnSecretsStep == TypeOK /\ OwnSecrets /\ [Next]_vars => OwnSecrets'
<1> SUFFICES ASSUME TypeOK, OwnSecrets, [Next]_vars PROVE OwnSecrets'
  OBVIOUS
<1>0. ASSUME UNCHANGED <<told, used>>,
             \A r \in Enrolling' : r \in Enrolling /\ hand'[r] = hand[r]
      PROVE  OwnSecrets'
  BY <1>0 DEF OwnSecrets
<1> USE DEF TypeOK, Enrolling, At, Goto, Done
<1>1. ASSUME NEW r \in Reqs, LoginFind(r) PROVE OwnSecrets'
  BY <1>0, <1>1 DEF LoginFind
<1>2. ASSUME NEW r \in Reqs, LoginGrant(r) PROVE OwnSecrets'
  BY <1>0, <1>2 DEF LoginGrant
<1>3. ASSUME NEW r \in Reqs, EnrollGenerate(r) PROVE OwnSecrets'
  <2>1. PICK s \in Secrets \ used : Goto(r, "store", s) /\ used' = used \cup {s}
    BY <1>3 DEF EnrollGenerate
  <2>2. told' = told /\ hand'[r] = s
    BY <1>3, <2>1 DEF EnrollGenerate
  <2>3. \A q \in Reqs \ {r} : pc'[q] = pc[q] /\ hand'[q] = hand[q]
    BY <2>1
  <2>4. QED
    BY <2>1, <2>2, <2>3 DEF OwnSecrets
<1>4. ASSUME NEW r \in Reqs, EnrollStore(r) PROVE OwnSecrets'
  BY <1>0, <1>4 DEF EnrollStore
<1>5. ASSUME NEW r \in Reqs, EnrollAnswer(r) PROVE OwnSecrets'
  <2>1. r \in Enrolling /\ used' = used /\ told' \in {told, told \cup {hand[r]}}
    BY <1>5 DEF EnrollAnswer
  <2>2. \A q \in Enrolling' : q \in Enrolling /\ q # r /\ hand'[q] = hand[q]
    BY <1>5 DEF EnrollAnswer
  <2>3. QED
    BY <2>1, <2>2 DEF OwnSecrets
<1>6. ASSUME NEW r \in Reqs, VerifyFind(r) PROVE OwnSecrets'
  BY <1>0, <1>6 DEF VerifyFind
<1>7. ASSUME NEW r \in Reqs, VerifyGrant(r) PROVE OwnSecrets'
  BY <1>0, <1>7 DEF VerifyGrant
<1>8. CASE (\E r \in Reqs : EnrollRefused(r)) \/ RefreshToken \/ Expire \/ UNCHANGED vars
  BY <1>0, <1>8 DEF EnrollRefused, RefreshToken, Expire, vars
<1>9. ASSUME Crash PROVE OwnSecrets'
  BY <1>0, <1>9 DEF Crash
<1>10. QED
  BY <1>1, <1>2, <1>3, <1>4, <1>5, <1>6, <1>7, <1>8, <1>9 DEF Next, Receive, Handle

LEMMA OwnSecretsInvariant == Spec => []OwnSecrets
<1>1. Init => OwnSecrets
  BY DEF Init, OwnSecrets, Enrolling, At
<1>2. QED
  BY <1>1, OwnSecretsStep, TypeCorrect, PTL DEF Spec
-----------------------------------------------------------------------------
(* A secret a client was told and another one has taken the place of, and  *)
(* the verifications that still go by it.                                  *)
Replaced(s) == s \in told /\ user.mfa_secret # s
Holders(s) == {r \in At({"verified"}) : hand[r] = s}
Retired(s) == Replaced(s) /\ Holders(s) = {}

LEMMA ReplacedStep ==
  ASSUME TypeOK, OwnSecrets, [Next]_vars, NEW s \in Secrets, Replaced(s)
  PROVE  Replaced(s)' /\ Holders(s)' \subseteq Holders(s)
<1> DEFINE Good == Replaced(s)' /\ Holders(s)' \subseteq Holders(s)
<1>0. ASSUME told \subseteq told', user'.mfa_secret # s,
             \A r \in At({"verified"})' : hand'[r] = s => pc[r] = "verified" /\ hand[r] = s
      PROVE  Good
  BY <1>0 DEF Replaced, Holders, At
<1> USE DEF TypeOK, At, Goto, Done
<1>1. ASSUME NEW r \in Reqs, LoginFind(r) PROVE Good
  BY <1>0, <1>1 DEF LoginFind, Replaced
<1>2. ASSUME NEW r \in Reqs, LoginGrant(r) PROVE Good
  BY <1>0, <1>2 DEF LoginGrant, Replaced
<1>3. ASSUME NEW r \in Reqs, EnrollGenerate(r) PROVE Good
  BY <1>0, <1>3 DEF EnrollGenerate, Replaced
<1>4. ASSUME NEW r \in Reqs, EnrollStore(r) PROVE Good
  <2>1. hand[r] # s
    BY <1>4 DEF EnrollStore, OwnSecrets, Enrolling, Replaced
  <2>2. user'.mfa_secret # s
    BY <1>4, <2>1 DEF EnrollStore, Store, Replaced
  <2>3. QED
    BY <1>0, <1>4, <2>2 DEF EnrollStore
<1>5. ASSUME NEW r \in Reqs, EnrollAnswer(r) PROVE Good
  BY <1>0, <1>5 DEF EnrollAnswer, Replaced
<1>6. ASSUME NEW r \in Reqs, VerifyFind(r) PROVE Good
  BY <1>0, <1>6 DEF VerifyFind, Replaced
<1>7. ASSUME NEW r \in Reqs, VerifyGrant(r) PROVE Good
  BY <1>0, <1>7 DEF VerifyGrant, Replaced
<1>8. CASE (\E r \in Reqs : EnrollRefused(r)) \/ RefreshToken \/ Expire \/ UNCHANGED vars
  BY <1>0, <1>8 DEF EnrollRefused, RefreshToken, Expire, vars, Replaced
<1>9. ASSUME Crash PROVE Good
  BY <1>0, <1>9 DEF Crash, Replaced
<1>10. QED
  BY <1>1, <1>2, <1>3, <1>4, <1>5, <1>6, <1>7, <1>8, <1>9 DEF Next, Receive, Handle

(* A replaced secret is never stored again, however enrolments overwrite   *)
(* each other, and no verification that starts later goes by it: those     *)
(* that read it before only leave.                                         *)
THEOREM HoldersOnlyLeave ==
  Spec => [][\A s \in Secrets : Replaced(s) =>
               Replaced(s)' /\ Holders(s)' \subseteq Holders(s)]_vars
<1>1. TypeOK /\ OwnSecrets /\ [Next]_vars
        => [\A s \in Secrets : Replaced(s) =>
              Replaced(s)' /\ Holders(s)' \subseteq Holders(s)]_vars
  BY ReplacedStep
<1>2. QED
  BY <1>1, OwnSecretsInvariant, TypeCorrect, PTL DEF Spec

(* Once the last of them has left, no code of the secret is accepted again *)
(* in any later state: what is left of ReplacedIsRetired is that they      *)
(* leave.                                                                  *)
THEOREM RetirementIsFinal ==
  ASSUME NEW s \in Secrets
  PROVE  Spec => [](Retired(s) => []Retired(s))
<1>1. TypeOK /\ OwnSecrets /\ Retired(s) /\ [Next]_vars => Retired(s)'
  BY ReplacedStep DEF Retired
<1>2. QED
  BY <1>1, OwnSecretsInvariant, TypeCorrect, PTL DEF Spec
=============================================================================
