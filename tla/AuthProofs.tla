----------------------------- MODULE AuthProofs -----------------------------
(***************************************************************************)
(* Proofs about Auth: type correctness, that revoked tokens stay out, and  *)
(* the bounds of the limiter, for any number of requests, users and        *)
(* addresses, any lifetimes, limit and window.                             *)
(***************************************************************************)
EXTENDS Auth, Sums, TLAPS

States == LoginStates \cup BearerStates

\* The requests' part of TypeOK.
ReqOK == DOMAIN req = Requests /\ \A r \in Requests : req[r] # None => req[r] \in States

\* The stored part of TypeOK.
StoreOK ==
  /\ issued \subseteq Tokens
  /\ revoked \in [Tokens -> Nat]
  /\ redis \in BOOLEAN
  /\ gone \subseteq Tokens

-----------------------------------------------------------------------------
(* Types.                                                                  *)

\* One request moves to a well-formed state, or ends.
LEMMA ReqMoves ==
  ASSUME ReqOK, NEW r \in Requests, NEW x,
         x = None \/ x \in States,
         req' = [req EXCEPT ![r] = x]
  PROVE  ReqOK'
<1>1. DOMAIN req' = Requests  BY DEF ReqOK
<1>2. ASSUME NEW q \in Requests, req'[q] # None
      PROVE  req'[q] \in States
  <2>1. CASE q = r  BY <1>2, <2>1 DEF ReqOK
  <2>2. CASE q # r  BY <1>2, <2>2 DEF ReqOK
  <2> QED BY <2>1, <2>2
<1> QED BY <1>1, <1>2 DEF ReqOK, States, LoginStates, BearerStates

\* Pruning keeps the type of the limiter's map and drops only entries.
LEMMA PruneType ==
  ASSUME LimiterTypeOK
  PROVE  /\ DOMAIN PruneExpired = LimiterKeys
         /\ \A k \in LimiterKeys : PruneExpired[k] # None =>
              PruneExpired[k] \in [failures : Nat \ {0}, firstFailure : 0..now]
BY DEF LimiterTypeOK, PruneExpired

\* Each operation of the limiter keeps its types.
LEMMA LimiterOps ==
  ASSUME LimiterTypeOK, now \in Nat, now' = now, NEW k \in LimiterKeys,
         Allow(k) \/ Refuse(k) \/ RetryAfter(k) \/ RecordFailure(k) \/ RecordSuccess(k)
  PROVE  LimiterTypeOK'
<1>1. CASE Allow(k) \/ Refuse(k) \/ RetryAfter(k)
  BY <1>1, PruneType DEF Allow, Refuse, RetryAfter, LimiterTypeOK
<1>2. CASE RecordFailure(k)
  <2>1. DOMAIN attempts' = LimiterKeys
    BY <1>2, PruneType DEF RecordFailure
  <2>2. ASSUME NEW j \in LimiterKeys, attempts'[j] # None
        PROVE  attempts'[j] \in [failures : Nat \ {0}, firstFailure : 0..now]
    <3>1. CASE j # k
      <4>1. attempts'[j] = PruneExpired[j]  BY <1>2, <3>1, PruneType DEF RecordFailure
      <4> QED BY <4>1, <2>2, PruneType
    <3>2. CASE j = k /\ PruneExpired[k] = None
      <4>1. attempts'[j] = [failures |-> 1, firstFailure |-> now]
        BY <1>2, <3>2, PruneType DEF RecordFailure
      <4> QED BY <4>1
    <3>3. CASE j = k /\ PruneExpired[k] # None
      <4>1. attempts'[j] = [failures |-> PruneExpired[k].failures + 1,
                           firstFailure |-> PruneExpired[k].firstFailure]
        BY <1>2, <3>3, PruneType DEF RecordFailure
      <4> QED BY <4>1, <3>3, PruneType
    <3> QED BY <3>1, <3>2, <3>3
  <2>3. recent' \in [LimiterKeys -> [0..(Window - 1) -> Nat]]
    <3>1. 0 \in 0..(Window - 1)  BY LimiterAssumption
    <3>2. recent[k] \in [0..(Window - 1) -> Nat]  BY DEF LimiterTypeOK
    <3>3. recent[k][0] + 1 \in Nat
      <4>1. recent[k][0] \in Nat  BY <3>1, <3>2, Zenon
      <4> QED BY <4>1
    <3>4. [recent[k] EXCEPT ![0] = recent[k][0] + 1] \in [0..(Window - 1) -> Nat]
      BY <3>2, <3>3
    <3> QED BY <1>2, <3>4 DEF RecordFailure, LimiterTypeOK
  <2> QED BY <2>1, <2>2, <2>3 DEF LimiterTypeOK
<1>3. CASE RecordSuccess(k)
  <2>1. NoFailures \in [0..(Window - 1) -> Nat]  BY DEF NoFailures
  <2>2. recent' \in [LimiterKeys -> [0..(Window - 1) -> Nat]]
    BY <2>1, <1>3 DEF RecordSuccess, LimiterTypeOK
  <2>3. DOMAIN attempts' = LimiterKeys /\ \A j \in LimiterKeys :
          attempts'[j] # None => j # k /\ attempts'[j] = attempts[j]
    BY <1>3 DEF RecordSuccess, LimiterTypeOK
  <2> QED BY <2>2, <2>3 DEF LimiterTypeOK
<1> QED BY <1>1, <1>2, <1>3

\* The clock keeps the limiter's types.
LEMMA LimiterTickType ==
  ASSUME LimiterTypeOK, now \in Nat, LimiterTick
  PROVE  LimiterTypeOK'
<1>1. 0..now \subseteq 0..now'  BY DEF LimiterTick
<1>2. recent' \in [LimiterKeys -> [0..(Window - 1) -> Nat]]
  <2>1. ASSUME NEW k \in LimiterKeys, NEW a \in 0..(Window - 1)
        PROVE  (IF a = 0 THEN 0 ELSE recent[k][a - 1]) \in Nat
    <3>1. a # 0 => a - 1 \in 0..(Window - 1)  BY LimiterAssumption
    <3> QED BY <3>1 DEF LimiterTypeOK
  <2> QED BY <2>1 DEF LimiterTick
<1> QED BY <1>1, <1>2 DEF LimiterTick, LimiterTypeOK

\* A fresh limiter is well typed.
LEMMA LimiterFresh ==
  ASSUME now' \in Nat, LimiterRestart
  PROVE  LimiterTypeOK'
BY DEF LimiterRestart, NoFailures, LimiterTypeOK

-----------------------------------------------------------------------------

\* Types and what a step does to them, action by action.
LEMMA TypeInit == Init => TypeOK
<1> SUFFICES ASSUME Init PROVE TypeOK  OBVIOUS
<1>1. LimiterTypeOK
  BY LimiterAssumption DEF Init, LimiterInit, NoFailures, LimiterTypeOK
<1>2. redis \in BOOLEAN  BY AuthAssumption, Zenon DEF Init, PingAnswers
<1> QED BY <1>1, <1>2, AuthAssumption DEF Init, TypeOK

\* Every step of Auth keeps the types of its variables.
LEMMA TypeStep == TypeOK /\ [Next]_vars => TypeOK'
<1> SUFFICES ASSUME TypeOK, [Next]_vars PROVE TypeOK'  OBVIOUS
<1> USE AuthAssumption
<1>1. now \in 0..MaxTime /\ LimiterTypeOK /\ ReqOK /\ StoreOK
  BY DEF TypeOK, ReqOK, StoreOK, States
<1>2. now' \in 0..MaxTime /\ LimiterTypeOK' /\ ReqOK' /\ StoreOK' => TypeOK'
  BY DEF TypeOK, ReqOK, StoreOK, States
<1>3. UNCHANGED <<attempts, recent, now>> => LimiterTypeOK'
  BY <1>1 DEF LimiterTypeOK
<1>4. UNCHANGED <<issued, revoked, redis, gone>> => StoreOK'
  BY <1>1 DEF StoreOK
<1>5. ASSUME NEW r \in Requests, End(r) PROVE ReqOK'
  BY <1>1, <1>5, ReqMoves DEF End
<1>6. ASSUME NEW r \in Requests, req[r] # None PROVE req[r] \in States
  BY <1>1, <1>6 DEF ReqOK
<1>7. CASE UNCHANGED vars
  <2>1. ReqOK'  BY <1>1, <1>7 DEF vars, ReqOK, States, LoginStates, BearerStates
  <2> QED BY <2>1, <1>1, <1>2, <1>3, <1>4, <1>7 DEF vars
<1>8. ASSUME NEW r \in Requests, NEW k \in LimiterKeys, BeginLogin(r, k)
      PROVE  TypeOK'
  <2>1. LimiterTypeOK'  BY <1>1, <1>8, LimiterOps DEF BeginLogin
  <2>2. ReqOK'
    <3>1. [op |-> "login", key |-> k, pc |-> "verify"] \in States
          /\ [op |-> "login", key |-> k, pc |-> "refused"] \in States
      BY DEF States, LoginStates
    <3> QED BY <1>1, <1>8, <3>1, ReqMoves DEF BeginLogin
  <2> QED BY <2>1, <2>2, <1>1, <1>2, <1>4, <1>8 DEF BeginLogin
<1>9. ASSUME NEW r \in Requests, ReplyRefused(r)
      PROVE  TypeOK'
  <2>1. req[r].key \in LimiterKeys
    BY <1>6, <1>9 DEF ReplyRefused, At, States, LoginStates, BearerStates
  <2>2. LimiterTypeOK'  BY <1>1, <1>9, <2>1, LimiterOps DEF ReplyRefused
  <2> QED BY <2>2, <1>1, <1>2, <1>4, <1>5, <1>9 DEF ReplyRefused
<1>10. ASSUME NEW r \in Requests, WrongPassword(r)
       PROVE  TypeOK'
  <2>1. req[r].key \in LimiterKeys
    BY <1>6, <1>10 DEF WrongPassword, At, States, LoginStates, BearerStates
  <2>2. LimiterTypeOK'  BY <1>1, <1>10, <2>1, LimiterOps DEF WrongPassword
  <2> QED BY <2>2, <1>1, <1>2, <1>4, <1>5, <1>10 DEF WrongPassword
<1>11. ASSUME NEW r \in Requests, RightPassword(r)
       PROVE  TypeOK'
  <2>1. req[r].key \in LimiterKeys
    BY <1>6, <1>11 DEF RightPassword, At, States, LoginStates, BearerStates
  <2>2. LimiterTypeOK'  BY <1>1, <1>11, <2>1, LimiterOps DEF RightPassword
  <2>3. [op |-> "login", user |-> req[r].key[2], pc |-> "build"] \in States
    BY <2>1 DEF States, LoginStates
  <2>4. ReqOK'  BY <1>1, <1>11, <2>3, ReqMoves DEF RightPassword
  <2> QED BY <2>2, <2>4, <1>1, <1>2, <1>4, <1>11 DEF RightPassword
<1>12. ASSUME NEW r \in Requests, BuildToken(r)
       PROVE  TypeOK'
  <2>1. [user |-> req[r].user, iat |-> now] \in Tokens
    BY <1>1, <1>6, <1>12 DEF BuildToken, At, States, LoginStates, BearerStates, Tokens
  <2>2. StoreOK'  BY <1>1, <2>1, <1>12 DEF BuildToken, StoreOK
  <2> QED BY <2>2, <1>1, <1>2, <1>3, <1>5, <1>12 DEF BuildToken
<1>13. ASSUME NEW r \in Requests, NEW op \in {"me", "refresh", "logout"}, NEW t \in issued,
              PresentToken(r, op, t)
       PROVE  TypeOK'
  <2>1. t \in Tokens  BY <1>1 DEF StoreOK
  <2>2. [op |-> op, user |-> t.user, tok |-> t, pc |-> "check", barred |-> t \in gone] \in States
    BY <2>1 DEF States, BearerStates, Tokens
  <2>3. ReqOK'  BY <1>1, <1>13, <2>2, ReqMoves DEF PresentToken
  <2> QED BY <2>3, <1>1, <1>2, <1>3, <1>4, <1>13 DEF PresentToken
<1>14. ASSUME NEW r \in Requests, CheckRevoked(r)
       PROVE  TypeOK'
  <2>1. [req[r] EXCEPT !.pc = "in"] \in States
    BY <1>6, <1>14 DEF CheckRevoked, At, States, LoginStates, BearerStates
  <2>2. ReqOK'  BY <1>1, <1>5, <1>14, <2>1, ReqMoves DEF CheckRevoked, Goto
  <2> QED BY <2>2, <1>1, <1>2, <1>3, <1>4, <1>14 DEF CheckRevoked
<1>15. ASSUME NEW r \in Requests, Serve(r) \/ Fail(r)
       PROVE  TypeOK'
  BY <1>1, <1>2, <1>3, <1>4, <1>5, <1>15 DEF Serve, Fail
<1>16. ASSUME NEW r \in Requests, RevocationTTL(r)
       PROVE  TypeOK'
  <2>1. ReqOK'
    <3>1. CASE ~ParseToken(req[r].tok)  BY <3>1, <1>5, <1>16 DEF RevocationTTL
    <3>2. CASE ParseToken(req[r].tok)
      <4> DEFINE x == [op |-> req[r].op, user |-> req[r].user, tok |-> req[r].tok, pc |-> "revoke",
                       barred |-> req[r].barred, ttl |-> AcceptedUntil(req[r].tok) - now]
      <4>1. req[r] \in BearerStates
        BY <1>6, <1>16 DEF RevocationTTL, At, States, LoginStates
      <4>2. req[r].tok \in Tokens /\ req[r].user \in Users /\ req[r].barred \in BOOLEAN
        BY <4>1 DEF BearerStates
      <4>3. AcceptedUntil(req[r].tok) - now \in Nat \ {0}
        <5>1. req[r].tok.iat \in Nat  BY <4>2 DEF Tokens
        <5> QED BY <5>1, <3>2, <1>1 DEF ParseToken, AcceptedUntil
      <4>4. x \in States  BY <4>2, <4>3, <1>16 DEF RevocationTTL, States, BearerStates
      <4> QED BY <4>4, <3>2, <1>1, <1>16, ReqMoves DEF RevocationTTL
    <3> QED BY <3>1, <3>2
  <2> QED BY <2>1, <1>1, <1>2, <1>3, <1>4, <1>16 DEF RevocationTTL
<1>17. ASSUME NEW r \in Requests, RevokeToken(r) \/ RevokeFails(r)
       PROVE  TypeOK'
  <2>1. At(r, "revoke")  BY <1>17 DEF RevokeToken, RevokeFails
  <2>2. req[r] \in BearerStates /\ req[r].tok \in Tokens /\ req[r].ttl \in Nat
    BY <2>1, <1>6 DEF At, States, LoginStates, BearerStates
  <2>3. UNCHANGED revoked \/ StoreRevocation(r)
    BY <1>17 DEF RevokeToken, RevokeFails
  <2>4. revoked' \in [Tokens -> Nat]
    BY <2>2, <2>3, <1>1 DEF StoreRevocation, StoreOK
  <2>5. gone' \subseteq Tokens
    BY <2>2, <1>1, <1>17 DEF RevokeToken, RevokeFails, StoreOK
  <2>6. StoreOK'
    BY <2>4, <2>5, <1>1, <1>17 DEF RevokeToken, RevokeFails, StoreOK
  <2>7. ReqOK'
    <3>1. [req[r] EXCEPT !.pc = "build"] \in States
      BY <2>1, <2>2, <1>6 DEF At, States, BearerStates, LoginStates
    <3> QED BY <3>1, <1>1, <1>5, <1>17, ReqMoves DEF RevokeToken, RevokeFails, Goto
  <2> QED BY <2>6, <2>7, <1>1, <1>2, <1>3, <1>17 DEF RevokeToken, RevokeFails
<1>18. CASE Tick
  <2>1. now' \in 0..MaxTime /\ LimiterTypeOK'
    BY <1>1, <1>18, LimiterTickType DEF Tick, LimiterTick
  <2>2. StoreOK'  BY <1>1, <1>18 DEF Tick, StoreOK
  <2>3. ReqOK'  BY <1>1, <1>18 DEF Tick, ReqOK, States, LoginStates, BearerStates
  <2> QED BY <2>1, <2>2, <2>3, <1>2
<1>19. CASE Restart
  <2>1. LimiterTypeOK'  BY <1>1, <1>19, LimiterFresh DEF Restart
  <2>2. ReqOK'  BY <1>19 DEF Restart, ReqOK
  <2>3. redis' \in BOOLEAN  BY <1>19, Zenon DEF Restart, PingAnswers
  <2>4. StoreOK'  BY <2>3, <1>1, <1>19 DEF Restart, StoreOK
  <2> QED BY <2>1, <2>2, <2>4, <1>1, <1>2, <1>19 DEF Restart
<1> QED
  BY <1>7, <1>8, <1>9, <1>10, <1>11, <1>12, <1>13, <1>14, <1>15, <1>16, <1>17, <1>18, <1>19
     DEF Next

-----------------------------------------------------------------------------
(* Revocations.                                                            *)

\* A token is out of use for good: expired, or stored as revoked until it is.
Out(t) == AcceptedUntil(t) <= now \/ revoked[t] >= AcceptedUntil(t)

\* The lifetime a request took for its revocation still reaches far enough, no
\* matter when Redis stores it.
Reaches(r) == At(r, "revoke") => now + req[r].ttl >= AcceptedUntil(req[r].tok)

\* A request that arrived with a revoked token carries one that is out of use.
BarredIsOut(r) == req[r] # None /\ req[r].op # "login" /\ req[r].barred => Out(req[r].tok)

\* The inductive invariant: RevokedStaysOut alone says nothing of the tokens
\* whose revocation is under way or stored, and these decide the next step.
AuthInv ==
  /\ TypeOK
  /\ \A t \in gone : Out(t)
  /\ \A r \in Requests : Reaches(r) /\ BarredIsOut(r)
  /\ RevokedStaysOut
  /\ RotationRevokes

\* No step brings a token back into use: not the clock, at which entries of
\* Redis end, and not a second revocation of the same token.
LEMMA OutStays ==
  ASSUME AuthInv, [Next]_vars, NEW t \in Tokens, Out(t)
  PROVE  Out(t)'
<1> USE AuthAssumption
<1>1. now \in Nat /\ AcceptedUntil(t) \in Nat /\ revoked \in [Tokens -> Nat]
  BY DEF AuthInv, TypeOK, AcceptedUntil, Tokens
<1>2. CASE UNCHANGED <<now, revoked>>
  BY <1>2 DEF Out, AcceptedUntil
<1>3. ASSUME NEW r \in Requests, At(r, "revoke"), StoreRevocation(r), now' = now
      PROVE  Out(t)'
  <2>1. CASE req[r].tok # t
    <3>1. revoked'[t] = revoked[t]  BY <1>1, <1>3, <2>1 DEF StoreRevocation
    <3> QED BY <3>1, <1>3 DEF Out, AcceptedUntil
  <2>2. CASE req[r].tok = t
    <3>1. revoked'[t] = now + req[r].ttl  BY <1>1, <1>3, <2>2 DEF StoreRevocation
    <3>2. now + req[r].ttl >= AcceptedUntil(t)  BY <1>3, <2>2 DEF AuthInv, Reaches
    <3> QED BY <3>1, <3>2 DEF Out, AcceptedUntil
  <2> QED BY <2>1, <2>2
<1>4. CASE Tick
  <2>1. now' = now + 1 /\ revoked'[t] = IF revoked[t] <= now + 1 THEN 0 ELSE revoked[t]
    BY <1>4 DEF Tick, LimiterTick
  <2>2. AcceptedUntil(t) <= now' \/ revoked'[t] >= AcceptedUntil(t)
    BY <2>1, <1>1 DEF Out
  <2> QED BY <2>2 DEF Out, AcceptedUntil
<1>5. ASSUME NEW r \in Requests, RevokeToken(r) \/ RevokeFails(r)
      PROVE  Out(t)'
  BY <1>2, <1>3, <1>5 DEF RevokeToken, RevokeFails
<1> QED
  BY <1>2, <1>4, <1>5 DEF Next, vars, BeginLogin, ReplyRefused, WrongPassword, RightPassword,
     BuildToken, PresentToken, CheckRevoked, Serve, RevocationTTL, Fail, Restart

\* What AuthInv says of one request.
Fine(r) ==
  /\ Reaches(r) /\ BarredIsOut(r)
  /\ redis /\ Admitted(r) /\ req[r].op # "login" /\ req[r].barred => ~ParseToken(req[r].tok)
  /\ redis /\ At(r, "build") /\ req[r].op = "refresh" => Out(req[r].tok)

\* AuthInv, split by request: a step that moves one request disturbs one Fine(r).
LEMMA InvIsFine ==
  AuthInv <=> TypeOK /\ (\A t \in gone : Out(t)) /\ \A r \in Requests : Fine(r)
BY DEF AuthInv, Fine, RevokedStaysOut, RotationRevokes, Out

\* A request that carries a token is a bearer request of that type.
LEMMA BearerType ==
  ASSUME TypeOK, NEW r \in Requests, req[r] # None, req[r].op # "login"
  PROVE  /\ req[r] \in BearerStates
         /\ req[r].tok \in Tokens /\ req[r].tok.iat \in Nat
BY DEF TypeOK, LoginStates, BearerStates, Tokens

\* A request that does not move stays fine, whatever else happens.
LEMMA StillFine ==
  ASSUME AuthInv, [Next]_vars, now' = now \/ now' = now + 1,
         NEW r \in Requests, req'[r] = req[r]
  PROVE  Fine(r)'
<1> USE AuthAssumption
<1>1. TypeOK /\ Fine(r) /\ now \in Nat  BY InvIsFine DEF TypeOK
<1>2. CASE req[r] = None \/ (req[r] # None /\ req[r].op = "login")
  <2>1. At(r, "revoke") => FALSE
    BY <1>1, <1>2 DEF At, TypeOK, LoginStates, BearerStates
  <2> QED BY <1>2, <2>1 DEF Fine, Reaches, BarredIsOut, Admitted, At
<1>3. CASE req[r] # None /\ req[r].op # "login"
  <2>1. req[r].tok \in Tokens /\ req[r].tok.iat \in Nat  BY <1>1, <1>3, BearerType
  <2>2. Out(req[r].tok) =>
          AcceptedUntil(req[r].tok) <= now' \/ revoked'[req[r].tok] >= AcceptedUntil(req[r].tok)
    <3>1. ASSUME NEW t \in Tokens, Out(t)
          PROVE  AcceptedUntil(t) <= now' \/ revoked'[t] >= AcceptedUntil(t)
      BY <3>1, OutStays DEF Out, AcceptedUntil
    <3> QED BY <2>1, <3>1
  <2>3. At(r, "revoke") => req[r].ttl \in Nat
    BY <1>1, <1>3, BearerType DEF At, BearerStates
  <2>4. Reaches(r)'
    BY <1>1, <2>1, <2>3 DEF Fine, Reaches, At, AcceptedUntil
  <2>5. BarredIsOut(r)'  BY <1>1, <2>2 DEF Fine, BarredIsOut, Out, AcceptedUntil
  <2>8. redis' = redis
    BY <1>1, <1>3 DEF Next, vars, BeginLogin, ReplyRefused, WrongPassword, RightPassword,
       BuildToken, PresentToken, CheckRevoked, Serve, RevocationTTL, RevokeToken, RevokeFails,
       Fail, Tick, Restart
  <2>6. (redis /\ Admitted(r) /\ req[r].op # "login" /\ req[r].barred => ~ParseToken(req[r].tok))'
    BY <1>1, <2>1, <2>8 DEF Fine, Admitted, ParseToken, AcceptedUntil
  <2>7. (redis /\ At(r, "build") /\ req[r].op = "refresh" => Out(req[r].tok))'
    BY <1>1, <2>2, <2>8 DEF Fine, At, Out, AcceptedUntil
  <2> QED BY <2>4, <2>5, <2>6, <2>7 DEF Fine
<1> QED BY <1>2, <1>3

\* A request that ended, or became a login, needs nothing.
LEMMA NothingToKeep ==
  ASSUME NEW r \in Requests, TypeOK',
         req'[r] = None \/ req'[r].op = "login"
  PROVE  Fine(r)'
<1>1. req'[r] # None => req'[r].pc # "revoke"
  BY DEF TypeOK, LoginStates, BearerStates
<1> QED BY <1>1 DEF Fine, Reaches, BarredIsOut, Admitted, At

\* Nothing is revoked and nobody has asked anything when the process starts.
LEMMA AuthInvInit == Init => AuthInv
<1> SUFFICES ASSUME Init PROVE AuthInv  OBVIOUS
<1>1. TypeOK  BY TypeInit
<1>2. \A r \in Requests : Fine(r)
  BY DEF Init, Fine, Reaches, BarredIsOut, Admitted, At
<1> QED BY <1>1, <1>2, InvIsFine DEF Init

\* No step of a request, and no tick, breaks AuthInv.
LEMMA AuthInvStep == AuthInv /\ [Next]_vars => AuthInv'
<1> SUFFICES ASSUME AuthInv, [Next]_vars PROVE AuthInv'  OBVIOUS
<1> USE AuthAssumption
<1>1. TypeOK /\ now \in Nat /\ (\A t \in gone : Out(t)) /\ \A r \in Requests : Fine(r)
  BY InvIsFine DEF TypeOK
<1>2. TypeOK'  BY <1>1, TypeStep
<1>3. now' = now \/ now' = now + 1
  BY DEF Next, vars, BeginLogin, ReplyRefused, WrongPassword, RightPassword, BuildToken,
     PresentToken, CheckRevoked, Serve, RevocationTTL, RevokeToken, RevokeFails, Fail, Tick,
     LimiterTick, Restart
<1>4. ASSUME NEW t \in Tokens, Out(t)
      PROVE  AcceptedUntil(t) <= now' \/ revoked'[t] >= AcceptedUntil(t)
  BY <1>4, OutStays DEF Out, AcceptedUntil
<1>5. ASSUME NEW r \in Requests, redis, RevokeToken(r)
      PROVE  /\ req[r].tok \in Tokens
             /\ revoked'[req[r].tok] >= AcceptedUntil(req[r].tok)
  <2>1. req[r].tok \in Tokens
    BY <1>1, <1>5 DEF RevokeToken, At, TypeOK, LoginStates, BearerStates
  <2>2. revoked'[req[r].tok] = now + req[r].ttl
    BY <1>1, <1>5, <2>1 DEF RevokeToken, StoreRevocation, TypeOK
  <2> QED BY <1>1, <1>5, <2>1, <2>2 DEF RevokeToken, Fine, Reaches
<1>6. \A t \in gone' : AcceptedUntil(t) <= now' \/ revoked'[t] >= AcceptedUntil(t)
  <2> SUFFICES ASSUME NEW t \in gone'
               PROVE  AcceptedUntil(t) <= now' \/ revoked'[t] >= AcceptedUntil(t)
    OBVIOUS
  <2>1. CASE t \in gone
    <3>1. t \in Tokens /\ Out(t)  BY <1>1, <2>1 DEF TypeOK
    <3> QED BY <3>1, <1>4
  <2>2. CASE t \notin gone
    <3>1. PICK r \in Requests : redis /\ RevokeToken(r) /\ t = req[r].tok
      BY <2>2 DEF Next, vars, BeginLogin, ReplyRefused, WrongPassword, RightPassword, BuildToken,
         PresentToken, CheckRevoked, Serve, RevocationTTL, RevokeToken, RevokeFails, Fail, Tick,
         Restart
    <3> QED BY <3>1, <1>5
  <2> QED BY <2>1, <2>2
<1>7. ASSUME NEW q \in Requests, req'[q] # req[q], req'[q] # None, req'[q].op # "login"
      PROVE  Fine(q)'
  <2>1. \/ \E op \in {"me", "refresh", "logout"}, t \in issued : PresentToken(q, op, t)
        \/ CheckRevoked(q) \/ RevocationTTL(q) \/ RevokeToken(q)
    <3>1. DOMAIN req = Requests  BY <1>1 DEF TypeOK
    <3>2. ASSUME NEW r \in Requests, NEW x, req' = [req EXCEPT ![r] = x]
          PROVE  q = r /\ req'[q] = x
      BY <3>1, <3>2, <1>7
    <3>3. ASSUME NEW r \in Requests, End(r)  PROVE FALSE
      BY <3>2, <3>3, <1>7 DEF End
    <3>4. ASSUME NEW r \in Requests, NEW k \in LimiterKeys, BeginLogin(r, k)  PROVE FALSE
      <4>1. CASE req' = [req EXCEPT ![r] = [op |-> "login", key |-> k, pc |-> "verify"]]
        BY <4>1, <3>2, <1>7
      <4>2. CASE req' = [req EXCEPT ![r] = [op |-> "login", key |-> k, pc |-> "refused"]]
        BY <4>2, <3>2, <1>7
      <4> QED BY <4>1, <4>2, <3>4 DEF BeginLogin
    <3>5. ASSUME NEW r \in Requests, RightPassword(r)  PROVE FALSE
      <4> DEFINE x == [op |-> "login", user |-> req[r].key[2], pc |-> "build"]
      <4>1. req' = [req EXCEPT ![r] = x]  BY <3>5 DEF RightPassword
      <4>2. req'[q] = x  BY <4>1, <3>2
      <4> QED BY <4>2, <1>7
    <3>6. ASSUME NEW r \in Requests,
                 ReplyRefused(r) \/ WrongPassword(r) \/ BuildToken(r) \/ Serve(r) \/ RevokeFails(r) \/ Fail(r)
          PROVE  FALSE
      BY <3>3, <3>6 DEF ReplyRefused, WrongPassword, BuildToken, Serve, RevokeFails, Fail
    <3>7. ~Tick /\ ~Restart /\ ~UNCHANGED vars
      BY <1>7 DEF Tick, Restart, vars
    <3>8. ASSUME NEW r \in Requests, r # q,
                 \/ \E op \in {"me", "refresh", "logout"}, t \in issued : PresentToken(r, op, t)
                 \/ CheckRevoked(r) \/ RevocationTTL(r) \/ RevokeToken(r)
          PROVE  FALSE
      <4>1. PICK x : req' = [req EXCEPT ![r] = x]
        BY <3>8 DEF PresentToken, CheckRevoked, RevocationTTL, RevokeToken, Goto, End
      <4> QED BY <4>1, <3>2, <3>8
    <3> QED BY <3>4, <3>5, <3>6, <3>7, <3>8 DEF Next
  <2>2. ASSUME NEW op \in {"me", "refresh", "logout"}, NEW t \in issued, PresentToken(q, op, t)
        PROVE  Fine(q)'
    <3>1. t \in Tokens  BY <1>1 DEF TypeOK
    <3>2. req'[q] = [op |-> op, user |-> t.user, tok |-> t, pc |-> "check", barred |-> t \in gone]
      BY <1>1, <2>2 DEF PresentToken, TypeOK
    <3>3. t \in gone => AcceptedUntil(t) <= now' \/ revoked'[t] >= AcceptedUntil(t)
      BY <3>1, <1>1, <1>4
    <3>4. t \notin gone => ~req'[q].barred
      <4> SUFFICES ASSUME t \notin gone PROVE ~req'[q].barred  OBVIOUS
      <4>1. (t \in gone) = FALSE  OBVIOUS
      <4>2. req'[q] = [op |-> op, user |-> t.user, tok |-> t, pc |-> "check", barred |-> FALSE]
        BY <3>2, <4>1, Zenon
      <4> QED BY <4>2
    <3>5. req'[q].tok = t  BY <3>2
    <3>6. BarredIsOut(q)'  BY <3>3, <3>4, <3>5 DEF BarredIsOut, Out, AcceptedUntil
    <3> QED BY <3>2, <3>6 DEF Fine, Reaches, Admitted, At
  <2>3. CASE CheckRevoked(q)
    <3> DEFINE t == req[q].tok
    <3>1. req[q] # None /\ At(q, "check") /\ ~IsTokenRevoked(t) /\ Goto(q, "in")
          /\ now' = now /\ redis' = redis
      BY <1>1, <1>7, <2>3 DEF CheckRevoked, End, TypeOK, At
    <3>2. req[q] \in BearerStates
      BY <1>1, <3>1 DEF TypeOK, At, LoginStates
    <3>3. t \in Tokens /\ t.iat \in Nat  BY <3>2 DEF BearerStates, Tokens
    <3>4. req'[q] = [req[q] EXCEPT !.pc = "in"]  BY <1>1, <3>1 DEF Goto, TypeOK
    <3>5. /\ req'[q].pc = "in" /\ req'[q].tok = t /\ req'[q].barred = req[q].barred
          /\ req'[q].op = req[q].op /\ req[q].op # "login"
      BY <3>2, <3>4 DEF BearerStates
    <3>6. req[q].barred => Out(t)  BY <1>1, <3>1, <3>5 DEF Fine, BarredIsOut
    <3>7. redis /\ Out(t) => ~ParseToken(t)
      BY <1>1, <3>1, <3>3 DEF Out, IsTokenRevoked, ParseToken, AcceptedUntil, TypeOK
    <3>8. BarredIsOut(q)'
      BY <3>3, <3>5, <3>6, <1>4 DEF BarredIsOut, Out, AcceptedUntil
    <3>9. (redis /\ Admitted(q) /\ req[q].op # "login" /\ req[q].barred => ~ParseToken(req[q].tok))'
      BY <3>1, <3>5, <3>6, <3>7 DEF ParseToken, AcceptedUntil
    <3> QED BY <3>5, <3>8, <3>9 DEF Fine, Reaches, At
  <2>4. CASE RevocationTTL(q)
    <3> DEFINE t == req[q].tok
    <3>1. At(q, "in") /\ req[q].op \in {"refresh", "logout"} /\ ParseToken(t)
          /\ now' = now /\ redis' = redis
      BY <1>1, <1>7, <2>4 DEF RevocationTTL, End, TypeOK
    <3>2. req'[q] = [op |-> req[q].op, user |-> req[q].user, tok |-> t, pc |-> "revoke",
                     barred |-> req[q].barred, ttl |-> AcceptedUntil(t) - now]
      BY <1>1, <2>4, <3>1 DEF RevocationTTL, TypeOK
    <3>3. t \in Tokens /\ t.iat \in Nat
      BY <1>1, <3>1, BearerType DEF At
    <3>4. redis => ~req[q].barred
      BY <1>1, <3>1 DEF Fine, Admitted, At
    <3>5. Reaches(q)'
      <4>1. now + (AcceptedUntil(t) - now) >= AcceptedUntil(t)
        BY <1>1, <3>3 DEF AcceptedUntil
      <4> QED BY <4>1, <3>1, <3>2 DEF Reaches, AcceptedUntil
    <3>6. BarredIsOut(q)'
      <4>1. req'[q].tok = t /\ req'[q].barred = req[q].barred  BY <3>2
      <4>2. req[q].barred => Out(t)  BY <1>1, <3>1 DEF Fine, BarredIsOut, At
      <4> QED BY <4>1, <4>2, <3>3, <1>4 DEF BarredIsOut, Out, AcceptedUntil
    <3> QED BY <3>1, <3>2, <3>4, <3>5, <3>6 DEF Fine, Admitted, At
  <2>5. CASE RevokeToken(q)
    <3> DEFINE t == req[q].tok
    <3>1. At(q, "revoke") /\ Goto(q, "build") /\ now' = now /\ redis' = redis
      BY <1>1, <1>7, <2>5 DEF RevokeToken, End, TypeOK
    <3>2. req[q] \in BearerStates  BY <1>1, <3>1 DEF TypeOK, At, LoginStates
    <3>3. req'[q] = [req[q] EXCEPT !.pc = "build"]  BY <1>1, <3>1 DEF Goto, TypeOK
    <3>4. req'[q].pc = "build" /\ req'[q].tok = t /\ req'[q].barred = req[q].barred
      BY <3>2, <3>3 DEF BearerStates
    <3>5. redis => revoked'[t] >= AcceptedUntil(t)  BY <1>5, <2>5
    <3>6. BarredIsOut(q)'
      <4>1. req[q].barred => Out(t)  BY <1>1, <3>1, <3>2 DEF Fine, BarredIsOut, At, BearerStates
      <4>2. t \in Tokens  BY <3>2 DEF BearerStates
      <4> QED BY <4>1, <4>2, <3>4, <1>4 DEF BarredIsOut, Out, AcceptedUntil
    <3> QED BY <3>1, <3>4, <3>6, <3>5 DEF Fine, Reaches, BarredIsOut, Admitted, At, Out, AcceptedUntil
  <2> QED BY <2>1, <2>2, <2>3, <2>4, <2>5
<1>8. \A q \in Requests : Fine(q)'
  BY <1>2, <1>3, <1>7, StillFine, NothingToKeep
<1> QED
  BY <1>2, <1>6, <1>8 DEF AuthInv, Fine, RevokedStaysOut, RotationRevokes, Out, AcceptedUntil

\* The invariant of logins and tokens, for every instance.
THEOREM AuthInvariant == Spec => []AuthInv
<1>1. Init => AuthInv  BY AuthInvInit
<1>2. AuthInv /\ [Next]_vars => AuthInv'  BY AuthInvStep
<1> QED BY <1>1, <1>2, PTL DEF Spec

\* Type correctness: among the types, that no revocation is stored with a
\* lifetime of 0, which Redis would not store at all (TypeOK of Auth).
THEOREM AuthTypeCorrect == Spec => []TypeOK
<1>1. AuthInv => TypeOK  BY DEF AuthInv
<1> QED BY <1>1, AuthInvariant, PTL

\* A token reported as revoked gets no later request through, unless it expired
\* while the request waited, however late Redis stores and answers.
THEOREM RevokedStaysOutHolds == Spec => []RevokedStaysOut
<1>1. AuthInv => RevokedStaysOut  BY DEF AuthInv
<1> QED BY <1>1, AuthInvariant, PTL

\* A refresh is about to hand out a token only if the one it replaces is out of
\* use for good.
THEOREM RotationRevokesHolds == Spec => []RotationRevokes
<1>1. AuthInv => RotationRevokes  BY DEF AuthInv
<1> QED BY <1>1, AuthInvariant, PTL

-----------------------------------------------------------------------------
(***************************************************************************)
(* The bounds of the limiter.  What one key knows is its entry e, the      *)
(* failures g of the last ticks, by age, and the number p of requests that *)
(* Allow has let in and that may still fail.  A window of n failures       *)
(* accounts for all failures as young as itself; older ones that still     *)
(* count are of one window before it, whose first failure no longer does.  *)
(***************************************************************************)
\* No window ever holds more failures than this.
Cap == MaxFailures - 1 + Cardinality(Requests)

Entry(t) == [failures : Nat \ {0}, firstFailure : 0..t]
Ages == [0..(Window - 1) -> Nat]

KeyOK(e, g, t, p) ==
  IF e = None THEN First(g, Window) <= Cap - 1 /\ g[0] = 0
  ELSE LET age == t - e.firstFailure
       IN  /\ e.failures + p <= Cap
           /\ First(g, Window) <= e.failures + Cap - 1
           /\ age < Window => First(g, age + 1) = e.failures /\ First(g, age) <= e.failures - 1
           /\ age >= Window => g[0] = 0 /\ First(g, Window) <= e.failures - 1

\* The attempts at key k that Allow has let in.
Trying(k) == {r \in Requests : At(r, "verify") /\ req[r].key = k}

LimiterBound ==
  \A k \in LimiterKeys : KeyOK(attempts[k], recent[k], now, Cardinality(Trying(k)))

LimiterInv == TypeOK /\ LimiterBound

\* The bound on the failures of a window is a positive number.
LEMMA CapType == Cap \in Nat \ {0} /\ Cardinality(Requests) \in Nat /\ Cardinality(Requests) <= Cap
<1>1. Cardinality(Requests) \in Nat /\ Cardinality(Requests) # 0
  BY AuthAssumption, FS_CardinalityType, FS_EmptySet
<1> QED BY <1>1, LimiterAssumption DEF Cap

\* What is needed to add up the failures of one key.
LEMMA AgesAdd ==
  ASSUME NEW g \in Ages
  PROVE  /\ Counts(g, Window) /\ Window \in Nat \ {0} /\ g[0] \in Nat
         /\ \A j \in 0..Window : Counts(g, j) /\ First(g, j) \in Nat /\ First(g, j) <= First(g, Window)
<1>1. Window \in Nat \ {0}  BY LimiterAssumption
<1>2. Counts(g, Window)  BY DEF Ages, Counts
<1>3. \A j \in 0..Window : First(g, j) \in Nat /\ First(g, j) <= First(g, Window)
  BY <1>1, <1>2, FirstGrows
<1>4. ASSUME NEW j \in 0..Window PROVE Counts(g, j)
  <2>1. 0..(j - 1) \subseteq 0..(Window - 1)  BY <1>1
  <2> QED BY <2>1, <1>2 DEF Counts
<1>5. g[0] \in Nat
  <2>1. 0 \in 0..(Window - 1)  BY <1>1
  <2> QED BY <2>1, <1>2 DEF Counts
<1> QED BY <1>1, <1>2, <1>3, <1>4, <1>5

\* Pruning: an entry that is dropped leaves fewer failures than a window holds.
LEMMA KeyPruned ==
  ASSUME NEW t \in Nat, NEW e, e # None => e \in Entry(t), NEW g \in Ages, NEW p \in Nat,
         KeyOK(e, g, t, p), NEW d,
         d = IF e # None /\ t - e.firstFailure >= Window THEN None ELSE e
  PROVE  KeyOK(d, g, t, p) /\ (d # None => d \in Entry(t) /\ t - d.firstFailure < Window)
<1>1. CASE d = e
  <2>1. d # None => d.firstFailure \in Nat /\ Window \in Nat
    BY <1>1, LimiterAssumption DEF Entry
  <2>2. d # None => ~(t - d.firstFailure >= Window)  BY <1>1
  <2> QED BY <1>1, <2>1, <2>2
<1>2. CASE d # e
  <2>1. d = None /\ e # None /\ t - e.firstFailure >= Window  BY <1>2
  <2>2. First(g, Window) <= e.failures - 1 /\ g[0] = 0 /\ e.failures + p <= Cap
    BY <2>1 DEF KeyOK
  <2>3. e.failures \in Nat /\ Cap \in Nat /\ First(g, Window) \in Nat
    BY <2>1, CapType, AgesAdd DEF Entry
  <2>4. First(g, Window) <= Cap - 1  BY <2>2, <2>3
  <2> QED BY <2>1, <2>2, <2>4 DEF KeyOK
<1> QED BY <1>1, <1>2

\* Allow lets one more in only below the limit.
LEMMA KeyAllowed ==
  ASSUME NEW t \in Nat, NEW e, e # None => e \in Entry(t) /\ e.failures < MaxFailures,
         NEW g \in Ages, NEW p \in Nat, KeyOK(e, g, t, p),
         NEW q \in Nat, q <= Cardinality(Requests)
  PROVE  KeyOK(e, g, t, q)
<1>1. e # None => e.failures + q <= Cap
  BY CapType, LimiterAssumption DEF Entry, Cap
<1> QED BY <1>1 DEF KeyOK

\* One that ends without a failure.
LEMMA KeyFewer ==
  ASSUME NEW t \in Nat, NEW e, e # None => e \in Entry(t), NEW g \in Ages,
         NEW p \in Nat, KeyOK(e, g, t, p), NEW q \in Nat, q <= p
  PROVE  KeyOK(e, g, t, q)
<1>1. e # None => e.failures + q <= Cap
  <2> SUFFICES ASSUME e # None PROVE e.failures + q <= Cap  OBVIOUS
  <2>1. e.failures \in Nat /\ e.failures + p <= Cap  BY DEF KeyOK, Entry
  <2> QED BY <2>1, CapType
<1> QED BY <1>1 DEF KeyOK

\* A failure begins a window or counts in the one there is.
LEMMA KeyFailed ==
  ASSUME NEW t \in Nat, NEW e, e # None => e \in Entry(t) /\ t - e.firstFailure < Window,
         NEW g \in Ages, NEW p \in Nat, p # 0, p <= Cardinality(Requests), KeyOK(e, g, t, p),
         NEW d, d # None,
         d.failures = IF e = None THEN 1 ELSE e.failures + 1,
         d.firstFailure = IF e = None THEN t ELSE e.firstFailure,
         NEW h, h[0] = g[0] + 1, \A a \in 1..(Window - 1) : h[a] = g[a]
  PROVE  KeyOK(d, h, t, p - 1)
<1>1. \A j \in 1..Window : First(h, j) = First(g, j) + 1 /\ First(g, j) \in Nat
  <2> SUFFICES ASSUME NEW j \in 1..Window
               PROVE  First(h, j) = First(g, j) + 1 /\ First(g, j) \in Nat
    OBVIOUS
  <2>1. j \in Nat \ {0} /\ j \in 0..Window /\ Window \in Nat  BY LimiterAssumption
  <2>2. Counts(g, j) /\ First(g, j) \in Nat  BY <2>1, AgesAdd
  <2>3. \A a \in 1..(j - 1) : h[a] = g[a]  BY <2>1
  <2> QED BY <2>1, <2>2, <2>3, FirstMore
<1>2. First(h, 0) = 0 /\ First(g, 0) = 0  BY FirstNone
<1>3. Window \in 1..Window /\ Window \in Nat \ {0} /\ Cap \in Nat \ {0}
  BY LimiterAssumption, CapType
<1>4. First(h, Window) = First(g, Window) + 1 /\ First(g, Window) \in Nat  BY <1>1, <1>3
<1>5. CASE e = None
  <2>1. d.failures = 1 /\ d.firstFailure = t  BY <1>5
  <2>2. g[0] = 0 /\ First(g, Window) <= Cap - 1  BY <1>5 DEF KeyOK
  <2>3. First(h, 1) = 1
    <3>1. First(g, 0 + 1) = First(g, 0) + g[0]
      <4>1. Counts(g, 0 + 1)
        <5>1. 1 \in 0..Window  BY <1>3
        <5>2. Counts(g, 1)  BY <5>1, AgesAdd
        <5> QED BY <5>2
      <4> QED BY <4>1, FirstNext
    <3>2. 1 \in 1..Window  BY <1>3
    <3> QED BY <1>1, <1>2, <2>2, <3>1, <3>2
  <2>4. 1 + (p - 1) <= Cap  BY CapType
  <2>5. t - t = 0 /\ 0 + 1 = 1  OBVIOUS
  <2> QED BY <1>2, <1>3, <1>4, <2>1, <2>2, <2>3, <2>4, <2>5 DEF KeyOK
<1>6. CASE e # None
  <2> DEFINE age == t - e.firstFailure
             n == e.failures
  <2>1. n \in Nat \ {0} /\ age \in Nat /\ age < Window  BY <1>6 DEF Entry
  <2>2. n + p <= Cap /\ First(g, Window) <= n + Cap - 1
        /\ First(g, age + 1) = n /\ First(g, age) <= n - 1
    BY <1>6, <2>1 DEF KeyOK
  <2>3. d.failures = n + 1 /\ t - d.firstFailure = age  BY <1>6
  <2> HIDE DEF age, n
  <2>4. age + 1 \in 1..Window  BY <1>3, <2>1
  <2>5. First(h, age + 1) = n + 1  BY <1>1, <2>2, <2>4
  <2>6. First(h, age) <= (n + 1) - 1
    <3>1. CASE age = 0  BY <1>2, <2>1, <3>1
    <3>2. CASE age # 0
      <4>1. age \in 1..Window  BY <1>3, <2>1, <3>2
      <4> QED BY <1>1, <2>1, <2>2, <4>1
    <3> QED BY <3>1, <3>2
  <2>7. (n + 1) + (p - 1) <= Cap  BY <1>3, <2>1, <2>2
  <2>8. First(h, Window) <= (n + 1) + Cap - 1  BY <1>3, <1>4, <2>1, <2>2
  <2>9. ~(age >= Window)  BY <1>3, <2>1
  <2> QED BY <2>3, <2>5, <2>6, <2>7, <2>8, <2>9 DEF KeyOK
<1> QED BY <1>5, <1>6

\* A success, or a fresh process.
LEMMA KeyReset == \A t, p : KeyOK(None, NoFailures, t, p)
<1>1. Window \in Nat \ {0}  BY LimiterAssumption
<1>2. \A a \in 0..(Window - 1) : NoFailures[a] = 0  BY DEF NoFailures
<1>3. First(NoFailures, Window) = 0  BY <1>1, <1>2, FirstZero
<1>4. NoFailures[0] = 0  BY <1>1, <1>2
<1> QED BY <1>3, <1>4, CapType DEF KeyOK

\* A tick: the oldest failures drop out, and a window that ends here does not
\* hold those of its own first tick any more.
LEMMA KeyTicked ==
  ASSUME NEW t \in Nat, NEW e, e # None => e \in Entry(t), NEW g \in Ages, NEW p \in Nat,
         KeyOK(e, g, t, p), NEW h, h[0] = 0, \A a \in 1..(Window - 1) : h[a] = g[a - 1]
  PROVE  KeyOK(e, h, t + 1, p)
<1>1. Window \in Nat \ {0}  BY LimiterAssumption
<1>2. \A j \in 0..(Window - 1) : First(h, j + 1) = First(g, j)
  <2> SUFFICES ASSUME NEW j \in 0..(Window - 1) PROVE First(h, j + 1) = First(g, j)  OBVIOUS
  <2>1. j \in 0..Window /\ j \in Nat /\ 1..j \subseteq 1..(Window - 1)  BY <1>1
  <2>2. Counts(g, j)  BY <2>1, AgesAdd
  <2>3. \A a \in 1..j : h[a] = g[a - 1]  BY <2>1
  <2> QED BY <2>1, <2>2, <2>3, FirstShift
<1> DEFINE w == Window - 1
<1>3. w \in 0..(Window - 1) /\ w \in 0..Window /\ w + 1 = Window  BY <1>1
<1>4. First(h, Window) = First(g, w)  BY <1>2, <1>3
<1>5. First(g, w) \in Nat /\ First(g, Window) \in Nat /\ First(g, w) <= First(g, Window)
  BY <1>1, <1>3, AgesAdd
<1> HIDE DEF w
<1>6. CASE e = None
  BY <1>4, <1>5, <1>6, CapType DEF KeyOK
<1>7. CASE e # None
  <2> DEFINE age == t - e.firstFailure
             n == e.failures
  <2>1. n \in Nat \ {0} /\ age \in Nat /\ (t + 1) - e.firstFailure = age + 1
    BY <1>7 DEF Entry
  <2>2. /\ n + p <= Cap /\ First(g, Window) <= n + Cap - 1
        /\ age < Window => First(g, age + 1) = n /\ First(g, age) <= n - 1
        /\ age >= Window => g[0] = 0 /\ First(g, Window) <= n - 1
    BY <1>7 DEF KeyOK
  <2> HIDE DEF age
  <2>3. First(h, Window) <= n + Cap - 1  BY <1>4, <1>5, <2>1, <2>2, CapType
  <2>4. age + 1 < Window => First(h, (age + 1) + 1) = n /\ First(h, age + 1) <= n - 1
    <3> SUFFICES ASSUME age + 1 < Window
                 PROVE  First(h, (age + 1) + 1) = n /\ First(h, age + 1) <= n - 1
      OBVIOUS
    <3>1. age \in 0..(Window - 1) /\ age + 1 \in 0..(Window - 1)  BY <1>1, <2>1
    <3>2. First(h, age + 1) = First(g, age) /\ First(h, (age + 1) + 1) = First(g, age + 1)
      BY <1>2, <3>1
    <3>3. age < Window  BY <1>1, <2>1
    <3> QED BY <2>2, <3>2, <3>3
  <2>5. age + 1 >= Window => First(h, Window) <= n - 1
    <3> SUFFICES ASSUME age + 1 >= Window PROVE First(h, Window) <= n - 1  OBVIOUS
    <3>1. CASE age >= Window  BY <1>4, <1>5, <2>1, <2>2, <3>1
    <3>2. CASE ~(age >= Window)
      <4>1. age = w /\ age < Window  BY <1>1, <1>3, <2>1, <3>2
      <4> QED BY <1>4, <2>2, <4>1
    <3> QED BY <3>1, <3>2
  <2> HIDE DEF n
  <2> QED BY <1>7, <2>1, <2>2, <2>3, <2>4, <2>5 DEF KeyOK, n
<1> QED BY <1>6, <1>7

\* What the types say of one key.
LEMMA KeyTypes ==
  ASSUME LimiterTypeOK, now \in Nat, NEW k \in LimiterKeys
  PROVE  /\ attempts[k] # None => attempts[k] \in Entry(now)
         /\ recent[k] \in Ages
BY DEF LimiterTypeOK, Entry, Ages

\* The requests whose password is being compared are among all requests.
LEMMA TryingType ==
  ASSUME NEW k
  PROVE  IsFiniteSet(Trying(k)) /\ Cardinality(Trying(k)) \in Nat
         /\ Cardinality(Trying(k)) <= Cardinality(Requests)
<1>1. Trying(k) \in SUBSET Requests  BY DEF Trying
<1> QED BY <1>1, AuthAssumption, FS_Subset, FS_CardinalityType

\* What a step that moves one request does to the attempts of a key.
LEMMA TryingMoves ==
  ASSUME DOMAIN req = Requests, NEW r \in Requests, NEW x, req' = [req EXCEPT ![r] = x], NEW k
  PROVE  Trying(k)' \subseteq Trying(k) \cup {r}
BY DEF Trying, At

\* A request that is no longer comparing a password has left Trying.
LEMMA TryingEnds ==
  ASSUME DOMAIN req = Requests, NEW r \in Requests, NEW x, req' = [req EXCEPT ![r] = x],
         x = None \/ x.pc # "verify", NEW k
  PROVE  Trying(k)' \subseteq Trying(k) \ {r}
BY DEF Trying, At

\* A key whose entry and failures stay, or are only pruned.
LEMMA KeyStays ==
  ASSUME TypeOK, NEW k \in LimiterKeys,
         KeyOK(attempts[k], recent[k], now, Cardinality(Trying(k))),
         now' = now, recent'[k] = recent[k],
         attempts'[k] = attempts[k] \/ attempts'[k] = PruneExpired[k],
         Trying(k)' \subseteq Trying(k)
  PROVE  KeyOK(attempts'[k], recent'[k], now', Cardinality(Trying(k)'))
<1>1. now \in Nat /\ LimiterTypeOK  BY AuthAssumption DEF TypeOK
<1>2. (attempts[k] # None => attempts[k] \in Entry(now)) /\ recent[k] \in Ages  BY <1>1, KeyTypes
<1>3. IsFiniteSet(Trying(k)) /\ Cardinality(Trying(k)) \in Nat  BY TryingType
<1>4. Cardinality(Trying(k)') \in Nat /\ Cardinality(Trying(k)') <= Cardinality(Trying(k))
  BY <1>3, FS_Subset, FS_CardinalityType
<1>5. PICK d : d = attempts'[k]  OBVIOUS
<1>6. KeyOK(d, recent[k], now, Cardinality(Trying(k))) /\ (d # None => d \in Entry(now))
  <2>1. CASE d = attempts[k]  BY <1>2, <2>1
  <2>2. CASE d # attempts[k]
    <3>1. d = IF attempts[k] # None /\ now - attempts[k].firstFailure >= Window
              THEN None ELSE attempts[k]
      BY <1>5, <2>2 DEF PruneExpired
    <3> QED BY <1>1, <1>2, <1>3, <3>1, KeyPruned
  <2> QED BY <2>1, <2>2
<1>7. PICK q : q = Cardinality(Trying(k)')  OBVIOUS
<1>8. KeyOK(d, recent[k], now, q)  BY <1>1, <1>2, <1>3, <1>4, <1>6, <1>7, KeyFewer
<1> QED BY <1>5, <1>7, <1>8

\* Each of the critical sections of the limiter keeps its bounds: Allow lets one more
\* try, RecordFailure turns one who tries into a failure.
LEMMA LimiterStep ==
  ASSUME LimiterInv, [Next]_vars
  PROVE  LimiterBound'
<1> SUFFICES ASSUME NEW k \in LimiterKeys
             PROVE  KeyOK(attempts'[k], recent'[k], now', Cardinality(Trying(k)'))
  BY DEF LimiterBound
<1> DEFINE p == Cardinality(Trying(k))
<1> USE AuthAssumption
<1>1. /\ TypeOK /\ now \in Nat /\ LimiterTypeOK /\ DOMAIN req = Requests
      /\ KeyOK(attempts[k], recent[k], now, p)
      /\ attempts[k] # None => attempts[k] \in Entry(now)
      /\ recent[k] \in Ages
  <2>1. TypeOK /\ now \in Nat /\ LimiterTypeOK /\ DOMAIN req = Requests
    BY DEF LimiterInv, TypeOK
  <2> QED BY <2>1, KeyTypes DEF LimiterInv, LimiterBound
<1>2. p \in Nat /\ p <= Cardinality(Requests) /\ IsFiniteSet(Trying(k))  BY TryingType
<1> HIDE DEF p
\* Everything that pruning leaves of the key.
<1>3. PICK d : d = PruneExpired[k]  OBVIOUS
<1>4. KeyOK(d, recent[k], now, p) /\ (d # None => d \in Entry(now) /\ now - d.firstFailure < Window)
  <2>1. d = IF attempts[k] # None /\ now - attempts[k].firstFailure >= Window
            THEN None ELSE attempts[k]
    BY <1>3 DEF PruneExpired
  <2> QED BY <1>1, <1>2, <2>1, KeyPruned
<1>5. ASSUME UNCHANGED <<now, attempts, recent>>, Trying(k)' \subseteq Trying(k)
      PROVE  KeyOK(attempts'[k], recent'[k], now', Cardinality(Trying(k)'))
  BY <1>1, <1>5, KeyStays DEF p
<1>6. ASSUME attempts' = PruneExpired, UNCHANGED <<now, recent>>, Trying(k)' \subseteq Trying(k)
      PROVE  KeyOK(attempts'[k], recent'[k], now', Cardinality(Trying(k)'))
  BY <1>1, <1>6, KeyStays DEF p
<1>7. CASE UNCHANGED vars
  <2>1. Trying(k)' \subseteq Trying(k)  BY <1>7 DEF vars, Trying, At
  <2> QED BY <1>5, <1>7, <2>1 DEF vars
<1>8. ASSUME NEW r \in Requests, NEW j \in LimiterKeys, BeginLogin(r, j)
      PROVE  KeyOK(attempts'[k], recent'[k], now', Cardinality(Trying(k)'))
  <2> DEFINE x == [op |-> "login", key |-> j, pc |-> "verify"]
             y == [op |-> "login", key |-> j, pc |-> "refused"]
  <2>1. attempts' = PruneExpired /\ UNCHANGED <<now, recent>>
    BY <1>8 DEF BeginLogin, Allow, Refuse
  <2>2. CASE Refuse(j) /\ req' = [req EXCEPT ![r] = y]
    <3>1. y.pc # "verify"  OBVIOUS
    <3> HIDE DEF y
    <3>2. Trying(k)' \subseteq Trying(k)  BY <1>1, <2>2, <3>1, TryingEnds
    <3> QED BY <1>6, <2>1, <3>2
  <2>3. CASE Allow(j) /\ req' = [req EXCEPT ![r] = x] /\ j = k
    <3>1. ~Exhausted(PruneExpired, k)  BY <2>3 DEF Allow
    <3>2. d # None => d.failures < MaxFailures
      BY <1>3, <1>4, <3>1, LimiterAssumption DEF Exhausted, Entry
    <3>3. PICK q : q = Cardinality(Trying(k)')  OBVIOUS
    <3>4. Trying(k)' \in SUBSET Requests  BY DEF Trying
    <3>5. q \in Nat /\ q <= Cardinality(Requests)  BY <3>3, <3>4, FS_Subset, FS_CardinalityType
    <3>6. KeyOK(d, recent[k], now, q)  BY <1>1, <1>2, <1>4, <3>2, <3>5, KeyAllowed
    <3> QED BY <1>3, <2>1, <3>3, <3>6
  <2>4. CASE Allow(j) /\ req' = [req EXCEPT ![r] = x] /\ j # k
    <3>1. Trying(k)' \subseteq Trying(k)  BY <1>1, <2>4 DEF Trying, At
    <3> QED BY <1>6, <2>1, <3>1
  <2> QED BY <1>8, <2>2, <2>3, <2>4 DEF BeginLogin
<1>9. ASSUME NEW r \in Requests, End(r) PROVE Trying(k)' \subseteq Trying(k) \ {r}
  BY <1>1, <1>9, TryingEnds DEF End
<1>10. ASSUME NEW r \in Requests, WrongPassword(r)
       PROVE  KeyOK(attempts'[k], recent'[k], now', Cardinality(Trying(k)'))
  <2> DEFINE j == req[r].key
  <2>1. /\ At(r, "verify") /\ RecordFailure(j) /\ now' = now
        /\ Trying(k)' \subseteq Trying(k) \ {r}
    BY <1>9, <1>10 DEF WrongPassword
  <2>2. CASE j # k
    <3>1. attempts'[k] = PruneExpired[k] /\ recent'[k] = recent[k]
      BY <1>1, <2>1, <2>2 DEF RecordFailure, PruneExpired, LimiterTypeOK
    <3> QED BY <1>1, <2>1, <3>1, KeyStays DEF p
  <2>3. CASE j = k
    <3> DEFINE new == [failures |-> 1, firstFailure |-> now]
               more == [failures |-> d.failures + 1, firstFailure |-> d.firstFailure]
    <3>1. attempts'[k] = IF d = None THEN new ELSE more
      BY <1>3, <2>1, <2>3 DEF RecordFailure, PruneExpired
    <3>2. PICK e : e = attempts'[k]  OBVIOUS
    <3>3. /\ e.failures = IF d = None THEN 1 ELSE d.failures + 1
          /\ e.firstFailure = IF d = None THEN now ELSE d.firstFailure
      BY <3>1, <3>2
    <3>4. e # None
      <4>1. d # None => d.failures + 1 \in Nat /\ d.firstFailure \in Nat
        BY <1>1, <1>4 DEF Entry
      <4>2. e \in [failures : Nat, firstFailure : Nat]  BY <1>1, <3>1, <3>2, <4>1
      <4> QED BY <4>2, LimiterAssumption
    <3>5. PICK h : h = recent'[k]  OBVIOUS
    <3>6. h[0] = recent[k][0] + 1 /\ \A a \in 1..(Window - 1) : h[a] = recent[k][a]
      <4>1. h = [recent[k] EXCEPT ![0] = @ + 1]
        BY <1>1, <2>1, <2>3, <3>5 DEF RecordFailure, LimiterTypeOK
      <4>2. 0 \in 0..(Window - 1) /\ 1..(Window - 1) \subseteq 0..(Window - 1)
        BY LimiterAssumption
      <4>3. PICK g : g = recent[k]  OBVIOUS
      <4>4. DOMAIN g = 0..(Window - 1)  BY <1>1, <4>3 DEF Ages
      <4>5. h = [g EXCEPT ![0] = g[0] + 1]  BY <4>1, <4>3
      <4>6. h[0] = g[0] + 1  BY <4>2, <4>4, <4>5
      <4>7. \A a \in 1..(Window - 1) : a # 0 /\ a \in DOMAIN g  BY <4>2, <4>4, LimiterAssumption
      <4>8. \A a \in 1..(Window - 1) : h[a] = g[a]  BY <4>5, <4>7
      <4> QED BY <4>3, <4>6, <4>8
    <3>7. r \in Trying(k)  BY <2>1, <2>3 DEF Trying
    <3>8. p # 0 /\ Cardinality(Trying(k) \ {r}) = p - 1 /\ IsFiniteSet(Trying(k) \ {r})
      BY <1>2, <3>7, FS_RemoveElement, FS_EmptySet DEF p
    <3>9. KeyOK(e, h, now, p - 1) /\ p - 1 \in Nat
      <4>1. KeyOK(e, h, now, p - 1)
        BY <1>1, <1>2, <1>4, <3>3, <3>4, <3>6, <3>8, KeyFailed
      <4> QED BY <1>2, <3>8, <4>1
    <3>10. PICK q : q = Cardinality(Trying(k)')  OBVIOUS
    <3>11. q \in Nat /\ q <= p - 1
      BY <2>1, <3>8, <3>10, FS_Subset, FS_CardinalityType
    <3>12. e \in Entry(now)
      <4>1. e.failures \in Nat \ {0} /\ e.firstFailure \in 0..now
        BY <1>1, <1>4, <3>3 DEF Entry
      <4> QED BY <1>1, <1>4, <3>1, <3>2, <4>1 DEF Entry
    <3>13. h \in Ages
      <4>1. TypeOK'  BY <1>1, TypeStep
      <4> QED BY <3>5, <4>1 DEF TypeOK, LimiterTypeOK, Ages
    <3>14. KeyOK(e, h, now, q)  BY <1>1, <3>9, <3>11, <3>12, <3>13, KeyFewer
    <3> QED BY <2>1, <3>2, <3>5, <3>10, <3>14
  <2> QED BY <2>2, <2>3
<1>11. ASSUME NEW r \in Requests, RightPassword(r)
       PROVE  KeyOK(attempts'[k], recent'[k], now', Cardinality(Trying(k)'))
  <2> DEFINE j == req[r].key
             x == [op |-> "login", user |-> req[r].key[2], pc |-> "build"]
  <2>1. RecordSuccess(j) /\ now' = now /\ req' = [req EXCEPT ![r] = x]
    BY <1>11 DEF RightPassword
  <2>2. CASE j = k
    <3>1. attempts'[k] = None /\ recent'[k] = NoFailures
      BY <1>1, <2>1, <2>2 DEF RecordSuccess, LimiterTypeOK
    <3> QED BY <3>1, KeyReset
  <2>3. CASE j # k
    <3>1. attempts'[k] = attempts[k] /\ recent'[k] = recent[k]
      BY <1>1, <2>1, <2>3 DEF RecordSuccess, LimiterTypeOK
    <3>2. x.pc # "verify"  OBVIOUS
    <3> HIDE DEF x
    <3>3. Trying(k)' \subseteq Trying(k)  BY <1>1, <2>1, <3>2, TryingEnds
    <3> QED BY <1>1, <2>1, <3>1, <3>3, KeyStays DEF p
  <2> QED BY <2>2, <2>3
<1>12. CASE Tick
  <2>1. LimiterTick /\ req' = req  BY <1>12 DEF Tick
  <2>2. Trying(k)' = Trying(k)  BY <2>1 DEF Trying, At
  <2>3. PICK h : h = recent'[k]  OBVIOUS
  <2>4. h[0] = 0 /\ \A a \in 1..(Window - 1) : h[a] = recent[k][a - 1]
    <3>1. h = [a \in 0..(Window - 1) |-> IF a = 0 THEN 0 ELSE recent[k][a - 1]]
      BY <2>1, <2>3 DEF LimiterTick
    <3>2. 0 \in 0..(Window - 1) /\ \A a \in 1..(Window - 1) : a \in 0..(Window - 1) /\ a # 0
      BY LimiterAssumption
    <3> QED BY <3>1, <3>2
  <2>5. KeyOK(attempts[k], h, now + 1, p)  BY <1>1, <1>2, <2>4, KeyTicked
  <2>6. attempts' = attempts /\ now' = now + 1  BY <2>1 DEF LimiterTick
  <2> QED BY <2>2, <2>3, <2>5, <2>6 DEF p
<1>13. CASE Restart
  <2>1. attempts'[k] = None /\ recent'[k] = NoFailures  BY <1>13 DEF Restart, LimiterRestart
  <2> QED BY <2>1, KeyReset
<1>14. ASSUME NEW r \in Requests, NEW op \in {"me", "refresh", "logout"}, NEW t \in issued,
              PresentToken(r, op, t)
       PROVE  KeyOK(attempts'[k], recent'[k], now', Cardinality(Trying(k)'))
  <2> DEFINE x == [op |-> op, user |-> t.user, tok |-> t, pc |-> "check", barred |-> t \in gone]
  <2>1. req' = [req EXCEPT ![r] = x]  BY <1>14 DEF PresentToken
  <2>2. x.pc # "verify"  OBVIOUS
  <2> HIDE DEF x
  <2>3. Trying(k)' \subseteq Trying(k)  BY <1>1, <2>1, <2>2, TryingEnds
  <2> QED BY <1>5, <1>14, <2>3 DEF PresentToken
<1>15. ASSUME NEW r \in Requests, NEW pc \in {"in", "build"}, Goto(r, pc), req[r] # None
       PROVE  Trying(k)' \subseteq Trying(k)
  <2> DEFINE x == [req[r] EXCEPT !.pc = pc]
  <2>1. req' = [req EXCEPT ![r] = x]  BY <1>15 DEF Goto
  <2>2. req[r] \in States  BY <1>1, <1>15 DEF TypeOK, States
  <2>3. x.pc # "verify"  BY <2>2 DEF States, LoginStates, BearerStates
  <2> HIDE DEF x
  <2> QED BY <1>1, <2>1, <2>3, TryingEnds
<1>16. ASSUME NEW r \in Requests, RevocationTTL(r)
       PROVE  KeyOK(attempts'[k], recent'[k], now', Cardinality(Trying(k)'))
  <2> DEFINE x == [op |-> req[r].op, user |-> req[r].user, tok |-> req[r].tok, pc |-> "revoke",
                   barred |-> req[r].barred, ttl |-> AcceptedUntil(req[r].tok) - now]
  <2>1. End(r) \/ req' = [req EXCEPT ![r] = x]  BY <1>16 DEF RevocationTTL
  <2>2. x.pc # "verify"  OBVIOUS
  <2> HIDE DEF x
  <2>3. Trying(k)' \subseteq Trying(k)  BY <1>1, <1>9, <2>1, <2>2, TryingEnds
  <2> QED BY <1>5, <1>16, <2>3 DEF RevocationTTL
<1>17. ASSUME NEW r \in Requests,
              BuildToken(r) \/ Serve(r) \/ RevokeFails(r) \/ Fail(r) \/ CheckRevoked(r) \/ RevokeToken(r)
       PROVE  KeyOK(attempts'[k], recent'[k], now', Cardinality(Trying(k)'))
  <2>1. UNCHANGED <<now, attempts, recent>> /\ req[r] # None
    BY <1>17 DEF BuildToken, Serve, RevokeFails, Fail, CheckRevoked, RevokeToken, At
  <2>2. End(r) \/ Goto(r, "in") \/ Goto(r, "build")
    BY <1>17 DEF BuildToken, Serve, RevokeFails, Fail, CheckRevoked, RevokeToken
  <2>3. Trying(k)' \subseteq Trying(k)  BY <1>9, <1>15, <2>1, <2>2
  <2> QED BY <1>5, <2>1, <2>3
<1>18. ASSUME NEW r \in Requests, ReplyRefused(r)
       PROVE  KeyOK(attempts'[k], recent'[k], now', Cardinality(Trying(k)'))
  <2>1. Trying(k)' \subseteq Trying(k)  BY <1>9, <1>18 DEF ReplyRefused
  <2> QED BY <1>6, <1>18, <2>1 DEF ReplyRefused, RetryAfter
<1> QED
  BY <1>7, <1>8, <1>10, <1>11, <1>12, <1>13, <1>14, <1>16, <1>17, <1>18 DEF Next

\* The map of the limiter is empty at the start.
LEMMA LimiterFirst == Init => LimiterBound
<1> SUFFICES ASSUME Init, NEW k \in LimiterKeys
             PROVE  KeyOK(attempts[k], recent[k], now, Cardinality(Trying(k)))
  BY DEF LimiterBound
<1>1. attempts[k] = None /\ recent[k] = NoFailures  BY DEF Init, LimiterInit
<1> QED BY <1>1, KeyReset

\* The invariant of the limiter, for any limit, any window and any number of
\* requests at once.
THEOREM LimiterInvariant == Spec => []LimiterInv
<1>1. LimiterInv /\ [Next]_vars => LimiterInv'
  BY LimiterStep, TypeStep DEF LimiterInv
<1>2. Init => LimiterInv  BY TypeInit, LimiterFirst DEF LimiterInv
<1> QED BY <1>1, <1>2, PTL DEF Spec

\* The attempts of a key within one window length stay below two full windows,
\* however many requests Allow let in together (GuessesBounded).
THEOREM GuessesBoundedHolds == Spec => []GuessesBounded
<1>1. LimiterInv => GuessesBounded
  <2> SUFFICES ASSUME LimiterInv, NEW k \in LimiterKeys
               PROVE  SumFunction(recent[k]) < 2 * Cap
    BY DEF GuessesBounded, Cap
  <2>1. now \in Nat /\ LimiterTypeOK  BY AuthAssumption DEF LimiterInv, TypeOK
  <2>2. (attempts[k] # None => attempts[k] \in Entry(now)) /\ recent[k] \in Ages
    BY <2>1, KeyTypes
  <2>3. KeyOK(attempts[k], recent[k], now, Cardinality(Trying(k)))
    BY DEF LimiterInv, LimiterBound
  <2>4. SumFunction(recent[k]) = First(recent[k], Window)  BY <2>2, SumIsFirst DEF Ages
  <2>5. First(recent[k], Window) \in Nat /\ Cardinality(Trying(k)) \in Nat
    BY <2>2, AgesAdd, TryingType
  <2>6. First(recent[k], Window) <= Cap + Cap - 1
    <3>1. CASE attempts[k] = None  BY <2>3, <2>5, <3>1, CapType DEF KeyOK
    <3>2. CASE attempts[k] # None
      <4>1. attempts[k].failures \in Nat  BY <2>2, <3>2 DEF Entry
      <4>2. attempts[k].failures + Cardinality(Trying(k)) <= Cap
            /\ First(recent[k], Window) <= attempts[k].failures + Cap - 1
        BY <2>3, <3>2 DEF KeyOK
      <4> QED BY <2>5, <4>1, <4>2, CapType
    <3> QED BY <3>1, <3>2
  <2> QED BY <2>4, <2>5, <2>6, CapType
<1> QED BY <1>1, LimiterInvariant, PTL

\* A key that is refused has failed MaxFailures times within the last Window
\* ticks and since its last success (RefusedOnlyForCause).
THEOREM RefusedOnlyForCauseHolds == Spec => []RefusedOnlyForCause
<1>1. LimiterInv => RefusedOnlyForCause
  <2> SUFFICES ASSUME LimiterInv, NEW k \in LimiterKeys, Exhausted(PruneExpired, k)
               PROVE  SumFunction(recent[k]) >= MaxFailures
    BY DEF RefusedOnlyForCause
  <2> DEFINE n == attempts[k].failures
             age == now - attempts[k].firstFailure
  <2>1. now \in Nat /\ LimiterTypeOK  BY AuthAssumption DEF LimiterInv, TypeOK
  <2>2. (attempts[k] # None => attempts[k] \in Entry(now)) /\ recent[k] \in Ages
    BY <2>1, KeyTypes
  <2>3. attempts[k] # None /\ ~(age >= Window) /\ n >= MaxFailures
    BY DEF Exhausted, PruneExpired
  <2>4. age \in Nat /\ n \in Nat /\ Window \in Nat /\ MaxFailures \in Nat
    BY <2>1, <2>2, <2>3, LimiterAssumption DEF Entry
  <2>5. age < Window => First(recent[k], age + 1) = n
    BY <2>3 DEF LimiterInv, LimiterBound, KeyOK
  <2>6. SumFunction(recent[k]) = First(recent[k], Window)  BY <2>2, SumIsFirst DEF Ages
  <2> HIDE DEF n, age
  <2>7. age < Window /\ age + 1 \in 0..Window  BY <2>3, <2>4
  <2>8. First(recent[k], age + 1) <= First(recent[k], Window)
        /\ First(recent[k], Window) \in Nat
    <3>1. Window \in 0..Window  BY <2>4
    <3> QED BY <2>2, <2>7, <3>1, AgesAdd
  <2> QED BY <2>3, <2>4, <2>5, <2>6, <2>7, <2>8
<1> QED BY <1>1, LimiterInvariant, PTL

=============================================================================
