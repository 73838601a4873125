-------------------------------- MODULE Auth --------------------------------
(***************************************************************************)
(* Logins and tokens: modules/auth/handler.go, token_revoker.go and        *)
(* middleware/auth.go, on top of the login limiter.                        *)
(*                                                                         *)
(* A token is a signed record of its user, the second it was issued in and *)
(* the second it expires in, and of nothing else: two tokens of one user   *)
(* issued in the same second are the same string.  A tick is a second.     *)
(* Logging out stores the token in Redis for as long as it would still be  *)
(* accepted.  Requests interleave between the critical sections of the     *)
(* limiter and the calls to PostgreSQL and Redis; Redis answers late or    *)
(* not at all, and the process may stop and start, without Redis if that   *)
(* does not answer while it starts.                                        *)
(***************************************************************************)
EXTENDS LoginLimiter, FiniteSets

CONSTANTS
  Requests,   \* HTTP requests in flight
  Users,      \* user names, known or not
  Addresses,  \* client addresses
  Lifetime,   \* JWT_TTL
  Leeway,     \* JWT_CLOCK_SKEW
  MaxTime,    \* bound: the clock
  Faults      \* whether calls fail and processes stop in this instance

ASSUME AuthAssumption ==
  /\ Lifetime \in Nat \ {0} /\ Leeway \in Nat /\ MaxTime \in Nat
  /\ LimiterKeys = Addresses \X Users /\ Faults \in BOOLEAN
  /\ IsFiniteSet(Requests) /\ Requests # {}

VARIABLES
  req,      \* per request: what it has read and where it is, or None
  issued,   \* tokens handed out
  revoked,  \* Redis: until when a token is stored as revoked; 0 if it is not
  redis,    \* whether this process reached Redis when it started
  gone      \* history: tokens whose revocation was stored and reported as done

vars == <<now, attempts, recent, req, issued, revoked, redis, gone>>

Tokens == [user : Users, iat : 0..MaxTime]

\* ParseToken at the current second: jwt accepts the leeway after exp.
AcceptedUntil(t) == t.iat + Lifetime + Leeway
ParseToken(t) == now < AcceptedUntil(t)

\* Exists on the key of the token; without Redis nothing is revoked.
IsTokenRevoked(t) == redis /\ now < revoked[t]

\* cache.New: one ping decides for the life of the process.
PingAnswers == IF Faults THEN BOOLEAN ELSE {TRUE}

Init ==
  /\ now = 0
  /\ LimiterInit
  /\ req = [r \in Requests |-> None]
  /\ issued = {}
  /\ revoked = [t \in Tokens |-> 0]
  /\ redis \in PingAnswers
  /\ gone = {}

End(r) == req' = [req EXCEPT ![r] = None]
Goto(r, pc) == req' = [req EXCEPT ![r].pc = pc]
At(r, pc) == req[r] # None /\ req[r].pc = pc

-----------------------------------------------------------------------------
(* login                                                                   *)

BeginLogin(r, k) ==
  /\ req[r] = None
  /\ \/ Allow(k) /\ req' = [req EXCEPT ![r] = [op |-> "login", key |-> k, pc |-> "verify"]]
     \/ Refuse(k) /\ req' = [req EXCEPT ![r] = [op |-> "login", key |-> k, pc |-> "refused"]]
  /\ UNCHANGED <<now, issued, revoked, redis, gone>>

\* RateLimitedWithPolicy(RetryAfter(key)).
ReplyRefused(r) ==
  /\ At(r, "refused")
  /\ RetryAfter(req[r].key)
  /\ End(r)
  /\ UNCHANGED <<now, issued, revoked, redis, gone>>

\* No such user, or another password.
WrongPassword(r) ==
  /\ At(r, "verify")
  /\ RecordFailure(req[r].key)
  /\ End(r)
  /\ UNCHANGED <<now, issued, revoked, redis, gone>>

\* The password is right and EnsureDefaultDataForUser succeeds.
RightPassword(r) ==
  /\ At(r, "verify")
  /\ RecordSuccess(req[r].key)
  /\ req' = [req EXCEPT ![r] = [op |-> "login", user |-> req[r].key[2], pc |-> "build"]]
  /\ UNCHANGED <<now, issued, revoked, redis, gone>>

\* respondWithToken: the same token again if one was issued this second.
BuildToken(r) ==
  /\ At(r, "build")
  /\ issued' = issued \cup {[user |-> req[r].user, iat |-> now]}
  /\ End(r)
  /\ UNCHANGED <<now, attempts, recent, revoked, redis, gone>>

-----------------------------------------------------------------------------
(* RequireAuthWithRevocation                                               *)

\* A token the server refuses to parse, or none, changes nothing.
PresentToken(r, op, t) ==
  /\ req[r] = None
  /\ t \in issued /\ ParseToken(t)
  /\ req' = [req EXCEPT ![r] = [op |-> op, user |-> t.user, tok |-> t, pc |-> "check",
                                barred |-> t \in gone]]
  /\ UNCHANGED <<now, attempts, recent, issued, revoked, redis, gone>>

\* Faulty variant: an error of Redis lets the request in.
CheckRevokedFailsOpen(r) ==
  /\ At(r, "check")
  /\ \/ ~IsTokenRevoked(req[r].tok) /\ Goto(r, "in")
     \/ IsTokenRevoked(req[r].tok) /\ End(r)
     \/ Faults /\ redis /\ Goto(r, "in")
  /\ UNCHANGED <<now, attempts, recent, issued, revoked, redis, gone>>

\* An error of Redis refuses the request, as a stored revocation does.
CheckRevoked(r) ==
  /\ At(r, "check")
  /\ \/ ~IsTokenRevoked(req[r].tok) /\ Goto(r, "in")
     \/ (IsTokenRevoked(req[r].tok) \/ (Faults /\ redis)) /\ End(r)
  /\ UNCHANGED <<now, attempts, recent, issued, revoked, redis, gone>>

\* me and every other handler that leaves the sessions alone.
Serve(r) ==
  /\ At(r, "in") /\ req[r].op = "me"
  /\ End(r)
  /\ UNCHANGED <<now, attempts, recent, issued, revoked, redis, gone>>

-----------------------------------------------------------------------------
(* logout and refresh                                                      *)

\* Faulty variant: the revocation ends when the token expires.
RevocationTTLToExpiry(r) ==
  /\ At(r, "in") /\ req[r].op \in {"refresh", "logout"}
  /\ LET t == req[r].tok IN
     IF ParseToken(t)
     THEN req' = [req EXCEPT ![r] = [op |-> @.op, user |-> @.user, tok |-> t, pc |-> "revoke",
                                     barred |-> @.barred,
                                     ttl |-> IF now < t.iat + Lifetime
                                             THEN t.iat + Lifetime - now ELSE 0]]
     ELSE End(r)
  /\ UNCHANGED <<now, attempts, recent, issued, revoked, redis, gone>>

\* refresh has found its user; tokenRevocationTTL parses the token again, which
\* fails if it expired since, and takes the time that is left.
RevocationTTL(r) ==
  /\ At(r, "in") /\ req[r].op \in {"refresh", "logout"}
  /\ LET t == req[r].tok IN
     IF ParseToken(t)
     THEN req' = [req EXCEPT ![r] = [op |-> @.op, user |-> @.user, tok |-> t, pc |-> "revoke",
                                     barred |-> @.barred, ttl |-> AcceptedUntil(t) - now]]
     ELSE End(r)
  /\ UNCHANGED <<now, attempts, recent, issued, revoked, redis, gone>>

\* SET with the lifetime taken before, counted from now.
StoreRevocation(r) == revoked' = [revoked EXCEPT ![req[r].tok] = now + req[r].ttl]

\* Without Redis there is nothing to store, and that is no error.
RevokeToken(r) ==
  /\ At(r, "revoke")
  /\ IF redis THEN StoreRevocation(r) /\ gone' = gone \cup {req[r].tok}
     ELSE UNCHANGED <<revoked, gone>>
  /\ IF req[r].op = "refresh" THEN Goto(r, "build") ELSE End(r)
  /\ UNCHANGED <<now, attempts, recent, issued, redis>>

\* Faulty variant: refresh goes on without the revocation.
RevokeFailsQuietly(r) ==
  /\ Faults /\ redis
  /\ At(r, "revoke")
  /\ UNCHANGED revoked \/ StoreRevocation(r)
  /\ IF req[r].op = "refresh" THEN Goto(r, "build") ELSE End(r)
  /\ UNCHANGED <<now, attempts, recent, issued, redis, gone>>

\* SET fails, or only its answer is lost: the reply is an error.
RevokeFails(r) ==
  /\ Faults /\ redis
  /\ At(r, "revoke")
  /\ UNCHANGED revoked \/ StoreRevocation(r)
  /\ End(r)
  /\ UNCHANGED <<now, attempts, recent, issued, redis, gone>>

-----------------------------------------------------------------------------

\* A query of login, me or refresh fails, or its user is gone: the request ends
\* with an error and has recorded nothing.
Fail(r) ==
  /\ Faults
  /\ At(r, "verify") \/ (At(r, "in") /\ req[r].op # "logout")
  /\ End(r)
  /\ UNCHANGED <<now, attempts, recent, issued, revoked, redis, gone>>

\* Entries of Redis whose lifetime has ended count as absent.
Tick ==
  /\ now < MaxTime
  /\ LimiterTick
  /\ revoked' = [t \in Tokens |-> IF revoked[t] <= now + 1 THEN 0 ELSE revoked[t]]
  /\ UNCHANGED <<req, issued, redis, gone>>

\* The process stops and starts: Redis and the tokens are elsewhere.
Restart ==
  /\ Faults
  /\ LimiterRestart
  /\ req' = [r \in Requests |-> None]
  /\ redis' \in PingAnswers
  /\ UNCHANGED <<now, issued, revoked, gone>>

Next ==
  \/ \E r \in Requests, k \in LimiterKeys : BeginLogin(r, k)
  \/ \E r \in Requests, op \in {"me", "refresh", "logout"}, t \in issued : PresentToken(r, op, t)
  \/ \E r \in Requests :
       \/ ReplyRefused(r) \/ WrongPassword(r) \/ RightPassword(r) \/ BuildToken(r)
       \/ CheckRevoked(r) \/ Serve(r)
       \/ RevocationTTL(r) \/ RevokeToken(r) \/ RevokeFails(r)
       \/ Fail(r)
  \/ Tick
  \/ Restart

Spec == Init /\ [][Next]_vars

-----------------------------------------------------------------------------
(* Properties.                                                             *)

LoginStates ==
  [op : {"login"}, key : LimiterKeys, pc : {"verify", "refused"}]
    \cup [op : {"login"}, user : Users, pc : {"build"}]
BearerStates ==
  [op : {"me", "refresh", "logout"}, user : Users, tok : Tokens, pc : {"check", "in"},
   barred : BOOLEAN]
    \cup [op : {"refresh", "logout"}, user : Users, tok : Tokens, pc : {"revoke", "build"},
          barred : BOOLEAN, ttl : Nat \ {0}]

\* Types: among them, that the lifetime of a revocation is positive, which
\* RevokeToken needs to store it at all.
TypeOK ==
  /\ now \in 0..MaxTime
  /\ LimiterTypeOK
  /\ \A r \in Requests : req[r] # None => req[r] \in LoginStates \cup BearerStates
  /\ DOMAIN req = Requests
  /\ issued \subseteq Tokens
  /\ revoked \in [Tokens -> Nat]
  /\ redis \in BOOLEAN
  /\ gone \subseteq Tokens

\* A request that passed the middleware.
Admitted(r) == req[r] # None /\ req[r].pc \in {"in", "revoke"}

\* A token whose revocation was stored and reported before a request arrived
\* does not get it through, unless the token expired while the request waited:
\* the entry in Redis outlives every moment at which the token still parses,
\* however late Redis stored it, and processes that stop or run without Redis in
\* between change nothing for one that has it (handler.go:211-220,
\* middleware/auth.go:132-138, 188-201, token_revoker.go:29-44).
RevokedStaysOut ==
  \A r \in Requests :
    redis /\ Admitted(r) /\ req[r].op # "login" /\ req[r].barred => ~ParseToken(req[r].tok)

\* A refresh hands out the next token only while the one it replaces is out of
\* use for good: stored as revoked until it expires, or expired
\* (handler.go:115-126).
RotationRevokes ==
  \A r \in Requests :
    redis /\ At(r, "build") /\ req[r].op = "refresh" =>
      AcceptedUntil(req[r].tok) <= now \/ revoked[req[r].tok] >= AcceptedUntil(req[r].tok)

\* The attempts of a key within Window ticks and since its last success, however
\* many run at once, stay below two full windows: requests that Allow let in
\* together may all fail, and a window may end just after a full one began
\* (rate_limiter.go:34-48, 74-92).
GuessesBounded ==
  \A k \in LimiterKeys :
    SumFunction(recent[k]) < 2 * (MaxFailures - 1 + Cardinality(Requests))

\* What a refresh hands out is not a token it, or anyone, has just revoked.
RefreshIsFresh ==
  [][\A r \in Requests :
       BuildToken(r) /\ req[r].op = "refresh" => [user |-> req[r].user, iat |-> now] \notin gone]_vars

=============================================================================
