---------------------------- MODULE LoginLimiter ----------------------------
(***************************************************************************)
(* The login limiter of one process (modules/auth/rate_limiter.go): a map  *)
(* from address and user name to the failures of a window that begins at   *)
(* the first of them.  Each operation below is one critical section under  *)
(* the limiter's mutex; Auth calls them in the order login does.           *)
(***************************************************************************)
EXTENDS Naturals, Functions

CONSTANTS
  LimiterKeys,  \* client address and user name, folded
  MaxFailures,  \* LOGIN_RATE_LIMIT_MAX_FAILURES
  Window,       \* LOGIN_RATE_LIMIT_WINDOW, in ticks
  None

ASSUME LimiterAssumption ==
  /\ MaxFailures \in Nat \ {0} /\ Window \in Nat \ {0}
  /\ None \notin [failures : Nat, firstFailure : Nat]

VARIABLES
  now,       \* the clock, in ticks
  attempts,  \* failures and firstFailure of each key, or None
  recent     \* history: the failures of the last Window ticks, by age, since
             \* the last successful login

limiterVars == <<attempts, recent>>

NoFailures == [a \in 0..(Window - 1) |-> 0]

LimiterInit ==
  /\ attempts = [k \in LimiterKeys |-> None]
  /\ recent = [k \in LimiterKeys |-> NoFailures]

-----------------------------------------------------------------------------

\* pruneExpired: windows that have ended are dropped, of every key.
PruneExpired ==
  [k \in LimiterKeys |->
     IF attempts[k] # None /\ now - attempts[k].firstFailure >= Window
     THEN None ELSE attempts[k]]

\* Whether k has used up its failures.
Exhausted(tab, k) == tab[k] # None /\ tab[k].failures >= MaxFailures

\* Faulty variant: one failure too many.
AllowOneMore(k) ==
  /\ PruneExpired[k] # None => PruneExpired[k].failures <= MaxFailures
  /\ attempts' = PruneExpired
  /\ UNCHANGED recent

\* Allow answers true.
Allow(k) ==
  /\ ~Exhausted(PruneExpired, k)
  /\ attempts' = PruneExpired
  /\ UNCHANGED recent

\* Allow answers false.
Refuse(k) ==
  /\ Exhausted(PruneExpired, k)
  /\ attempts' = PruneExpired
  /\ UNCHANGED recent

\* RetryAfter prunes too: the window may have ended since Allow.
RetryAfter(k) == attempts' = PruneExpired /\ UNCHANGED recent

\* Faulty variant: the window moves along with the failures.
RecordFailureMoves(k) ==
  /\ attempts' = [PruneExpired EXCEPT ![k] =
       [failures |-> IF @ = None THEN 1 ELSE @.failures + 1, firstFailure |-> now]]
  /\ recent' = [recent EXCEPT ![k][0] = @ + 1]

\* The first failure begins a window, later ones do not move it.
RecordFailure(k) ==
  /\ attempts' = [PruneExpired EXCEPT ![k] =
       IF @ = None THEN [failures |-> 1, firstFailure |-> now]
       ELSE [failures |-> @.failures + 1, firstFailure |-> @.firstFailure]]
  /\ recent' = [recent EXCEPT ![k][0] = @ + 1]

RecordSuccess(k) ==
  /\ attempts' = [attempts EXCEPT ![k] = None]
  /\ recent' = [recent EXCEPT ![k] = NoFailures]

\* The clock moves; the map does not until it is looked at.
LimiterTick ==
  /\ now' = now + 1
  /\ recent' = [k \in LimiterKeys |->
       [a \in 0..(Window - 1) |-> IF a = 0 THEN 0 ELSE recent[k][a - 1]]]
  /\ UNCHANGED attempts

\* The map is lost with the process.
LimiterRestart ==
  /\ attempts' = [k \in LimiterKeys |-> None]
  /\ recent' = [k \in LimiterKeys |-> NoFailures]

-----------------------------------------------------------------------------

LimiterTypeOK ==
  /\ DOMAIN attempts = LimiterKeys
  /\ \A k \in LimiterKeys : attempts[k] # None =>
       attempts[k] \in [failures : Nat \ {0}, firstFailure : 0..now]
  /\ recent \in [LimiterKeys -> [0..(Window - 1) -> Nat]]

\* A key that is refused did fail MaxFailures times within the last Window
\* ticks and since its last success: nobody is kept out for older failures
\* (rate_limiter.go:43-47, 84-91).
RefusedOnlyForCause ==
  \A k \in LimiterKeys :
    Exhausted(PruneExpired, k) => SumFunction(recent[k]) >= MaxFailures

=============================================================================
