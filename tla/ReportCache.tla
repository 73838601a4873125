----------------------------- MODULE ReportCache -----------------------------
(***************************************************************************)
(* The report cache of one user in Redis (modules/reports/service.go,      *)
(* modules/transactions/cache.go, cache/redis.go).                         *)
(*                                                                         *)
(* What the reports are computed from is abstracted to a version number:   *)
(* each committed change of the user's transactions, accounts, categories  *)
(* or budgets makes the next version.  A report is the versions its        *)
(* queries read, one after the other and in no common transaction.  The    *)
(* writers are the handlers: they commit first and delete the cached       *)
(* reports afterwards, key by key, with SCAN and DEL.                      *)
(***************************************************************************)
EXTENDS Naturals, Sequences, FiniteSets

CONSTANTS
  Readers,    \* handlers that compute a report
  Writers,    \* handlers that changed something and invalidate
  Keys,       \* cached reports of the user: periods, filters, granularities
  Parts,      \* queries in one report
  TTL,        \* lifetime of an entry in ticks
  MaxFill,    \* ticks until the request deadline ends the queries
  MaxStore,   \* ticks from the last query until Redis has the report or never will
  ScanCount,  \* keys one SCAN call looks at
  MaxWrites,  \* bound: versions
  WriteOps,   \* who writes in this instance: "module", "import"
  Faults,     \* whether Redis calls and queries may fail, processes stop
  None

ASSUME ReportCacheAssumption ==
  /\ Parts \in Nat \ {0} /\ TTL \in Nat \ {0} /\ MaxFill \in Nat /\ MaxStore \in Nat
  /\ ScanCount \in Nat \ {0} /\ MaxWrites \in Nat
  /\ WriteOps \subseteq {"module", "import"} /\ Faults \in BOOLEAN

VARIABLES
  data,   \* version the database holds
  cache,  \* Redis: the entry of each key, or None
  fill,   \* per reader: the report being computed, or None
  sweep,  \* per writer: the invalidation under way, or None
  swept,  \* history: versions whose invalidation went through
  age     \* history: ticks since each version was committed

vars == <<data, cache, fill, sweep, swept, age>>

Versions == 0..MaxWrites
MaxAge == TTL + MaxFill + MaxStore      \* bound: older versions are all alike

Init ==
  /\ data = 0
  /\ cache = [k \in Keys |-> None]
  /\ fill = [r \in Readers |-> None]
  /\ sweep = [w \in Writers |-> None]
  /\ swept = {}
  /\ age = [v \in 1..MaxWrites |-> 0]

-----------------------------------------------------------------------------
(* reports.Service.Summary *)

\* Faulty variant: a hit gives the entry a new lifetime.
HitRenews(k) ==
  /\ cache[k] # None
  /\ cache' = [cache EXCEPT ![k].left = TTL]
  /\ UNCHANGED <<data, fill, sweep, swept, age>>

\* The cached report is the reply.
Hit(k) == cache[k] # None /\ UNCHANGED vars

\* The deadline of the request is that of its queries; SetJSON has another one.
Querying(f) == Len(f.val) < Parts
OutOfTime(f) == IF Querying(f) THEN f.spent = MaxFill ELSE f.late = MaxStore

\* A miss, or a Redis error, which Summary treats as one.
StartFill(r, k) ==
  /\ fill[r] = None
  /\ cache[k] = None \/ Faults
  /\ fill' = [fill EXCEPT ![r] = [key |-> k, val |-> << >>, spent |-> 0, late |-> 0]]
  /\ UNCHANGED <<data, cache, sweep, swept, age>>

Query(r) ==
  /\ fill[r] # None
  /\ Querying(fill[r])
  /\ fill' = [fill EXCEPT ![r].val = Append(@, data)]
  /\ UNCHANGED <<data, cache, sweep, swept, age>>

\* Faulty variant: the error of a query is dropped.
StorePartial(r) ==
  /\ fill[r] # None
  /\ cache' = [cache EXCEPT ![fill[r].key] =
                 [val |-> fill[r].val, put |-> data, left |-> TTL]]
  /\ fill' = [fill EXCEPT ![r] = None]
  /\ UNCHANGED <<data, sweep, swept, age>>

\* SetJSON of the finished report; no version is compared.  Its context has no
\* deadline and no cancellation of the request, but a second of its own.
Store(r) ==
  /\ fill[r] # None
  /\ Len(fill[r].val) = Parts
  /\ cache' = [cache EXCEPT ![fill[r].key] =
                 [val |-> fill[r].val, put |-> data, left |-> TTL]]
  /\ fill' = [fill EXCEPT ![r] = None]
  /\ UNCHANGED <<data, sweep, swept, age>>

\* A query or SetJSON fails, the client goes away, the deadline of the request
\* (middleware.RequestTimeout) ends a query, or that of SetJSON has passed.
Abandon(r) ==
  /\ fill[r] # None
  /\ Faults \/ OutOfTime(fill[r])
  /\ fill' = [fill EXCEPT ![r] = None]
  /\ UNCHANGED <<data, cache, sweep, swept, age>>

-----------------------------------------------------------------------------
(* The writers.                                                            *)

NextVersion ==
  /\ data < MaxWrites
  /\ data' = data + 1
  /\ age' = [age EXCEPT ![data + 1] = 0]

\* transactions, accounts, categories, budgets: the change is committed, then
\* InvalidateUser begins.
Commit(w) ==
  /\ "module" \in WriteOps
  /\ sweep[w] = None
  /\ NextVersion
  /\ sweep' = [sweep EXCEPT ![w] = [ver |-> data + 1, todo |-> Keys, found |-> {}]]
  /\ UNCHANGED <<cache, fill, swept>>

\* dataio: CreateManyWithDB in a transaction of its own, and no invalidation.
Import ==
  /\ "import" \in WriteOps
  /\ NextVersion
  /\ UNCHANGED <<cache, fill, sweep, swept>>

\* Faulty variant: one SCAN call, its cursor ignored.
ScanOnce(w) ==
  /\ sweep[w] # None /\ sweep[w].found = {}
  /\ \E B \in SUBSET sweep[w].todo :
       /\ B # {} /\ Cardinality(B) <= ScanCount
       /\ sweep' = [sweep EXCEPT ![w].todo = {},
                                 ![w].found = {k \in B : cache[k] # None}]
  /\ UNCHANGED <<data, cache, fill, swept, age>>

\* SCAN: every key is looked at once before the cursor is back at 0, in an
\* order Redis chooses.
Scan(w) ==
  /\ sweep[w] # None /\ sweep[w].found = {}
  /\ \E B \in SUBSET sweep[w].todo :
       /\ B # {} /\ Cardinality(B) <= ScanCount
       /\ sweep' = [sweep EXCEPT ![w].todo = @ \ B,
                                 ![w].found = {k \in B : cache[k] # None}]
  /\ UNCHANGED <<data, cache, fill, swept, age>>

\* DEL of the keys the last SCAN returned.
Del(w) ==
  /\ sweep[w] # None /\ sweep[w].found # {}
  /\ cache' = [k \in Keys |-> IF k \in sweep[w].found THEN None ELSE cache[k]]
  /\ sweep' = [sweep EXCEPT ![w].found = {}]
  /\ UNCHANGED <<data, fill, swept, age>>

EndSweep(w) ==
  /\ sweep[w] # None /\ sweep[w].todo = {} /\ sweep[w].found = {}
  /\ sweep' = [sweep EXCEPT ![w] = None]
  /\ swept' = swept \cup {sweep[w].ver}
  /\ UNCHANGED <<data, cache, fill, age>>

\* Redis is closed, fails or takes more than 2 s, or the process stops: the
\* keys not yet deleted stay, and nobody learns of it.
LoseSweep(w) ==
  /\ Faults
  /\ sweep[w] # None
  /\ sweep' = [sweep EXCEPT ![w] = None]
  /\ UNCHANGED <<data, cache, fill, swept, age>>

-----------------------------------------------------------------------------
\* Time passes; Redis drops the entries whose lifetime ends.
Tick ==
  /\ \A r \in Readers : fill[r] # None => ~OutOfTime(fill[r])
  /\ cache' = [k \in Keys |->
       IF cache[k] = None THEN None
       ELSE IF cache[k].left = 1 THEN None
       ELSE [cache[k] EXCEPT !.left = @ - 1]]
  /\ fill' = [r \in Readers |->
       IF fill[r] = None THEN None
       ELSE IF Querying(fill[r]) THEN [fill[r] EXCEPT !.spent = @ + 1]
       ELSE [fill[r] EXCEPT !.late = @ + 1]]
  /\ age' = [v \in 1..MaxWrites |->
       IF v <= data /\ age[v] < MaxAge THEN age[v] + 1 ELSE age[v]]
  /\ UNCHANGED <<data, sweep, swept>>

Next ==
  \/ \E k \in Keys : Hit(k)
  \/ \E r \in Readers, k \in Keys : StartFill(r, k)
  \/ \E r \in Readers : Query(r) \/ Store(r) \/ Abandon(r)
  \/ \E w \in Writers : Commit(w) \/ Scan(w) \/ Del(w) \/ EndSweep(w) \/ LoseSweep(w)
  \/ Import
  \/ Tick

Spec == Init /\ [][Next]_vars

-----------------------------------------------------------------------------
(* Properties.                                                             *)

Reports == [1..Parts -> Versions]

\* Types: what is cached is a whole report, made of versions that existed.
TypeOK ==
  /\ data \in Versions
  /\ \A k \in Keys : cache[k] # None =>
       /\ cache[k].val \in [1..Parts -> 0..data]
       /\ cache[k].put \in 0..data /\ cache[k].left \in 1..TTL
  /\ \A r \in Readers : fill[r] # None =>
       /\ fill[r].key \in Keys /\ fill[r].spent \in 0..MaxFill /\ fill[r].late \in 0..MaxStore
       /\ Len(fill[r].val) <= Parts
       /\ \A i \in DOMAIN fill[r].val : fill[r].val[i] \in 0..data
  /\ \A w \in Writers : sweep[w] # None =>
       sweep[w].ver \in 1..data /\ sweep[w].todo \subseteq Keys /\ sweep[w].found \subseteq Keys
  /\ swept \subseteq 1..data
  /\ age \in [1..MaxWrites -> 0..MaxAge]

\* The report misses the change that made version v.
Misses(entry, v) == \E i \in 1..Parts : entry.val[i] < v

\* Once the invalidation for a change went through, a cached report that
\* misses the change was stored after it was committed, by a reader that had
\* begun before: nothing cached earlier survives (transactions/cache.go:22-37,
\* cache/redis.go:133-159).
StaleOnlyByOverlap ==
  \A k \in Keys, v \in swept :
    cache[k] # None /\ Misses(cache[k], v) => v <= cache[k].put

\* No report is served whose oldest figure was overtaken longer ago than the
\* lifetime of an entry, the deadline of the request that computed it and that of
\* the store, whatever is lost: this is what the swallowed error relies on
\* (transactions/cache.go:35, reports/service.go:111-115).
BoundedStaleness ==
  \A k \in Keys, v \in 1..data :
    cache[k] # None /\ Misses(cache[k], v) => age[v] < MaxAge

\* Every change, an import included, clears what was cached before it, once no
\* invalidation is under way.
MutationsInvalidate ==
  (\A w \in Writers : sweep[w] = None) =>
    \A k \in Keys, v \in 1..data :
      cache[k] # None /\ Misses(cache[k], v) => v <= cache[k].put

=============================================================================
