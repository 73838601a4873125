-------------------------- MODULE ReportCacheProofs --------------------------
(***************************************************************************)
(* Proofs about ReportCache: what an invalidation that went through leaves *)
(* behind, and for how long a report may be out of date, for any number of *)
(* readers, writers, keys and versions and any lifetimes.                  *)
(***************************************************************************)
EXTENDS ReportCache, TLAPS

\* What the three functions hold; TypeOK says the same of their fields.
Entry == [val : [1..Parts -> 0..data], put : 0..data, left : 1..TTL]
Filling == [key : Keys, val : Seq(0..data), spent : 0..MaxFill, late : 0..MaxStore]
Sweeping == [ver : 1..data, todo : SUBSET Keys, found : SUBSET Keys]

Shape ==
  /\ data \in Versions
  /\ DOMAIN cache = Keys /\ \A k \in Keys : cache[k] # None => cache[k] \in Entry
  /\ DOMAIN fill = Readers
  /\ \A r \in Readers : fill[r] # None => fill[r] \in Filling /\ Len(fill[r].val) <= Parts
  /\ DOMAIN sweep = Writers /\ \A w \in Writers : sweep[w] # None => sweep[w] \in Sweeping
  /\ swept \subseteq 1..data
  /\ age \in [1..MaxWrites -> 0..MaxAge]

\* A version a running computation has missed is no older than the computation.
FillsAreYoung ==
  \A r \in Readers : fill[r] # None =>
    \A i \in 1..Len(fill[r].val), v \in 1..data :
      fill[r].val[i] < v => age[v] <= fill[r].spent + fill[r].late

\* A version a cached report misses was at most as old as the deadlines of the
\* request and of the store when the report was stored, and has aged with the
\* entry since.
EntriesAgeWithIt ==
  \A k \in Keys, v \in 1..data :
    cache[k] # None /\ Misses(cache[k], v) => age[v] + cache[k].left <= MaxAge

\* An invalidation under way has still to look at, or to delete, every report
\* that misses its version and was stored before it.
SweepCovers ==
  \A w \in Writers, k \in Keys :
    sweep[w] # None /\ cache[k] # None /\ Misses(cache[k], sweep[w].ver)
      => sweep[w].ver <= cache[k].put \/ k \in sweep[w].todo \cup sweep[w].found

CacheInv ==
  /\ Shape
  /\ FillsAreYoung
  /\ EntriesAgeWithIt
  /\ SweepCovers
  /\ StaleOnlyByOverlap

-----------------------------------------------------------------------------
(* Types.                                                                  *)

\* A database that moves on to the next version keeps what was well formed.
LEMMA LaterData ==
  ASSUME data \in Nat, data' \in Nat, data <= data'
  PROVE  Entry \subseteq Entry' /\ Filling \subseteq Filling' /\ Sweeping \subseteq Sweeping'
<1>1. 0..data \subseteq 0..data' /\ 1..data \subseteq 1..data'  OBVIOUS
<1>2. Entry \subseteq Entry'  BY <1>1 DEF Entry
<1>3. Seq(0..data) \subseteq Seq(0..data')
  <2>1. ASSUME NEW s \in Seq(0..data) PROVE s \in Seq(0..data')
    <3>1. \A i \in 1..Len(s) : s[i] \in 0..data'  BY <1>1
    <3>2. s = [i \in 1..Len(s) |-> s[i]] /\ Len(s) \in Nat  OBVIOUS
    <3> QED BY <3>1, <3>2
  <2> QED BY <2>1
<1>4. Filling \subseteq Filling'  BY <1>3 DEF Filling
<1>5. Sweeping \subseteq Sweeping'  BY <1>1 DEF Sweeping
<1> QED BY <1>2, <1>4, <1>5

\* The initial state is well formed.
LEMMA ShapeInit == Init => Shape
BY ReportCacheAssumption DEF Init, Shape, Versions, MaxAge

\* A sequence is a function on its positions.
LEMMA SeqIsFunction ==
  ASSUME NEW S, NEW s \in Seq(S)
  PROVE  s \in [1..Len(s) -> S] /\ DOMAIN s = 1..Len(s)
OBVIOUS

\* A finished computation stores a well-formed entry.
LEMMA StoredEntry ==
  ASSUME Shape, NEW r \in Readers, fill[r] # None, Len(fill[r].val) = Parts
  PROVE  [val |-> fill[r].val, put |-> data, left |-> TTL] \in Entry
<1>1. fill[r].val \in Seq(0..data)  BY DEF Shape, Filling
<1>2. fill[r].val \in [1..Parts -> 0..data]  BY <1>1, SeqIsFunction, Zenon
<1> QED BY <1>2, ReportCacheAssumption DEF Shape, Entry, Versions

\* The clock keeps entries and computations well formed.
LEMMA TickShape == Shape /\ Tick => Shape'
<1> SUFFICES ASSUME Shape, Tick PROVE Shape'  OBVIOUS
<1> USE ReportCacheAssumption
<1>1. data' = data /\ sweep' = sweep /\ swept' = swept  BY DEF Tick
<1>2. Entry' = Entry /\ Filling' = Filling /\ Sweeping' = Sweeping
  BY <1>1 DEF Entry, Filling, Sweeping
<1>3. ASSUME NEW k \in Keys, cache'[k] # None
      PROVE  cache'[k] \in Entry
  <2>1. cache[k] # None /\ cache[k].left # 1 /\ cache'[k] = [cache[k] EXCEPT !.left = cache[k].left - 1]
    BY <1>3 DEF Tick
  <2>2. cache[k] \in Entry  BY <2>1 DEF Shape
  <2> QED BY <2>1, <2>2 DEF Entry
<1>4. ASSUME NEW r \in Readers, fill'[r] # None
      PROVE  fill'[r] \in Filling /\ Len(fill'[r].val) <= Parts
  <2>1. fill[r] # None /\ ~OutOfTime(fill[r])
        /\ fill'[r] = IF Querying(fill[r]) THEN [fill[r] EXCEPT !.spent = fill[r].spent + 1]
                      ELSE [fill[r] EXCEPT !.late = fill[r].late + 1]
    BY <1>4 DEF Tick
  <2>2. fill[r] \in Filling /\ Len(fill[r].val) <= Parts  BY <2>1 DEF Shape
  <2>3. CASE Querying(fill[r])
    <3>1. fill'[r] = [fill[r] EXCEPT !.spent = fill[r].spent + 1] /\ fill[r].spent # MaxFill
      BY <2>1, <2>3 DEF OutOfTime
    <3> QED BY <2>2, <3>1 DEF Filling
  <2>4. CASE ~Querying(fill[r])
    <3>1. fill'[r] = [fill[r] EXCEPT !.late = fill[r].late + 1] /\ fill[r].late # MaxStore
      BY <2>1, <2>4 DEF OutOfTime
    <3> QED BY <2>2, <3>1 DEF Filling
  <2> QED BY <2>3, <2>4
<1>5. age' \in [1..MaxWrites -> 0..MaxAge]
  BY DEF Tick, Shape, MaxAge
<1>6. DOMAIN cache' = Keys /\ DOMAIN fill' = Readers  BY DEF Tick
<1> QED BY <1>1, <1>2, <1>3, <1>4, <1>5, <1>6 DEF Shape

\* Every step keeps the state well formed.
LEMMA ShapeStep == Shape /\ [Next]_vars => Shape'
<1> SUFFICES ASSUME Shape, [Next]_vars PROVE Shape'  OBVIOUS
<1> USE ReportCacheAssumption
<1>0. data \in Nat  BY DEF Shape, Versions
<1>1. UNCHANGED data => Entry' = Entry /\ Filling' = Filling /\ Sweeping' = Sweeping
  BY DEF Entry, Filling, Sweeping
<1>2. CASE UNCHANGED vars  BY <1>1, <1>2 DEF vars, Shape
<1>3. ASSUME NEW k \in Keys, Hit(k) PROVE Shape'
  BY <1>1, <1>3 DEF Hit, vars, Shape
<1>4. ASSUME NEW r \in Readers, NEW k \in Keys, StartFill(r, k) PROVE Shape'
  <2>1. [key |-> k, val |-> << >>, spent |-> 0, late |-> 0] \in Filling /\ Len(<< >>) <= Parts
    BY DEF Filling
  <2> QED BY <2>1, <1>1, <1>4 DEF StartFill, Shape
<1>5. ASSUME NEW r \in Readers, Query(r) PROVE Shape'
  <2>1. fill[r] \in Filling  BY <1>5 DEF Query, Shape
  <2>2. Append(fill[r].val, data) \in Seq(0..data)
        /\ Len(Append(fill[r].val, data)) = Len(fill[r].val) + 1
    BY <2>1, <1>0 DEF Filling
  <2>3. fill'[r] = [fill[r] EXCEPT !.val = Append(fill[r].val, data)]
    BY <1>5 DEF Query, Shape
  <2>4. fill'[r] \in Filling /\ fill'[r].val = Append(fill[r].val, data)
    BY <2>1, <2>2, <2>3 DEF Filling
  <2>5. Len(fill'[r].val) <= Parts
    BY <2>1, <2>2, <2>4, <1>5 DEF Query, Querying, Filling
  <2> QED BY <2>4, <2>5, <1>1, <1>5 DEF Query, Shape
<1>6. ASSUME NEW r \in Readers, Store(r) PROVE Shape'
  <2>1. [val |-> fill[r].val, put |-> data, left |-> TTL] \in Entry
    BY <1>6, StoredEntry DEF Store
  <2> QED BY <2>1, <1>1, <1>6 DEF Store, Shape
<1>7. ASSUME NEW r \in Readers, Abandon(r) PROVE Shape'
  BY <1>1, <1>7 DEF Abandon, Shape
<1>8. ASSUME NextVersion
      PROVE  /\ data' \in Versions /\ data' = data + 1 /\ age' \in [1..MaxWrites -> 0..MaxAge]
             /\ Entry \subseteq Entry' /\ Filling \subseteq Filling' /\ Sweeping \subseteq Sweeping'
             /\ 1..data \subseteq 1..data'
  <2>1. data' = data + 1 /\ data' \in Versions  BY <1>0, <1>8 DEF NextVersion, Versions
  <2>2. age' \in [1..MaxWrites -> 0..MaxAge]
    <3>1. 0 \in 0..MaxAge  BY DEF MaxAge
    <3> QED BY <3>1, <1>8, Zenon DEF NextVersion, Shape
  <2> QED BY <2>1, <2>2, <1>0, LaterData
<1>9. ASSUME NEW w \in Writers, Commit(w) PROVE Shape'
  <2>1. NextVersion  BY <1>9 DEF Commit
  <2>2. [ver |-> data + 1, todo |-> Keys, found |-> {}] \in Sweeping'
    BY <2>1, <1>0, <1>8 DEF Sweeping
  <2>3. \A v \in Writers : sweep'[v] # None => sweep'[v] \in Sweeping'
    BY <2>1, <2>2, <1>8, <1>9 DEF Commit, Shape
  <2> QED BY <2>1, <2>3, <1>8, <1>9 DEF Commit, Shape
<1>10. CASE Import
  BY <1>8, <1>10 DEF Import, Shape
<1>11. ASSUME NEW w \in Writers, Scan(w) PROVE Shape'
  <2>1. PICK B \in SUBSET sweep[w].todo :
          sweep' = [sweep EXCEPT ![w].todo = @ \ B, ![w].found = {k \in B : cache[k] # None}]
    BY <1>11 DEF Scan
  <2>2. sweep[w] \in Sweeping  BY <1>11 DEF Scan, Shape
  <2>3. sweep'[w] = [sweep[w] EXCEPT !.todo = sweep[w].todo \ B,
                                     !.found = {k \in B : cache[k] # None}]
    BY <2>1 DEF Shape
  <2>4. sweep'[w] \in Sweeping  BY <2>2, <2>3 DEF Sweeping
  <2>5. \A v \in Writers : sweep'[v] # None => sweep'[v] \in Sweeping
    BY <2>1, <2>4 DEF Shape
  <2> QED BY <2>1, <2>5, <1>1, <1>11 DEF Scan, Shape
<1>12. ASSUME NEW w \in Writers, Del(w) PROVE Shape'
  <2>1. sweep[w] \in Sweeping  BY <1>12 DEF Del, Shape
  <2>2. sweep'[w] \in Sweeping  BY <2>1, <1>12 DEF Del, Shape, Sweeping
  <2> QED BY <2>2, <1>1, <1>12 DEF Del, Shape
<1>13. ASSUME NEW w \in Writers, EndSweep(w) PROVE Shape'
  <2>1. sweep[w].ver \in 1..data  BY <1>13 DEF EndSweep, Shape, Sweeping
  <2> QED BY <2>1, <1>1, <1>13 DEF EndSweep, Shape
<1>14. ASSUME NEW w \in Writers, LoseSweep(w) PROVE Shape'
  BY <1>1, <1>14 DEF LoseSweep, Shape
<1> QED BY <1>2, <1>3, <1>4, <1>5, <1>6, <1>7, <1>9, <1>10, <1>11, <1>12, <1>13, <1>14, TickShape
        DEF Next

-----------------------------------------------------------------------------
(* The ages.                                                               *)

\* A version enters with age 0, and only the clock makes a version older: the
\* conjuncts about ages survive every step that leaves the reports alone.
LEMMA NextVersionAges ==
  ASSUME Shape, NextVersion, NEW v \in 1..data'
  PROVE  (v = data' /\ age'[v] = 0) \/ (v \in 1..data /\ age'[v] = age[v])
<1>1. data' = data + 1 /\ data \in Nat /\ v \in 1..MaxWrites
  BY ReportCacheAssumption DEF Shape, NextVersion, Versions
<1>2. age' = [age EXCEPT ![data + 1] = 0] /\ DOMAIN age = 1..MaxWrites
  BY DEF Shape, NextVersion
<1>3. CASE v = data + 1
  <2>1. age'[v] = 0  BY <1>1, <1>2, <1>3, Zenon
  <2> QED BY <1>1, <1>3, <2>1
<1>4. CASE v # data + 1
  <2>1. age'[v] = age[v]  BY <1>1, <1>2, <1>4, Zenon
  <2> QED BY <1>1, <1>4, <2>1
<1> QED BY <1>3, <1>4

\* FillsAreYoung is kept by every step.
LEMMA FillsStep == Shape /\ FillsAreYoung /\ [Next]_vars => FillsAreYoung'
<1> SUFFICES ASSUME Shape, FillsAreYoung, [Next]_vars,
                    NEW r \in Readers, fill'[r] # None,
                    NEW i \in 1..Len(fill'[r].val), NEW v \in 1..data', fill'[r].val[i] < v
             PROVE  age'[v] <= fill'[r].spent + fill'[r].late
  BY DEF FillsAreYoung
<1> USE ReportCacheAssumption
<1>0. data \in 0..MaxWrites  BY DEF Shape, Versions
<1>1. ASSUME fill'[r] = fill[r], data' = data, age' = age
      PROVE  age'[v] <= fill'[r].spent + fill'[r].late
  BY <1>1 DEF FillsAreYoung
<1>2. CASE UNCHANGED vars  BY <1>1, <1>2 DEF vars
<1>3. ASSUME NEW k \in Keys, Hit(k) PROVE age'[v] <= fill'[r].spent + fill'[r].late
  BY <1>1, <1>3 DEF Hit, vars
<1>4. ASSUME NEW q \in Readers, NEW k \in Keys, StartFill(q, k)
      PROVE  age'[v] <= fill'[r].spent + fill'[r].late
  <2>1. CASE q = r
    <3>1. fill'[r] = [key |-> k, val |-> << >>, spent |-> 0, late |-> 0]
      BY <1>4, <2>1 DEF StartFill, Shape
    <3> QED BY <3>1
  <2>2. CASE q # r  BY <1>1, <1>4, <2>2 DEF StartFill, Shape
  <2> QED BY <2>1, <2>2
<1>5. ASSUME NEW q \in Readers, Query(q) PROVE age'[v] <= fill'[r].spent + fill'[r].late
  <2>1. CASE q = r
    <3>1. fill[r] # None /\ fill[r] \in Filling /\ data' = data /\ age' = age
      BY <1>5, <2>1 DEF Query, Shape
    <3>2. fill'[r] = [fill[r] EXCEPT !.val = Append(fill[r].val, data)]
      BY <1>5, <2>1 DEF Query, Shape
    <3>3. fill'[r].val = Append(fill[r].val, data)
          /\ fill'[r].spent = fill[r].spent /\ fill'[r].late = fill[r].late
          /\ fill[r].val \in Seq(0..data)
      BY <3>1, <3>2 DEF Filling
    <3>4. CASE i \in 1..Len(fill[r].val)
      BY <3>1, <3>3, <3>4 DEF FillsAreYoung
    <3>5. CASE i = Len(fill[r].val) + 1
      BY <1>0, <3>1, <3>3, <3>5
    <3> QED BY <3>3, <3>4, <3>5
  <2>2. CASE q # r  BY <1>1, <1>5, <2>2 DEF Query, Shape
  <2> QED BY <2>1, <2>2
<1>6. ASSUME NEW q \in Readers, Store(q) \/ Abandon(q)
      PROVE  age'[v] <= fill'[r].spent + fill'[r].late
  BY <1>1, <1>6 DEF Store, Abandon, Shape
<1>7. ASSUME NextVersion, fill' = fill PROVE age'[v] <= fill'[r].spent + fill'[r].late
  <2>1. fill[r] \in Filling  BY <1>7 DEF Shape
  <2>2. CASE age'[v] = 0  BY <2>1, <2>2, <1>7 DEF Filling
  <2>3. CASE v \in 1..data /\ age'[v] = age[v]  BY <2>3, <1>7 DEF FillsAreYoung
  <2> QED BY <2>2, <2>3, <1>7, NextVersionAges
<1>8. CASE Tick
  <2>1. fill[r] # None
        /\ fill'[r] = IF Querying(fill[r]) THEN [fill[r] EXCEPT !.spent = fill[r].spent + 1]
                      ELSE [fill[r] EXCEPT !.late = fill[r].late + 1]
    BY <1>8 DEF Tick
  <2>2. fill[r] \in Filling  BY <2>1 DEF Shape
  <2>3. fill'[r].val = fill[r].val
        /\ fill'[r].spent + fill'[r].late = fill[r].spent + fill[r].late + 1
    <3>1. CASE Querying(fill[r])
      <4>1. fill'[r] = [fill[r] EXCEPT !.spent = fill[r].spent + 1]  BY <2>1, <3>1
      <4> QED BY <2>2, <4>1 DEF Filling
    <3>2. CASE ~Querying(fill[r])
      <4>1. fill'[r] = [fill[r] EXCEPT !.late = fill[r].late + 1]  BY <2>1, <3>2
      <4> QED BY <2>2, <4>1 DEF Filling
    <3> QED BY <3>1, <3>2
  <2>4. data' = data /\ v \in 1..MaxWrites /\ age[v] \in Nat
    BY <1>0, <1>8 DEF Tick, Shape
  <2>5. age'[v] = age[v] \/ age'[v] = age[v] + 1  BY <1>8, <2>4 DEF Tick
  <2>6. age[v] <= fill[r].spent + fill[r].late  BY <2>1, <2>3, <2>4 DEF FillsAreYoung
  <2>7. fill[r].spent \in Nat /\ fill[r].late \in Nat  BY <2>2 DEF Filling
  <2> QED BY <2>3, <2>4, <2>5, <2>6, <2>7
<1>9. ASSUME NEW w \in Writers, Commit(w) PROVE age'[v] <= fill'[r].spent + fill'[r].late
  BY <1>7, <1>9 DEF Commit
<1>10. CASE Import  BY <1>7, <1>10 DEF Import
<1>11. ASSUME NEW w \in Writers, Scan(w) \/ Del(w) \/ EndSweep(w) \/ LoseSweep(w)
       PROVE  age'[v] <= fill'[r].spent + fill'[r].late
  BY <1>1, <1>11 DEF Scan, Del, EndSweep, LoseSweep
<1> QED BY <1>2, <1>3, <1>4, <1>5, <1>6, <1>8, <1>9, <1>10, <1>11 DEF Next

\* EntriesAgeWithIt is kept by every step: a report that is stored is as young
\* as its computation, a stored one ages with what it misses.
LEMMA EntriesStep ==
  Shape /\ FillsAreYoung /\ EntriesAgeWithIt /\ [Next]_vars => EntriesAgeWithIt'
<1> SUFFICES ASSUME Shape, FillsAreYoung, EntriesAgeWithIt, [Next]_vars,
                    NEW k \in Keys, NEW v \in 1..data', cache'[k] # None,
                    NEW i \in 1..Parts, cache'[k].val[i] < v
             PROVE  age'[v] + cache'[k].left <= MaxAge
  BY DEF EntriesAgeWithIt, Misses, MaxAge
<1> USE ReportCacheAssumption
<1>0. data \in 0..MaxWrites  BY DEF Shape, Versions
<1>1. ASSUME cache'[k] = cache[k], data' = data, age' = age
      PROVE  age'[v] + cache'[k].left <= MaxAge
  BY <1>1 DEF EntriesAgeWithIt, Misses
<1>2. CASE UNCHANGED vars  BY <1>1, <1>2 DEF vars
<1>3. ASSUME NEW j \in Keys, Hit(j) PROVE age'[v] + cache'[k].left <= MaxAge
  BY <1>1, <1>3 DEF Hit, vars
<1>4. ASSUME NEW r \in Readers,
             (\E j \in Keys : StartFill(r, j)) \/ Query(r) \/ Abandon(r)
      PROVE  age'[v] + cache'[k].left <= MaxAge
  BY <1>1, <1>4 DEF StartFill, Query, Abandon
<1>5. ASSUME NEW r \in Readers, Store(r)
      PROVE  age'[v] + cache'[k].left <= MaxAge
  <2>1. CASE k = fill[r].key
    <3>1. cache'[k] = [val |-> fill[r].val, put |-> data, left |-> TTL]
          /\ data' = data /\ age' = age
      BY <1>5, <2>1 DEF Store, Shape
    <3>2. fill[r] # None /\ fill[r] \in Filling /\ Len(fill[r].val) = Parts
      BY <1>5 DEF Store, Shape
    <3>3. age[v] <= fill[r].spent + fill[r].late  BY <3>1, <3>2 DEF FillsAreYoung
    <3>4. fill[r].spent \in 0..MaxFill /\ fill[r].late \in 0..MaxStore /\ v \in 1..MaxWrites
      BY <1>0, <3>1, <3>2 DEF Filling
    <3>5. age[v] \in Nat  BY <3>4 DEF Shape
    <3> QED BY <3>1, <3>3, <3>4, <3>5 DEF MaxAge
  <2>2. CASE k # fill[r].key  BY <1>1, <1>5, <2>2 DEF Store, Shape
  <2> QED BY <2>1, <2>2
<1>6. ASSUME NextVersion, cache' = cache
      PROVE  age'[v] + cache'[k].left <= MaxAge
  <2>1. cache[k] \in Entry  BY <1>6 DEF Shape
  <2>2. CASE age'[v] = 0  BY <2>1, <2>2, <1>6 DEF Entry, MaxAge
  <2>3. CASE v \in 1..data /\ age'[v] = age[v]
    BY <2>3, <1>6 DEF EntriesAgeWithIt, Misses
  <2> QED BY <2>2, <2>3, <1>6, NextVersionAges
<1>7. ASSUME NEW w \in Writers, Commit(w) PROVE age'[v] + cache'[k].left <= MaxAge
  BY <1>6, <1>7 DEF Commit
<1>8. CASE Import  BY <1>6, <1>8 DEF Import
<1>9. ASSUME NEW w \in Writers, Scan(w) \/ EndSweep(w) \/ LoseSweep(w)
      PROVE  age'[v] + cache'[k].left <= MaxAge
  BY <1>1, <1>9 DEF Scan, EndSweep, LoseSweep
<1>10. ASSUME NEW w \in Writers, Del(w) PROVE age'[v] + cache'[k].left <= MaxAge
  BY <1>1, <1>10 DEF Del
<1>11. CASE Tick
  <2>1. cache[k] # None /\ cache'[k] = [cache[k] EXCEPT !.left = cache[k].left - 1]
    BY <1>11 DEF Tick
  <2>2. cache[k] \in Entry  BY <2>1 DEF Shape
  <2>3. cache'[k].val = cache[k].val /\ cache'[k].left = cache[k].left - 1
    BY <2>1, <2>2 DEF Entry
  <2>4. data' = data /\ v \in 1..MaxWrites /\ age[v] \in Nat
    BY <1>0, <1>11 DEF Tick, Shape
  <2>5. age'[v] = age[v] \/ age'[v] = age[v] + 1  BY <1>11, <2>4 DEF Tick
  <2>6. age[v] + cache[k].left <= MaxAge
    BY <2>1, <2>3, <2>4 DEF EntriesAgeWithIt, Misses
  <2>7. cache[k].left \in Nat  BY <2>2 DEF Entry
  <2> QED BY <2>3, <2>4, <2>5, <2>6, <2>7 DEF MaxAge
<1> QED BY <1>2, <1>3, <1>4, <1>5, <1>7, <1>8, <1>9, <1>10, <1>11 DEF Next

-----------------------------------------------------------------------------
(* The invalidations.                                                      *)

\* Where no invalidation begins or moves and no report is stored, what it has
\* still to look at covers what it had to cover.
LEMMA CoverKept ==
  ASSUME SweepCovers, NEW w \in Writers, NEW k \in Keys,
         sweep'[w] = sweep[w],
         cache'[k] # None => cache[k] # None /\ cache'[k].val = cache[k].val
                                            /\ cache'[k].put = cache[k].put,
         sweep'[w] # None, cache'[k] # None, Misses(cache'[k], sweep'[w].ver)
  PROVE  sweep'[w].ver <= cache'[k].put \/ k \in sweep'[w].todo \cup sweep'[w].found
<1>1. cache[k] # None /\ Misses(cache[k], sweep[w].ver)  BY DEF Misses
<1> QED BY <1>1 DEF SweepCovers

\* The fields an invalidation does not touch, and what the clock leaves of an
\* entry.
LEMMA TickKeeps ==
  ASSUME Shape, Tick, NEW k \in Keys, cache'[k] # None
  PROVE  cache[k] # None /\ cache'[k].val = cache[k].val /\ cache'[k].put = cache[k].put
<1>1. cache[k] # None /\ cache'[k] = [cache[k] EXCEPT !.left = cache[k].left - 1]
  BY DEF Tick
<1>2. cache[k] \in Entry  BY <1>1 DEF Shape
<1> QED BY <1>1, <1>2 DEF Entry

\* SweepCovers is kept by every step: a report stored now is newer than every
\* version committed so far, and SCAN finds what it looks at.
LEMMA CoversStep == Shape /\ SweepCovers /\ [Next]_vars => SweepCovers'
<1> DEFINE Covered(w, k) == sweep'[w].ver <= cache'[k].put
                            \/ k \in sweep'[w].todo \cup sweep'[w].found
<1> SUFFICES ASSUME Shape, SweepCovers, [Next]_vars,
                    NEW w \in Writers, NEW k \in Keys,
                    sweep'[w] # None, cache'[k] # None, Misses(cache'[k], sweep'[w].ver)
             PROVE  Covered(w, k)
  BY DEF SweepCovers
<1>1. ASSUME sweep'[w] = sweep[w], cache'[k] = cache[k] PROVE Covered(w, k)
  BY <1>1, CoverKept
<1> HIDE DEF Covered
<1>2. CASE UNCHANGED vars  BY <1>1, <1>2 DEF vars
<1>3. ASSUME NEW j \in Keys, Hit(j) PROVE Covered(w, k)  BY <1>1, <1>3 DEF Hit, vars
<1>4. ASSUME NEW r \in Readers,
             (\E j \in Keys : StartFill(r, j)) \/ Query(r) \/ Abandon(r)
      PROVE  Covered(w, k)
  BY <1>1, <1>4 DEF StartFill, Query, Abandon
<1>5. ASSUME NEW r \in Readers, Store(r) PROVE Covered(w, k)
  <2>1. CASE k = fill[r].key
    <3>1. cache'[k] = [val |-> fill[r].val, put |-> data, left |-> TTL] /\ sweep' = sweep
      BY <1>5, <2>1 DEF Store, Shape
    <3>2. sweep[w].ver \in 1..data  BY <3>1 DEF Shape, Sweeping
    <3>3. data \in Nat  BY DEF Shape, Versions
    <3> QED BY <3>1, <3>2, <3>3 DEF Covered
  <2>2. CASE k # fill[r].key  BY <1>1, <1>5, <2>2 DEF Store, Shape
  <2> QED BY <2>1, <2>2
<1>6. ASSUME NEW u \in Writers, Commit(u) PROVE Covered(w, k)
  <2>1. CASE u = w
    <3>1. sweep'[w] = [ver |-> data + 1, todo |-> Keys, found |-> {}]
      BY <1>6, <2>1 DEF Commit, Shape
    <3> QED BY <3>1 DEF Covered
  <2>2. CASE u # w  BY <1>1, <1>6, <2>2 DEF Commit, Shape
  <2> QED BY <2>1, <2>2
<1>7. CASE Import  BY <1>1, <1>7 DEF Import
<1>8. ASSUME NEW u \in Writers, Scan(u) PROVE Covered(w, k)
  <2>1. CASE u = w
    <3>1. PICK B \in SUBSET sweep[w].todo :
            sweep' = [sweep EXCEPT ![w].todo = @ \ B, ![w].found = {j \in B : cache[j] # None}]
      BY <1>8, <2>1 DEF Scan
    <3>2. sweep[w] # None /\ sweep[w] \in Sweeping /\ sweep[w].found = {} /\ cache' = cache
      BY <1>8, <2>1 DEF Scan, Shape
    <3>3. sweep'[w] = [sweep[w] EXCEPT !.todo = sweep[w].todo \ B,
                                       !.found = {j \in B : cache[j] # None}]
      BY <3>1 DEF Shape
    <3>4. sweep'[w].ver = sweep[w].ver /\ sweep'[w].todo = sweep[w].todo \ B
          /\ sweep'[w].found = {j \in B : cache[j] # None}
      BY <3>2, <3>3 DEF Sweeping
    <3>5. sweep[w].ver <= cache[k].put \/ k \in sweep[w].todo
      BY <3>2, <3>4 DEF SweepCovers
    <3> QED BY <3>2, <3>4, <3>5 DEF Covered
  <2>2. CASE u # w  BY <1>1, <1>8, <2>2 DEF Scan, Shape
  <2> QED BY <2>1, <2>2
<1>9. ASSUME NEW u \in Writers, Del(u) PROVE Covered(w, k)
  <2>1. k \notin sweep[u].found /\ cache'[k] = cache[k]  BY <1>9 DEF Del
  <2>2. CASE u = w
    <3>1. sweep[w] # None /\ sweep[w] \in Sweeping  BY <1>9, <2>2 DEF Del, Shape
    <3>2. sweep'[w] = [sweep[w] EXCEPT !.found = {}]  BY <1>9, <2>2 DEF Del, Shape
    <3>3. sweep'[w].ver = sweep[w].ver /\ sweep'[w].todo = sweep[w].todo
      BY <3>1, <3>2 DEF Sweeping
    <3>4. sweep[w].ver <= cache[k].put \/ k \in sweep[w].todo
      BY <2>1, <2>2, <3>1, <3>3 DEF SweepCovers
    <3> QED BY <2>1, <3>3, <3>4 DEF Covered
  <2>3. CASE u # w  BY <1>1, <1>9, <2>1, <2>3 DEF Del, Shape
  <2> QED BY <2>2, <2>3
<1>10. ASSUME NEW u \in Writers, EndSweep(u) \/ LoseSweep(u) PROVE Covered(w, k)
  <2>1. u # w  BY <1>10 DEF EndSweep, LoseSweep, Shape
  <2> QED BY <1>1, <1>10, <2>1 DEF EndSweep, LoseSweep, Shape
<1>11. CASE Tick
  <2>1. sweep' = sweep  BY <1>11 DEF Tick
  <2> QED BY <1>11, <2>1, TickKeeps, CoverKept DEF Covered
<1> QED BY <1>2, <1>3, <1>4, <1>5, <1>6, <1>7, <1>8, <1>9, <1>10, <1>11 DEF Next

\* StaleOnlyByOverlap is kept by every step: the invalidation that ends has
\* nothing left to look at, so only younger reports miss its version.
LEMMA StaleStep ==
  Shape /\ SweepCovers /\ StaleOnlyByOverlap /\ [Next]_vars => StaleOnlyByOverlap'
<1> SUFFICES ASSUME Shape, SweepCovers, StaleOnlyByOverlap, [Next]_vars,
                    NEW k \in Keys, NEW v \in swept',
                    cache'[k] # None, Misses(cache'[k], v)
             PROVE  v <= cache'[k].put
  BY DEF StaleOnlyByOverlap
<1>1. ASSUME swept' = swept,
             cache[k] # None /\ cache'[k].val = cache[k].val /\ cache'[k].put = cache[k].put
      PROVE  v <= cache'[k].put
  BY <1>1 DEF StaleOnlyByOverlap, Misses
<1>2. CASE UNCHANGED vars  BY <1>1, <1>2 DEF vars
<1>3. ASSUME NEW j \in Keys, Hit(j) PROVE v <= cache'[k].put
  BY <1>1, <1>3 DEF Hit, vars
<1>4. ASSUME NEW r \in Readers,
             (\E j \in Keys : StartFill(r, j)) \/ Query(r) \/ Abandon(r)
      PROVE  v <= cache'[k].put
  BY <1>1, <1>4 DEF StartFill, Query, Abandon
<1>5. ASSUME NEW r \in Readers, Store(r) PROVE v <= cache'[k].put
  <2>1. CASE k = fill[r].key
    <3>1. cache'[k] = [val |-> fill[r].val, put |-> data, left |-> TTL]
      BY <1>5, <2>1 DEF Store, Shape
    <3>2. v \in 1..data /\ data \in Nat  BY <1>5 DEF Store, Shape, Versions
    <3> QED BY <3>1, <3>2
  <2>2. CASE k # fill[r].key  BY <1>1, <1>5, <2>2 DEF Store, Shape
  <2> QED BY <2>1, <2>2
<1>6. ASSUME NEW w \in Writers, Commit(w) \/ Scan(w) \/ LoseSweep(w)
      PROVE  v <= cache'[k].put
  BY <1>1, <1>6 DEF Commit, Scan, LoseSweep
<1>7. CASE Import  BY <1>1, <1>7 DEF Import
<1>8. ASSUME NEW w \in Writers, Del(w) PROVE v <= cache'[k].put
  BY <1>1, <1>8 DEF Del
<1>9. ASSUME NEW w \in Writers, EndSweep(w) PROVE v <= cache'[k].put
  <2>1. CASE v \in swept  BY <1>9, <2>1 DEF EndSweep, StaleOnlyByOverlap
  <2>2. CASE v = sweep[w].ver  BY <1>9, <2>2 DEF EndSweep, SweepCovers
  <2> QED BY <1>9, <2>1, <2>2 DEF EndSweep
<1>10. CASE Tick
  <2>1. swept' = swept  BY <1>10 DEF Tick
  <2> QED BY <1>1, <1>10, <2>1, TickKeeps
<1> QED BY <1>2, <1>3, <1>4, <1>5, <1>6, <1>7, <1>8, <1>9, <1>10 DEF Next

-----------------------------------------------------------------------------
(* The theorems.                                                           *)

\* The invariant of the cache holds in every reachable state.
THEOREM CacheInvariant == Spec => []CacheInv
<1>1. Init => CacheInv
  <2> SUFFICES ASSUME Init PROVE CacheInv  OBVIOUS
  <2>1. \A r \in Readers : fill[r] = None  BY DEF Init
  <2>2. \A k \in Keys : cache[k] = None  BY DEF Init
  <2> QED BY <2>1, <2>2, ShapeInit
          DEF CacheInv, FillsAreYoung, EntriesAgeWithIt, SweepCovers, StaleOnlyByOverlap
<1>2. CacheInv /\ [Next]_vars => CacheInv'
  BY ShapeStep, FillsStep, EntriesStep, CoversStep, StaleStep DEF CacheInv
<1> QED BY <1>1, <1>2, PTL DEF Spec

\* What is cached is a whole report, made of versions that existed.
THEOREM ReportTypeCorrect == Spec => []TypeOK
<1>1. CacheInv => TypeOK
  <2> SUFFICES ASSUME Shape PROVE TypeOK  BY DEF CacheInv
  <2>1. \A k \in Keys : cache[k] # None => cache[k] \in Entry  BY DEF Shape
  <2>2. \A r \in Readers : fill[r] # None => fill[r] \in Filling /\ Len(fill[r].val) <= Parts
    BY DEF Shape
  <2>3. ASSUME NEW r \in Readers, fill[r] # None
        PROVE  \A i \in DOMAIN fill[r].val : fill[r].val[i] \in 0..data
    <3>1. fill[r].val \in Seq(0..data)  BY <2>2, <2>3 DEF Filling
    <3> QED BY <3>1, SeqIsFunction, Zenon
  <2>4. \A w \in Writers : sweep[w] # None => sweep[w] \in Sweeping  BY DEF Shape
  <2> QED BY <2>1, <2>2, <2>3, <2>4 DEF Shape, TypeOK, Entry, Filling, Sweeping
<1> QED BY <1>1, CacheInvariant, PTL

\* Nothing cached before a change survives an invalidation that went through:
\* InvalidateUser and the SCAN loop behind it.
THEOREM StaleOnlyByOverlapHolds == Spec => []StaleOnlyByOverlap
<1>1. CacheInv => StaleOnlyByOverlap  BY DEF CacheInv
<1> QED BY <1>1, CacheInvariant, PTL

\* Whatever is lost, a figure is out of date for less than the lifetime of an
\* entry, the deadline of a request and that of a store together: the store is
\* detached from the request (reports/service.go:111-115).
THEOREM BoundedStalenessHolds == Spec => []BoundedStaleness
<1>1. CacheInv => BoundedStaleness
  <2> SUFFICES ASSUME Shape, EntriesAgeWithIt,
                      NEW k \in Keys, NEW v \in 1..data, cache[k] # None, Misses(cache[k], v)
               PROVE  age[v] < MaxAge
    BY DEF CacheInv, BoundedStaleness
  <2>1. age[v] + cache[k].left <= MaxAge  BY DEF EntriesAgeWithIt
  <2>2. cache[k] \in Entry /\ v \in 1..MaxWrites
    BY ReportCacheAssumption DEF Shape, Versions
  <2>3. cache[k].left \in 1..TTL /\ age[v] \in Nat  BY <2>2 DEF Shape, Entry
  <2> QED BY <2>1, <2>3, ReportCacheAssumption DEF MaxAge
<1> QED BY <1>1, CacheInvariant, PTL

=============================================================================
