---------------------------- MODULE LedgerProofs ----------------------------
(***************************************************************************)
(* Proofs about Ledger for every set of requests, ids, amounts and         *)
(* balances: the inductive invariant LedgerInv and what follows from it.   *)
(***************************************************************************)
EXTENDS LedgerBalance, Sums, TLAPS

\* The fields of a row.
LEMMA RowFields ==
  ASSUME NEW w \in Row
  PROVE  w.amt \in Int /\ w.acct \in Accts /\ w.cat \in Cats /\ w.type \in Types
<1>1. Amounts \subseteq Int
  BY LedgerAssumption
<1>2. QED
  BY <1>1 DEF Row

\* The values that stand for "no row" and "not written" are not rows.
LEMMA Distinct ==
  /\ NoRow \notin Row /\ Untouched \notin Row /\ Untouched # NoRow
  /\ NoId \notin Txs /\ NoCat \notin Types
BY LedgerAssumption

\* The effect of a row on an account is a number.
LEMMA EffectInt ==
  ASSUME NEW a \in Accts, NEW w \in RowOrNone
  PROVE  EffectOn(a, w) \in Int /\ (w # NoRow => Effect(w) \in Int)
<1>1. CASE w = NoRow
  BY <1>1 DEF EffectOn
<1>2. CASE w \in Row
  BY <1>2, RowFields DEF EffectOn, Effect
<1>3. QED
  BY <1>1, <1>2 DEF RowOrNone

\* An empty ledger and no request.
LEMMA InitInv == Init => LedgerInv
<1> SUFFICES ASSUME Init PROVE LedgerInv
  OBVIOUS
<1> USE LedgerAssumption DEF Init
<1>1. TypeOK
  BY DEF TypeOK, RowOrNone, Zero, NothingPosted, NothingWritten, PCs
<1>2. NoDanglingReference /\ RowsOwned /\ PostedMatchesRow
  BY DEF NoDanglingReference, RowsOwned, PostedMatchesRow, NothingWritten,
         NothingPosted, EffectOn
<1>3. ASSUME NEW r \in Reqs
      PROVE  FieldsFit(r) /\ CreatePosted(r) /\ EditPosted(r)
  BY DEF FieldsFit, CreatePosted, EditPosted, Clear, NothingWritten, NothingPosted
<1>4. QED
  BY <1>1, <1>2, <1>3 DEF LedgerInv

-----------------------------------------------------------------------------
(* Steps of a request r leave what the invariant says of the others alone.  *)

\* What LedgerInv says of request s.
Fits(s) == FieldsFit(s) /\ CreatePosted(s) /\ EditPosted(s)

\* A step of another request leaves the fields of s as they are.
Same(s) ==
  /\ pc'[s] = pc[s] /\ obj'[s] = obj[s] /\ seen'[s] = seen[s] /\ cur'[s] = cur[s]
  /\ left'[s] = left[s] /\ wrow'[s] = wrow[s] /\ wposted'[s] = wposted[s]
  /\ tainted'[s] = tainted[s]

\* What fits a request's next statement goes on to fit it while the rows stay and the
\* request does not move.
LEMMA Frame ==
  ASSUME NEW s \in Reqs, Fits(s), Same(s), UNCHANGED rows
  PROVE  Fits(s)'
<1> USE DEF Fits, Same
<1>1. FieldsFit(s)'
  BY DEF FieldsFit, Clear
<1>2. CreatePosted(s)'
  BY DEF CreatePosted
<1>3. EditPosted(s)'
  BY DEF EditPosted
<1>4. QED
  BY <1>1, <1>2, <1>3

\* A request that has ended.
LEMMA ClearFits ==
  ASSUME NEW r \in Reqs, pc'[r] = "idle", Clear(r)'
  PROVE  Fits(r)'
<1>1. FieldsFit(r)'
  BY DEF FieldsFit, Clear
<1>2. CreatePosted(r)'
  BY Distinct DEF CreatePosted, Clear, NothingWritten, NothingPosted
<1>3. EditPosted(r)'
  BY DEF EditPosted, Clear
<1>4. QED
  BY <1>1, <1>2, <1>3 DEF Fits

\* A rollback forgets the open rows and postings.
LEMMA RollbackInv ==
  ASSUME LedgerInv, NEW r \in Reqs, Rollback(r)
  PROVE  LedgerInv'
<1> USE DEF Rollback, Finish, database
<1>1. TypeOK'
  BY DEF LedgerInv, TypeOK, RowOrNone, Zero, NothingPosted, NothingWritten, PCs
<1>2. NoDanglingReference'
  BY DEF LedgerInv, NoDanglingReference, ParentsExist
<1>3. RowsOwned'
  BY DEF LedgerInv, RowsOwned, TypeOK, ParentsExist, NothingWritten
<1>4. PostedMatchesRow'
  BY DEF LedgerInv, PostedMatchesRow
<1>5. ASSUME NEW s \in Reqs PROVE Fits(s)'
  <2>1. CASE s = r
    <3>1. pc'[r] = "idle" /\ Clear(r)'
      BY DEF LedgerInv, TypeOK, Clear
    <3>2. QED
      BY <2>1, <3>1, ClearFits
  <2>2. CASE s # r
    BY <2>2, Frame DEF LedgerInv, TypeOK, Same, Fits
  <2>3. QED
    BY <2>1, <2>2
<1>6. QED
  BY <1>1, <1>2, <1>3, <1>4, <1>5 DEF LedgerInv, Fits

\* A batch begins: the row it is about to insert has the type of its category.
LEMMA BeginCreateInv ==
  ASSUME LedgerInv, NEW r \in Reqs, BeginCreate(r)
  PROVE  LedgerInv'
<1> USE DEF BeginCreate, Begin, Goto, database, dbtx, history
<1>1. TypeOK'
  BY LedgerAssumption DEF LedgerInv, TypeOK, RowOrNone, PCs
<1>2. NoDanglingReference'
  BY DEF LedgerInv, NoDanglingReference, ParentsExist
<1>3. RowsOwned'
  BY DEF LedgerInv, RowsOwned, TypeOK, ParentsExist
<1>4. PostedMatchesRow'
  BY DEF LedgerInv, PostedMatchesRow
<1>5. ASSUME NEW s \in Reqs PROVE Fits(s)'
  <2>1. CASE s = r
    <3>1. FieldsFit(r)'
      BY Distinct DEF LedgerInv, TypeOK, FieldsFit, Clear
    <3>2. CreatePosted(r)'
      BY DEF LedgerInv, TypeOK, FieldsFit, Clear, CreatePosted
    <3>3. EditPosted(r)'
      BY DEF LedgerInv, TypeOK, FieldsFit, Clear, EditPosted
    <3>4. QED
      BY <2>1, <3>1, <3>2, <3>3 DEF Fits
  <2>2. CASE s # r
    BY <2>2, Frame DEF LedgerInv, TypeOK, Same, Fits
  <2>3. QED
    BY <2>1, <2>2
<1>6. QED
  BY <1>1, <1>2, <1>3, <1>4, <1>5 DEF LedgerInv, Fits

\* Update and Delete load the row before their transaction begins.
LEMMA LoadExistingInv ==
  ASSUME LedgerInv, NEW r \in Reqs, NEW op, NEW label \in {"category", "revert"},
         LoadExisting(r, op, label)
  PROVE  LedgerInv'
<1> USE DEF LoadExisting, Begin, Goto, database, dbtx, history
<1>1. TypeOK'
  BY DEF LedgerInv, TypeOK, RowOrNone, PCs
<1>2. NoDanglingReference'
  BY DEF LedgerInv, NoDanglingReference, ParentsExist
<1>3. RowsOwned'
  BY DEF LedgerInv, RowsOwned, TypeOK, ParentsExist
<1>4. PostedMatchesRow'
  BY DEF LedgerInv, PostedMatchesRow
<1>5. ASSUME NEW s \in Reqs PROVE Fits(s)'
  <2>1. CASE s = r
    <3>1. FieldsFit(r)'
      BY DEF LedgerInv, TypeOK, FieldsFit, Clear
    <3>2. CreatePosted(r)'
      BY DEF LedgerInv, TypeOK, FieldsFit, Clear, CreatePosted
    <3>3. EditPosted(r)'
      BY DEF LedgerInv, TypeOK, FieldsFit, Clear, EditPosted, NothingWritten, NothingPosted
    <3>4. QED
      BY <2>1, <3>1, <3>2, <3>3 DEF Fits
  <2>2. CASE s # r
    BY <2>2, Frame DEF LedgerInv, TypeOK, Same, Fits
  <2>3. QED
    BY <2>1, <2>2
<1>6. QED
  BY <1>1, <1>2, <1>3, <1>4, <1>5 DEF LedgerInv, Fits

\* The category of the row is looked up.
LEMMA CheckCategoryInv ==
  ASSUME LedgerInv, NEW r \in Reqs, CheckCategory(r)
  PROVE  LedgerInv'
<1>1. CASE Rollback(r)
  BY <1>1, RollbackInv
<1>2. ASSUME pc[r] = "category", NEW w \in Row, cur' = [cur EXCEPT ![r] = w],
             Goto(r, "account"),
             UNCHANGED <<database, dbtx, obj, seen, left, started, history>>
      PROVE  LedgerInv'
  <2> USE <1>2 DEF Goto, database, dbtx, history
  <2>1. TypeOK'
    BY DEF LedgerInv, TypeOK, RowOrNone, PCs
  <2>2. NoDanglingReference' /\ PostedMatchesRow'
    BY DEF LedgerInv, NoDanglingReference, PostedMatchesRow, ParentsExist
  <2>3. RowsOwned'
    BY DEF LedgerInv, RowsOwned, ParentsExist
  <2>4. ASSUME NEW s \in Reqs PROVE Fits(s)'
    <3>1. CASE s = r
      <4>1. FieldsFit(r)'
        BY Distinct DEF LedgerInv, TypeOK, FieldsFit, Clear
      <4>2. CreatePosted(r)'
        BY DEF LedgerInv, TypeOK, CreatePosted
      <4>3. EditPosted(r)'
        BY DEF LedgerInv, TypeOK, EditPosted
      <4>4. QED
        BY <3>1, <4>1, <4>2, <4>3 DEF Fits
    <3>2. CASE s # r
      BY <3>2, Frame DEF LedgerInv, TypeOK, Same, Fits
    <3>3. QED
      BY <3>1, <3>2
  <2>5. QED
    BY <2>1, <2>2, <2>3, <2>4 DEF LedgerInv, Fits
<1>3. QED
  BY <1>1, <1>2 DEF CheckCategory

\* The account of the row is looked up.
LEMMA CheckAccountInv ==
  ASSUME LedgerInv, NEW r \in Reqs, CheckAccount(r)
  PROVE  LedgerInv'
<1>1. CASE Rollback(r)
  BY <1>1, RollbackInv
<1>2. CASE ~Rollback(r)
  <2> USE <1>2 DEF CheckAccount, Check, Goto, database, dbtx, local, history
  <2>1. TypeOK'
    BY DEF LedgerInv, TypeOK, PCs
  <2>2. NoDanglingReference' /\ PostedMatchesRow'
    BY DEF LedgerInv, NoDanglingReference, PostedMatchesRow, ParentsExist
  <2>3. RowsOwned'
    BY DEF LedgerInv, RowsOwned, ParentsExist
  <2>4. ASSUME NEW s \in Reqs PROVE Fits(s)'
    <3>1. CASE s = r
      <4>1. FieldsFit(r)'
        BY DEF LedgerInv, TypeOK, FieldsFit, Clear
      <4>2. CreatePosted(r)'
        BY DEF LedgerInv, TypeOK, CreatePosted
      <4>3. EditPosted(r)'
        <5>1. /\ pc[r] = "account" /\ pc'[r] = IF seen[r] = NoRow THEN "insert" ELSE "revert"
              /\ UNCHANGED <<rows, seen, cur, obj, wrow, wposted, tainted>>
          BY DEF LedgerInv, TypeOK
        <5>2. EditPosted(r)
          BY DEF LedgerInv
        <5>3. QED
          BY ONLY <5>1, <5>2 DEF EditPosted
      <4>4. QED
        BY <3>1, <4>1, <4>2, <4>3 DEF Fits
    <3>2. CASE s # r
      BY <3>2, Frame DEF LedgerInv, TypeOK, Same, Fits
    <3>3. QED
      BY <3>1, <3>2
  <2>5. QED
    BY <2>1, <2>2, <2>3, <2>4 DEF LedgerInv, Fits
<1>3. QED
  BY <1>1, <1>2

\* The uses of a category are counted.
LEMMA CountCategoryUseInv ==
  ASSUME LedgerInv, NEW r \in Reqs, CountCategoryUse(r)
  PROVE  LedgerInv'
<1>1. CASE Rollback(r)
  BY <1>1, RollbackInv
<1>2. CASE ~Rollback(r)
  <2> USE <1>2 DEF CountCategoryUse, Check, Goto, database, dbtx, local, history
  <2>1. TypeOK'
    BY DEF LedgerInv, TypeOK, PCs
  <2>2. NoDanglingReference' /\ PostedMatchesRow'
    BY DEF LedgerInv, NoDanglingReference, PostedMatchesRow, ParentsExist
  <2>3. RowsOwned'
    BY DEF LedgerInv, RowsOwned, ParentsExist
  <2>4. ASSUME NEW s \in Reqs PROVE Fits(s)'
    <3>1. CASE s = r
      <4>1. FieldsFit(r)'
        BY DEF LedgerInv, TypeOK, FieldsFit, Clear
      <4>2. CreatePosted(r)'
        BY DEF LedgerInv, TypeOK, CreatePosted
      <4>3. EditPosted(r)'
        BY DEF LedgerInv, TypeOK, EditPosted, FieldsFit, Clear
      <4>4. QED
        BY <3>1, <4>1, <4>2, <4>3 DEF Fits
    <3>2. CASE s # r
      BY <3>2, Frame DEF LedgerInv, TypeOK, Same, Fits
    <3>3. QED
      BY <3>1, <3>2
  <2>5. QED
    BY <2>1, <2>2, <2>3, <2>4 DEF LedgerInv, Fits
<1>3. QED
  BY <1>1, <1>2

\* A row is inserted, and pins its parents.
LEMMA InsertInv ==
  ASSUME LedgerInv, NEW r \in Reqs, Insert(r)
  PROVE  LedgerInv'
<1>1. CASE Rollback(r)
  BY <1>1, RollbackInv
<1>2. ASSUME ParentsExist(cur[r]), NEW t \in Txs \ issued, pc[r] = "insert",
             issued' = issued \cup {t}, wrow' = [wrow EXCEPT ![r][t] = cur[r]],
             obj' = [obj EXCEPT ![r] = t], Goto(r, "apply"),
             UNCHANGED <<rows, balance, accounts, categories, lock, wdelta,
                         seen, cur, left, started, history>>
      PROVE  LedgerInv'
  <2> USE <1>2 DEF Goto, history
  <2>0. /\ cur[r] \in Row /\ seen[r] = NoRow
        /\ rows[t] = NoRow /\ \A s \in Reqs : wrow[s][t] = Untouched
    BY DEF LedgerInv, TypeOK, RowOrNone, FieldsFit, RowsOwned
  <2>1. TypeOK'
    BY <2>0 DEF LedgerInv, TypeOK, RowOrNone, PCs
  <2>2. NoDanglingReference' /\ PostedMatchesRow'
    BY DEF LedgerInv, NoDanglingReference, PostedMatchesRow, ParentsExist
  <2>3. RowsOwned'
    BY <2>0 DEF LedgerInv, TypeOK, RowsOwned, ParentsExist
  <2>4. ASSUME NEW s \in Reqs PROVE Fits(s)'
    <3>1. CASE s = r
      <4>1. FieldsFit(r)'
        BY <2>0 DEF LedgerInv, TypeOK, FieldsFit
      <4>2. CreatePosted(r)'
        BY <2>0, Distinct DEF LedgerInv, TypeOK, CreatePosted
      <4>3. EditPosted(r)'
        BY <2>0 DEF LedgerInv, TypeOK, EditPosted
      <4>4. QED
        BY <3>1, <4>1, <4>2, <4>3 DEF Fits
    <3>2. CASE s # r
      BY <3>2, Frame DEF LedgerInv, TypeOK, Same, Fits
    <3>3. QED
      BY <3>1, <3>2
  <2>5. QED
    BY <2>1, <2>2, <2>3, <2>4 DEF LedgerInv, Fits
<1>3. QED
  BY <1>1, <1>2 DEF Insert

\* The changed row is written in the open transaction.
LEMMA SaveInv ==
  ASSUME LedgerInv, NEW r \in Reqs, Save(r)
  PROVE  LedgerInv'
<1>1. CASE Rollback(r)
  BY <1>1, RollbackInv
<1>2. CASE ~Rollback(r)
  <2> USE <1>2 DEF Save, Goto, database, local, history
  <2>0. /\ pc[r] = "save" /\ pc' = [pc EXCEPT ![r] = "commit"]
        /\ wrow' = [wrow EXCEPT ![r][obj[r]] = cur[r]]
        /\ cur[r] \in RowOrNone /\ (cur[r] # NoRow => ParentsExist(cur[r]))
        /\ obj[r] \in Txs /\ seen[r] # NoRow /\ obj[r] \in issued
        /\ RowFree(r, obj[r])
    BY DEF LedgerInv, TypeOK, FieldsFit, RowsOwned, EditPosted
  <2>1. TypeOK'
    BY <2>0 DEF LedgerInv, TypeOK, RowOrNone, PCs
  <2>2. NoDanglingReference' /\ PostedMatchesRow'
    BY DEF LedgerInv, NoDanglingReference, PostedMatchesRow, ParentsExist
  <2>3. RowsOwned'
    BY <2>0 DEF LedgerInv, TypeOK, RowsOwned, ParentsExist, RowFree
  <2>4. ASSUME NEW s \in Reqs PROVE Fits(s)'
    <3>1. CASE s = r
      <4>1. FieldsFit(r)'
        BY <2>0 DEF LedgerInv, TypeOK, FieldsFit
      <4>2. CreatePosted(r)'
        BY <2>0 DEF LedgerInv, TypeOK, CreatePosted
      <4>3. EditPosted(r)'
        <5>1. /\ \A t \in Txs : wrow'[r][t] = IF t = obj[r] THEN cur[r] ELSE wrow[r][t]
              /\ pc'[r] = "commit"
              /\ UNCHANGED <<rows, seen, cur, obj, wposted, tainted>>
          BY <2>0 DEF LedgerInv, TypeOK, history
        <5>2. EditPosted(r)
          BY DEF LedgerInv
        <5>3. \A a \in Accts : EffectOn(a, NoRow) = 0
          BY DEF EffectOn
        <5>4. QED
          BY ONLY <2>0, <5>1, <5>2, <5>3 DEF EditPosted
      <4>4. QED
        BY <3>1, <4>1, <4>2, <4>3 DEF Fits
    <3>2. CASE s # r
      BY <2>0, <3>2, Frame DEF LedgerInv, TypeOK, Same, Fits
    <3>3. QED
      BY <3>1, <3>2
  <2>5. QED
    BY <2>1, <2>2, <2>3, <2>4 DEF LedgerInv, Fits
<1>3. QED
  BY <1>1, <1>2

\* The row is deleted in the open transaction.
LEMMA RemoveInv ==
  ASSUME LedgerInv, NEW r \in Reqs, Remove(r)
  PROVE  LedgerInv'
<1>1. CASE Rollback(r)
  BY <1>1, RollbackInv
<1>2. CASE ~Rollback(r)
  <2> USE <1>2 DEF Remove, Goto, database, local, history
  <2>0. /\ pc[r] = "remove" /\ pc' = [pc EXCEPT ![r] = "commit"]
        /\ wrow' = [wrow EXCEPT ![r][obj[r]] = cur[r]]
        /\ cur[r] \in RowOrNone /\ (cur[r] # NoRow => ParentsExist(cur[r]))
        /\ obj[r] \in Txs /\ seen[r] # NoRow /\ obj[r] \in issued
        /\ RowFree(r, obj[r]) /\ cur[r] = NoRow
    BY DEF LedgerInv, TypeOK, FieldsFit, RowsOwned, EditPosted
  <2>1. TypeOK'
    BY <2>0 DEF LedgerInv, TypeOK, RowOrNone, PCs
  <2>2. NoDanglingReference' /\ PostedMatchesRow'
    BY DEF LedgerInv, NoDanglingReference, PostedMatchesRow, ParentsExist
  <2>3. RowsOwned'
    BY <2>0 DEF LedgerInv, TypeOK, RowsOwned, ParentsExist, RowFree
  <2>4. ASSUME NEW s \in Reqs PROVE Fits(s)'
    <3>1. CASE s = r
      <4>1. FieldsFit(r)'
        BY <2>0 DEF LedgerInv, TypeOK, FieldsFit
      <4>2. CreatePosted(r)'
        BY <2>0 DEF LedgerInv, TypeOK, CreatePosted
      <4>3. EditPosted(r)'
        <5>1. /\ \A t \in Txs : wrow'[r][t] = IF t = obj[r] THEN cur[r] ELSE wrow[r][t]
              /\ pc'[r] = "commit"
              /\ UNCHANGED <<rows, seen, cur, obj, wposted, tainted>>
          BY <2>0 DEF LedgerInv, TypeOK, history
        <5>2. EditPosted(r)
          BY DEF LedgerInv
        <5>3. \A a \in Accts : EffectOn(a, NoRow) = 0
          BY DEF EffectOn
        <5>4. QED
          BY ONLY <2>0, <5>1, <5>2, <5>3 DEF EditPosted
      <4>4. QED
        BY <3>1, <4>1, <4>2, <4>3 DEF Fits
    <3>2. CASE s # r
      BY <2>0, <3>2, Frame DEF LedgerInv, TypeOK, Same, Fits
    <3>3. QED
      BY <3>1, <3>2
  <2>5. QED
    BY <2>1, <2>2, <2>3, <2>4 DEF LedgerInv, Fits
<1>3. QED
  BY <1>1, <1>2

\* What AddToBalance leaves behind: either the statement found the account and
\* posted n to it, or the request is tainted.
LEMMA AddToBalanceEffect ==
  ASSUME LedgerInv, NEW r \in Reqs, NEW a \in Accts, NEW n \in Int, NEW t \in Txs,
         AddToBalance(r, a, n, t)
  PROVE  /\ lock' \in [Accts -> Reqs \cup {Free}]
         /\ wdelta' \in [Reqs -> [Accts -> Int]]
         /\ wposted' \in [Reqs -> [Accts -> [Txs -> Int]]]
         /\ tainted' \in [Reqs -> BOOLEAN]
         /\ UNCHANGED <<rows, balance, accounts, categories, issued, wrow,
                        opening, posted, skew, retyped>>
         /\ \A s \in Reqs \ {r} : wposted'[s] = wposted[s] /\ tainted'[s] = tainted[s]
         /\ \A b \in Accts, u \in Txs : u # t => wposted'[r][b][u] = wposted[r][b][u]
         /\ a \in accounts \/ ~tainted'[r] =>
              /\ tainted'[r] = tainted[r]
              /\ \A b \in Accts : wposted'[r][b][t] =
                   wposted[r][b][t] + (IF b = a THEN n ELSE 0)
<1> USE DEF AddToBalance, database
<1>0. TypeOK
  BY DEF LedgerInv
<1>1. CASE a \in accounts
  <2>1. /\ lock' = [lock EXCEPT ![a] = r]
        /\ wdelta' = [wdelta EXCEPT ![r][a] = @ + n]
        /\ wposted' = [wposted EXCEPT ![r][a][t] = @ + n]
        /\ tainted' = tainted
        /\ UNCHANGED <<rows, balance, accounts, categories, issued, wrow,
                       opening, posted, skew, retyped>>
    BY <1>1
  <2>2. lock' \in [Accts -> Reqs \cup {Free}] /\ tainted' \in [Reqs -> BOOLEAN]
    BY <1>0, <2>1 DEF TypeOK
  <2>3. wdelta' \in [Reqs -> [Accts -> Int]]
    BY <1>0, <2>1 DEF TypeOK
  <2>4. wposted' \in [Reqs -> [Accts -> [Txs -> Int]]]
    BY <1>0, <2>1 DEF TypeOK
  <2>5. \A s \in Reqs \ {r} : wposted'[s] = wposted[s]
    BY <1>0, <2>1 DEF TypeOK
  <2>6. \A b \in Accts, u \in Txs : u # t => wposted'[r][b][u] = wposted[r][b][u]
    BY <1>0, <2>1 DEF TypeOK
  <2>7. \A b \in Accts : wposted'[r][b][t] = wposted[r][b][t] + (IF b = a THEN n ELSE 0)
    BY <1>0, <2>1 DEF TypeOK
  <2>8. QED
    BY <2>1, <2>2, <2>3, <2>4, <2>5, <2>6, <2>7
<1>2. CASE a \notin accounts
  <2>1. TRUE \in BOOLEAN /\ tainted' = [tainted EXCEPT ![r] = TRUE]
    BY <1>2
  <2>2. tainted'[r] /\ tainted' \in [Reqs -> BOOLEAN]
        /\ \A s \in Reqs \ {r} : tainted'[s] = tainted[s]
    BY <1>0, <2>1 DEF TypeOK
  <2>3. QED
    BY <1>0, <1>2, <2>2 DEF TypeOK
<1>3. QED
  BY <1>1, <1>2

\* The loaded effect is taken back.
LEMMA RevertInv ==
  ASSUME LedgerInv, NEW r \in Reqs, Revert(r)
  PROVE  LedgerInv'
<1> DEFINE a == seen[r].acct
           n == -Effect(seen[r])
           t == obj[r]
<1>1. /\ pc[r] = "revert" /\ seen[r] \in Row /\ seen[r] # NoRow /\ t \in Txs
      /\ a \in Accts /\ n \in Int /\ EditPosted(r)
      /\ pc' = [pc EXCEPT ![r] = IF cur[r] = NoRow THEN "remove" ELSE "apply"]
      /\ UNCHANGED <<obj, seen, cur, left, started>>
  BY RowFields, EffectInt DEF Revert, Goto, local, LedgerInv, TypeOK, FieldsFit, RowOrNone
<1>2. AddToBalance(r, a, n, t)
  BY DEF Revert
<1> HIDE DEF a, n, t
<1>3. /\ lock' \in [Accts -> Reqs \cup {Free}]
      /\ wdelta' \in [Reqs -> [Accts -> Int]]
      /\ wposted' \in [Reqs -> [Accts -> [Txs -> Int]]]
      /\ tainted' \in [Reqs -> BOOLEAN]
      /\ UNCHANGED <<rows, balance, accounts, categories, issued, wrow,
                     opening, posted, skew, retyped>>
      /\ \A s \in Reqs \ {r} : wposted'[s] = wposted[s] /\ tainted'[s] = tainted[s]
      /\ \A b \in Accts, u \in Txs : u # t => wposted'[r][b][u] = wposted[r][b][u]
      /\ a \in accounts \/ ~tainted'[r] =>
           /\ tainted'[r] = tainted[r]
           /\ \A b \in Accts : wposted'[r][b][t] =
                wposted[r][b][t] + (IF b = a THEN n ELSE 0)
  BY <1>1, <1>2, AddToBalanceEffect
<1>4. TypeOK'
  BY <1>1, <1>3 DEF LedgerInv, TypeOK, PCs
<1>5. NoDanglingReference' /\ PostedMatchesRow' /\ RowsOwned'
  BY <1>1, <1>3 DEF LedgerInv, NoDanglingReference, PostedMatchesRow, RowsOwned, ParentsExist
<1>6. ASSUME NEW s \in Reqs PROVE Fits(s)'
  <2>1. CASE s = r
    <3>1. FieldsFit(r)'
      BY <1>1, <1>3 DEF LedgerInv, TypeOK, FieldsFit
    <3>2. CreatePosted(r)'
      BY <1>1 DEF CreatePosted
    <3>3. EditPosted(r)'
      <4>1. \A b \in Accts : (IF b = a THEN n ELSE 0) = 0 - EffectOn(b, seen[r])
        <5>1. Effect(seen[r]) \in Int
          BY <1>1, RowFields DEF Effect
        <5>2. QED
          BY <1>1, <5>1 DEF EffectOn, a, n
      <4>2. \A b \in Accts, u \in Txs : wposted[r][b][u] \in Int
        BY DEF LedgerInv, TypeOK
      <4>3. \A b \in Accts : EffectOn(b, seen[r]) \in Int
        BY <1>1, EffectInt DEF RowOrNone
      <4>4. pc'[r] \in {"remove", "apply"}
        BY <1>1 DEF LedgerInv, TypeOK
      <4>5. \A u \in Txs : wrow'[r][u] =
              IF u = obj'[r] /\ pc'[r] = "commit" THEN cur'[r] ELSE Untouched
        BY <1>1, <1>3, <4>4 DEF EditPosted
      <4>6. ASSUME NEW u \in Txs \ {obj'[r]}, NEW b \in Accts
            PROVE  wposted'[r][b][u] = 0
        <5>1. u # t /\ u \in Txs \ {obj[r]}
          BY <1>1 DEF t
        <5>2. wposted[r][b][u] = 0
          BY <1>1, <5>1 DEF EditPosted
        <5>3. QED
          BY <1>3, <5>1, <5>2
      <4>7. ASSUME ~tainted'[r], NEW b \in Accts
            PROVE  /\ rows'[obj'[r]] = seen'[r]
                   /\ wposted'[r][b][obj'[r]] = 0 - EffectOn(b, seen'[r])
        <5>1. rows[t] = seen[r] /\ wposted[r][b][t] = 0
          BY <1>1, <1>3, <4>7 DEF EditPosted, t
        <5>2. wposted'[r][b][t] = 0 + (IF b = a THEN n ELSE 0)
          BY <1>3, <4>7, <5>1
        <5>3. QED
          BY <1>1, <1>3, <4>1, <4>3, <5>1, <5>2 DEF t
      <4>8. QED
        BY <4>3, <4>4, <4>5, <4>6, <4>7, <1>1 DEF EditPosted
    <3>4. QED
      BY <2>1, <3>1, <3>2, <3>3 DEF Fits
  <2>2. CASE s # r
    BY <1>1, <1>3, <2>2, Frame DEF LedgerInv, TypeOK, Same, Fits
  <2>3. QED
    BY <2>1, <2>2
<1>7. QED
  BY <1>4, <1>5, <1>6 DEF LedgerInv, Fits

\* The new effect is posted.
LEMMA ApplyInv ==
  ASSUME LedgerInv, NEW r \in Reqs, Apply(r)
  PROVE  LedgerInv'
<1> DEFINE a == cur[r].acct
           n == Effect(cur[r])
           t == obj[r]
<1>1. /\ pc[r] = "apply" /\ cur[r] \in Row /\ cur[r] # NoRow /\ t \in Txs
      /\ a \in Accts /\ n \in Int /\ EditPosted(r) /\ CreatePosted(r)
      /\ pc' = [pc EXCEPT ![r] = IF seen[r] # NoRow THEN "save"
                                 ELSE IF left[r] > 1 THEN "category" ELSE "commit"]
      /\ left' = [left EXCEPT ![r] = IF seen[r] = NoRow THEN @ - 1 ELSE @]
      /\ (seen[r] = NoRow => left[r] > 0)
      /\ UNCHANGED <<obj, seen, cur, started>>
  BY RowFields, EffectInt DEF Apply, Goto, LedgerInv, TypeOK, FieldsFit, RowOrNone
<1>2. AddToBalance(r, a, n, t)
  BY DEF Apply
<1> HIDE DEF a, n, t
<1>3. /\ lock' \in [Accts -> Reqs \cup {Free}]
      /\ wdelta' \in [Reqs -> [Accts -> Int]]
      /\ wposted' \in [Reqs -> [Accts -> [Txs -> Int]]]
      /\ tainted' \in [Reqs -> BOOLEAN]
      /\ UNCHANGED <<rows, balance, accounts, categories, issued, wrow,
                     opening, posted, skew, retyped>>
      /\ \A s \in Reqs \ {r} : wposted'[s] = wposted[s] /\ tainted'[s] = tainted[s]
      /\ \A b \in Accts, u \in Txs : u # t => wposted'[r][b][u] = wposted[r][b][u]
      /\ a \in accounts \/ ~tainted'[r] =>
           /\ tainted'[r] = tainted[r]
           /\ \A b \in Accts : wposted'[r][b][t] =
                wposted[r][b][t] + (IF b = a THEN n ELSE 0)
  BY <1>1, <1>2, AddToBalanceEffect
<1>4. TypeOK'
  <2>1. left' \in [Reqs -> Nat]
    BY <1>1 DEF LedgerInv, TypeOK
  <2>2. QED
    BY <1>1, <1>3, <2>1 DEF LedgerInv, TypeOK, PCs
<1>5. NoDanglingReference' /\ PostedMatchesRow' /\ RowsOwned'
  BY <1>1, <1>3 DEF LedgerInv, NoDanglingReference, PostedMatchesRow, RowsOwned, ParentsExist
<1>6. /\ \A b \in Accts : (IF b = a THEN n ELSE 0) = EffectOn(b, cur[r])
      /\ \A b \in Accts, u \in Txs : wposted[r][b][u] \in Int
      /\ \A b \in Accts : EffectOn(b, cur[r]) \in Int /\ EffectOn(b, seen[r]) \in Int
  <2>1. \A b \in Accts : EffectOn(b, cur[r]) \in Int /\ EffectOn(b, seen[r]) \in Int
    BY <1>1, EffectInt DEF RowOrNone, LedgerInv, TypeOK
  <2>2. QED
    BY <1>1, <2>1 DEF EffectOn, a, n, LedgerInv, TypeOK
<1>7. ASSUME NEW s \in Reqs PROVE Fits(s)'
  <2>1. CASE s = r
    <3>0. pc'[r] = IF seen[r] # NoRow THEN "save"
                   ELSE IF left[r] > 1 THEN "category" ELSE "commit"
      BY <1>1 DEF LedgerInv, TypeOK
    <3>1. FieldsFit(r)'
      BY <1>1, <1>3 DEF LedgerInv, TypeOK, FieldsFit
    <3>2. CreatePosted(r)'
      <4>1. SUFFICES ASSUME seen[r] = NoRow PROVE CreatePosted(r)'
        BY <1>1 DEF CreatePosted
      <4>2. a \in accounts
        BY <1>1, <4>1, Distinct DEF CreatePosted, LedgerInv, RowsOwned, ParentsExist, a, t
      <4>3. pc'[r] \in {"category", "commit"} /\ ~tainted'[r]
        BY <1>1, <1>3, <3>0, <4>1, <4>2 DEF CreatePosted
      <4>4. ASSUME NEW u \in Txs
            PROVE  /\ wrow'[r][u] # NoRow
                   /\ wrow'[r][u] # Untouched => rows'[u] = NoRow
        BY <1>1, <1>3, <4>1 DEF CreatePosted
      <4>5. ASSUME NEW u \in Txs, NEW b \in Accts
            PROVE  wposted'[r][b][u] =
                     IF wrow[r][u] = Untouched THEN 0 ELSE EffectOn(b, wrow[r][u])
        <5>1. CASE u = t
          <6>1. wrow[r][u] = cur[r] /\ wrow[r][u] # Untouched /\ wposted[r][b][u] = 0
            BY <1>1, <4>1, <5>1, Distinct DEF CreatePosted, t
          <6>2. wposted'[r][b][u] = 0 + EffectOn(b, cur[r])
            BY <1>3, <1>6, <4>2, <5>1, <6>1
          <6>3. QED
            BY <1>6, <6>1, <6>2
        <5>2. CASE u # t
          BY <1>1, <1>3, <4>1, <5>2 DEF CreatePosted, t
        <5>3. QED
          BY <5>1, <5>2
      <4>6. QED
        BY <1>3, <4>3, <4>4, <4>5 DEF CreatePosted
    <3>3. EditPosted(r)'
      <4>1. SUFFICES ASSUME seen[r] # NoRow PROVE EditPosted(r)'
        BY <1>1 DEF EditPosted
      <4>2. pc'[r] = "save"
        BY <3>0, <4>1
      <4>3. \A u \in Txs : wrow'[r][u] =
              IF u = obj'[r] /\ pc'[r] = "commit" THEN cur'[r] ELSE Untouched
        BY <1>1, <1>3, <4>1, <4>2 DEF EditPosted
      <4>4. ASSUME NEW u \in Txs \ {obj'[r]}, NEW b \in Accts
            PROVE  wposted'[r][b][u] = 0
        <5>1. u # t /\ u \in Txs \ {obj[r]}
          BY <1>1 DEF t
        <5>2. wposted[r][b][u] = 0
          BY <1>1, <4>1, <5>1 DEF EditPosted
        <5>3. QED
          BY <1>3, <5>1, <5>2
      <4>5. ASSUME ~tainted'[r], NEW b \in Accts
            PROVE  /\ wposted'[r][b][obj'[r]] =
                        (IF pc'[r] \in {"save", "commit"} THEN EffectOn(b, cur'[r]) ELSE 0)
                      - (IF pc'[r] \in {"category", "account", "revert"} THEN 0
                         ELSE EffectOn(b, seen'[r]))
        <5>1. rows[t] = seen[r] /\ wposted[r][b][t] = 0 - EffectOn(b, seen[r])
          BY <1>1, <1>3, <1>6, <4>1, <4>5 DEF EditPosted, t
        <5>2. wposted'[r][b][t] = wposted[r][b][t] + EffectOn(b, cur[r])
          BY <1>3, <1>6, <4>5
        <5>3. QED
          BY <1>1, <1>3, <1>6, <4>2, <5>1, <5>2 DEF t
      <4>6. ~tainted'[r] => rows'[obj'[r]] = seen'[r]
        BY <1>1, <1>3, <4>1 DEF EditPosted
      <4>7. QED
        BY <4>3, <4>4, <4>5, <4>6 DEF EditPosted
    <3>4. QED
      BY <2>1, <3>1, <3>2, <3>3 DEF Fits
  <2>2. CASE s # r
    BY <1>1, <1>3, <2>2, Frame DEF LedgerInv, TypeOK, Same, Fits
  <2>3. QED
    BY <2>1, <2>2
<1>8. QED
  BY <1>4, <1>5, <1>7 DEF LedgerInv, Fits

\* The open rows and postings become the ledger's: here EditPosted and CreatePosted pay.
LEMMA CommitInv ==
  ASSUME LedgerInv, NEW r \in Reqs, Commit(r)
  PROVE  LedgerInv'
<1>0. TypeOK /\ pc[r] = "commit" /\ CreatePosted(r) /\ EditPosted(r)
  BY DEF LedgerInv, Commit
<1>1. /\ rows' = [t \in Txs |-> IF wrow[r][t] = Untouched THEN rows[t] ELSE wrow[r][t]]
      /\ posted' = [a \in Accts |-> [t \in Txs |-> posted[a][t] + wposted[r][a][t]]]
      /\ balance' = [a \in Accts |-> balance[a] + wdelta[r][a]]
      /\ skew' = IF tainted[r] THEN skew \cup {obj[r]} ELSE skew
      /\ tainted' = [s \in Reqs |-> IF s = r THEN FALSE
                                    ELSE tainted[s] \/ s \in Overtaken(r)]
      /\ UNCHANGED <<accounts, categories, issued, started, opening, retyped>>
  BY DEF Commit
<1>2. TypeOK'
  <2>1. rows' \in [Txs -> RowOrNone]
    BY <1>0, <1>1 DEF TypeOK, RowOrNone
  <2>2. /\ posted' \in [Accts -> [Txs -> Int]] /\ balance' \in [Accts -> Int]
    BY <1>0, <1>1 DEF TypeOK
  <2>3. skew' \subseteq Txs /\ tainted' \in [Reqs -> BOOLEAN]
    <3>1. obj[r] \in Txs
      BY <1>0 DEF LedgerInv, FieldsFit
    <3>2. \A s \in Reqs : tainted[s] \in BOOLEAN /\ (s \in Overtaken(r)) \in BOOLEAN
      BY <1>0 DEF TypeOK
    <3>3. QED
      BY <1>0, <1>1, <3>1, <3>2 DEF TypeOK
  <2>4. /\ lock' \in [Accts -> Reqs \cup {Free}]
        /\ wrow' \in [Reqs -> [Txs -> RowOrNone \cup {Untouched}]]
        /\ wdelta' \in [Reqs -> [Accts -> Int]]
        /\ wposted' \in [Reqs -> [Accts -> [Txs -> Int]]]
    BY <1>0 DEF TypeOK, Commit, Finish, Zero, NothingPosted, NothingWritten
  <2>5. /\ pc' \in [Reqs -> PCs] /\ left' \in [Reqs -> Nat]
        /\ obj' \in [Reqs -> Txs \cup Accts \cup Cats \cup {NoId}]
        /\ seen' \in [Reqs -> RowOrNone] /\ cur' \in [Reqs -> RowOrNone]
    BY <1>0 DEF TypeOK, Commit, Finish, RowOrNone, PCs
  <2>6. QED
    BY <1>0, <1>1, <2>1, <2>2, <2>3, <2>4, <2>5 DEF TypeOK
<1>3. RowsOwned' /\ NoDanglingReference'
  <2> USE DEF RowsOwned, ParentsExist
  <2>1. \A t \in Txs : rows'[t] # NoRow =>
          /\ t \in issued
          /\ rows'[t].acct \in accounts /\ categories[rows'[t].cat] # NoCat
    BY <1>0, <1>1 DEF LedgerInv, NoDanglingReference
  <2>2. /\ \A s \in Reqs, t \in Txs : wrow'[s][t] # Untouched => s # r /\ wrow'[s] = wrow[s]
        /\ \A s \in Reqs : seen'[s] # NoRow => seen'[s] = seen[s] /\ obj'[s] = obj[s]
    BY <1>0 DEF Commit, Finish, TypeOK, NothingWritten
  <2>3. \A s \in Reqs \ {r} : wrow'[s] = wrow[s]
    BY <1>0 DEF Commit, Finish, TypeOK
  <2>4. \A t \in Txs : wrow'[r][t] = Untouched
    BY <1>0 DEF Commit, Finish, TypeOK, NothingWritten
  <2>5. NoDanglingReference'
    BY <1>1, <2>1 DEF NoDanglingReference
  <2>6. /\ \A t \in Txs : rows'[t] # NoRow => t \in issued'
        /\ \A s \in Reqs : seen'[s] # NoRow => obj'[s] \in issued'
    BY <1>1, <2>1, <2>2 DEF LedgerInv
  <2>7. ASSUME NEW s \in Reqs, NEW t \in Txs, wrow'[s][t] # Untouched
        PROVE  /\ t \in issued'
               /\ wrow'[s][t] # NoRow =>
                    /\ wrow'[s][t].acct \in accounts'
                    /\ categories'[wrow'[s][t].cat] # NoCat
               /\ \A q \in Reqs \ {s} : wrow'[q][t] = Untouched
    <3>1. s # r /\ wrow'[s][t] = wrow[s][t]
      BY <2>2, <2>7
    <3>2. /\ t \in issued /\ (wrow[s][t] # NoRow => ParentsExist(wrow[s][t]))
          /\ \A q \in Reqs \ {s} : wrow[q][t] = Untouched
      BY <2>7, <3>1 DEF LedgerInv
    <3>3. QED
      BY <1>1, <2>3, <2>4, <3>1, <3>2
  <2>8. QED
    BY <2>5, <2>6, <2>7
<1>4. PostedMatchesRow'
  <2>1. SUFFICES ASSUME NEW t \in Txs, t \notin skew', NEW a \in Accts
                 PROVE  posted'[a][t] = EffectOn(a, rows'[t])
    BY DEF PostedMatchesRow
  <2>2. /\ posted'[a][t] = posted[a][t] + wposted[r][a][t]
        /\ posted[a][t] = EffectOn(a, rows[t]) /\ posted[a][t] \in Int
        /\ wposted[r][a][t] \in Int
        /\ rows'[t] = IF wrow[r][t] = Untouched THEN rows[t] ELSE wrow[r][t]
    BY <1>0, <1>1, <2>1 DEF LedgerInv, PostedMatchesRow, TypeOK
  <2>3. CASE wrow[r][t] = Untouched
    <3>1. wposted[r][a][t] = 0
      <4>1. CASE seen[r] = NoRow
        BY <1>0, <2>3, <4>1 DEF CreatePosted
      <4>2. CASE seen[r] # NoRow
        <5>1. cur[r] # Untouched
          BY <1>0, Distinct DEF TypeOK, RowOrNone
        <5>2. t # obj[r]
          BY <1>0, <2>3, <4>2, <5>1 DEF EditPosted
        <5>3. QED
          BY <1>0, <4>2, <5>2 DEF EditPosted
      <4>3. QED
        BY <4>1, <4>2
    <3>2. QED
      BY <2>2, <2>3, <3>1
  <2>4. CASE wrow[r][t] # Untouched /\ seen[r] = NoRow
    <3>1. wposted[r][a][t] = EffectOn(a, wrow[r][t]) /\ rows[t] = NoRow
      BY <1>0, <2>4 DEF CreatePosted
    <3>2. posted[a][t] = 0
      BY <2>2, <3>1 DEF EffectOn
    <3>3. QED
      BY <2>2, <2>4, <3>1, <3>2
  <2>5. CASE wrow[r][t] # Untouched /\ seen[r] # NoRow
    <3>1. t = obj[r] /\ wrow[r][t] = cur[r] /\ ~tainted[r]
      BY <1>0, <1>1, <2>1, <2>5 DEF EditPosted
    <3>2. rows[t] = seen[r] /\ wposted[r][a][t] = EffectOn(a, cur[r]) - EffectOn(a, seen[r])
      BY <1>0, <2>5, <3>1 DEF EditPosted
    <3>3. EffectOn(a, cur[r]) \in Int /\ EffectOn(a, seen[r]) \in Int
      BY <1>0, EffectInt DEF TypeOK
    <3>4. QED
      BY <2>2, <2>5, <3>1, <3>2, <3>3
  <2>6. QED
    BY <2>3, <2>4, <2>5
<1>5. ASSUME NEW s \in Reqs PROVE Fits(s)'
  <2>1. CASE s = r
    <3>1. pc'[r] = "idle" /\ Clear(r)'
      BY <1>0, <1>1 DEF Commit, Finish, TypeOK, Clear
    <3>2. QED
      BY <2>1, <3>1, ClearFits
  <2>2. CASE s # r
    <3>1. /\ pc'[s] = pc[s] /\ obj'[s] = obj[s] /\ seen'[s] = seen[s] /\ cur'[s] = cur[s]
          /\ left'[s] = left[s] /\ wrow'[s] = wrow[s] /\ wposted'[s] = wposted[s]
          /\ tainted'[s] = (tainted[s] \/ s \in Overtaken(r))
      BY <1>0, <1>1, <2>2 DEF Commit, Finish, TypeOK
    <3>2. FieldsFit(s) /\ CreatePosted(s) /\ EditPosted(s)
      BY DEF LedgerInv
    <3>3. s \in Overtaken(r) => seen[s] # NoRow
      BY DEF Overtaken
    <3>4. FieldsFit(s)'
      BY <3>1, <3>2, <3>3 DEF FieldsFit, Clear
    <3>5. CreatePosted(s)'
      <4>1. \A t \in Txs : wrow[s][t] # Untouched => rows'[t] = rows[t]
        BY <1>1, <2>2 DEF LedgerInv, RowsOwned
      <4>2. SUFFICES ASSUME seen[s] = NoRow PROVE CreatePosted(s)'
        BY <3>1 DEF CreatePosted
      <4>3. ~tainted'[s]
        BY <3>1, <3>2, <3>3, <4>2 DEF CreatePosted
      <4>4. QED
        BY <3>1, <3>2, <4>1, <4>2, <4>3 DEF CreatePosted
    <3>6. EditPosted(s)'
      <4>1. SUFFICES ASSUME seen[s] # NoRow PROVE EditPosted(s)'
        BY <3>1 DEF EditPosted
      <4>2. obj[s] \in Txs
        BY <3>2, <4>1 DEF FieldsFit
      <4>3. ~tainted'[s] => rows'[obj[s]] = rows[obj[s]]
        BY <1>1, <2>2, <3>1, <4>1, <4>2 DEF Overtaken
      <4>4. QED
        BY <3>1, <3>2, <4>1, <4>3 DEF EditPosted
    <3>7. QED
      BY <3>4, <3>5, <3>6 DEF Fits
  <2>3. QED
    BY <2>1, <2>2
<1>6. QED
  BY <1>2, <1>3, <1>4, <1>5 DEF LedgerInv, Fits

\* An account is created with the balance of the request.
LEMMA CreateAccountInv ==
  ASSUME LedgerInv, NEW r \in Reqs, CreateAccount(r)
  PROVE  LedgerInv'
<1> USE DEF CreateAccount, StoreAccount, Begin, database, dbtx, local
<1>1. TypeOK'
  BY LedgerAssumption DEF LedgerInv, TypeOK, PCs
<1>2. NoDanglingReference'
  BY DEF LedgerInv, NoDanglingReference, ParentsExist
<1>3. RowsOwned'
  BY Distinct DEF LedgerInv, RowsOwned, TypeOK, RowOrNone, ParentsExist, FieldsFit, Clear
<1>4. PostedMatchesRow'
  BY DEF LedgerInv, PostedMatchesRow
<1>5. ASSUME NEW s \in Reqs PROVE Fits(s)'
  BY Frame DEF LedgerInv, TypeOK, Same, Fits
<1>6. QED
  BY <1>1, <1>2, <1>3, <1>4, <1>5 DEF LedgerInv, Fits

\* An account is loaded.
LEMMA BeginAccountUpdateInv ==
  ASSUME LedgerInv, NEW r \in Reqs, BeginAccountUpdate(r)
  PROVE  LedgerInv'
<1> USE DEF BeginAccountUpdate, Begin, Goto, database, dbtx, history
<1>1. TypeOK'
  BY LedgerAssumption DEF LedgerInv, TypeOK, PCs
<1>2. NoDanglingReference'
  BY DEF LedgerInv, NoDanglingReference, ParentsExist
<1>3. RowsOwned'
  BY Distinct DEF LedgerInv, RowsOwned, TypeOK, RowOrNone, ParentsExist, FieldsFit, Clear
<1>4. PostedMatchesRow'
  BY DEF LedgerInv, PostedMatchesRow
<1>5. ASSUME NEW s \in Reqs PROVE Fits(s)'
  <2>1. CASE s = r
    <3>1. FieldsFit(r)'
      BY Distinct DEF LedgerInv, TypeOK, FieldsFit, Clear
    <3>2. CreatePosted(r)'
      BY DEF LedgerInv, TypeOK, FieldsFit, Clear, CreatePosted
    <3>3. EditPosted(r)'
      BY DEF LedgerInv, TypeOK, FieldsFit, Clear, EditPosted
    <3>4. QED
      BY <2>1, <3>1, <3>2, <3>3 DEF Fits
  <2>2. CASE s # r
    BY <2>2, Frame DEF LedgerInv, TypeOK, Same, Fits
  <2>3. QED
    BY <2>1, <2>2
<1>6. QED
  BY <1>1, <1>2, <1>3, <1>4, <1>5 DEF LedgerInv, Fits

\* It is written with the balance of the request, which is where its history begins anew.
LEMMA SaveAccountInv ==
  ASSUME LedgerInv, NEW r \in Reqs, SaveAccount(r)
  PROVE  LedgerInv'
<1> USE DEF SaveAccount, StoreAccount, Goto, dbtx
<1>1. TypeOK'
  BY LedgerAssumption DEF LedgerInv, TypeOK, PCs, FieldsFit
<1>2. NoDanglingReference'
  BY DEF LedgerInv, NoDanglingReference, ParentsExist
<1>3. RowsOwned'
  BY Distinct DEF LedgerInv, RowsOwned, TypeOK, RowOrNone, ParentsExist, FieldsFit, Clear
<1>4. PostedMatchesRow'
  BY DEF LedgerInv, PostedMatchesRow
<1>5. ASSUME NEW s \in Reqs PROVE Fits(s)'
  <2>1. CASE s = r
    <3>1. FieldsFit(r)'
      BY Distinct DEF LedgerInv, TypeOK, FieldsFit, Clear
    <3>2. CreatePosted(r)'
      BY DEF LedgerInv, TypeOK, FieldsFit, Clear, CreatePosted
    <3>3. EditPosted(r)'
      BY DEF LedgerInv, TypeOK, FieldsFit, Clear, EditPosted
    <3>4. QED
      BY <2>1, <3>1, <3>2, <3>3 DEF Fits
  <2>2. CASE s # r
    BY <2>2, Frame DEF LedgerInv, TypeOK, Same, Fits
  <2>3. QED
    BY <2>1, <2>2
<1>6. QED
  BY <1>1, <1>2, <1>3, <1>4, <1>5 DEF LedgerInv, Fits

\* The uses of an account are counted: there are none.
LEMMA BeginAccountDeleteInv ==
  ASSUME LedgerInv, NEW r \in Reqs, BeginAccountDelete(r)
  PROVE  LedgerInv'
<1> USE DEF BeginAccountDelete, Begin, Goto, database, dbtx, history
<1>1. TypeOK'
  BY LedgerAssumption DEF LedgerInv, TypeOK, PCs
<1>2. NoDanglingReference'
  BY DEF LedgerInv, NoDanglingReference, ParentsExist
<1>3. RowsOwned'
  BY Distinct DEF LedgerInv, RowsOwned, TypeOK, RowOrNone, ParentsExist, FieldsFit, Clear
<1>4. PostedMatchesRow'
  BY DEF LedgerInv, PostedMatchesRow
<1>5. ASSUME NEW s \in Reqs PROVE Fits(s)'
  <2>1. CASE s = r
    <3>1. FieldsFit(r)'
      BY Distinct DEF LedgerInv, TypeOK, FieldsFit, Clear
    <3>2. CreatePosted(r)'
      BY DEF LedgerInv, TypeOK, FieldsFit, Clear, CreatePosted
    <3>3. EditPosted(r)'
      BY DEF LedgerInv, TypeOK, FieldsFit, Clear, EditPosted
    <3>4. QED
      BY <2>1, <3>1, <3>2, <3>3 DEF Fits
  <2>2. CASE s # r
    BY <2>2, Frame DEF LedgerInv, TypeOK, Same, Fits
  <2>3. QED
    BY <2>1, <2>2
<1>6. QED
  BY <1>1, <1>2, <1>3, <1>4, <1>5 DEF LedgerInv, Fits

\* An account without rows goes; the pins say that no open row needs it.
LEMMA DeleteAccountInv ==
  ASSUME LedgerInv, NEW r \in Reqs, DeleteAccount(r)
  PROVE  LedgerInv'
<1> USE DEF DeleteAccount, Goto, dbtx, history
<1>1. TypeOK'
  BY LedgerAssumption DEF LedgerInv, TypeOK, PCs
<1>2. NoDanglingReference'
  BY DEF LedgerInv, NoDanglingReference, ParentsExist
<1>3. RowsOwned'
  BY DEF LedgerInv, RowsOwned, TypeOK, RowOrNone, ParentsExist, PinsAcct, FieldsFit, Clear
<1>4. PostedMatchesRow'
  BY DEF LedgerInv, PostedMatchesRow
<1>5. ASSUME NEW s \in Reqs PROVE Fits(s)'
  <2>1. CASE s = r
    <3>1. FieldsFit(r)'
      BY Distinct DEF LedgerInv, TypeOK, FieldsFit, Clear
    <3>2. CreatePosted(r)'
      BY DEF LedgerInv, TypeOK, FieldsFit, Clear, CreatePosted
    <3>3. EditPosted(r)'
      BY DEF LedgerInv, TypeOK, FieldsFit, Clear, EditPosted
    <3>4. QED
      BY <2>1, <3>1, <3>2, <3>3 DEF Fits
  <2>2. CASE s # r
    BY <2>2, Frame DEF LedgerInv, TypeOK, Same, Fits
  <2>3. QED
    BY <2>1, <2>2
<1>6. QED
  BY <1>1, <1>2, <1>3, <1>4, <1>5 DEF LedgerInv, Fits

\* A category is created.
LEMMA CreateCategoryInv ==
  ASSUME LedgerInv, NEW r \in Reqs, CreateCategory(r)
  PROVE  LedgerInv'
<1> USE DEF CreateCategory, StoreCategory, Begin, database, dbtx, local
<1>1. TypeOK'
  BY LedgerAssumption DEF LedgerInv, TypeOK, PCs
<1>2. NoDanglingReference'
  BY Distinct DEF LedgerInv, TypeOK, NoDanglingReference, ParentsExist
<1>3. RowsOwned'
  BY Distinct DEF LedgerInv, RowsOwned, TypeOK, RowOrNone, ParentsExist, FieldsFit, Clear
<1>4. PostedMatchesRow'
  BY DEF LedgerInv, PostedMatchesRow
<1>5. ASSUME NEW s \in Reqs PROVE Fits(s)'
  BY Frame DEF LedgerInv, TypeOK, Same, Fits
<1>6. QED
  BY <1>1, <1>2, <1>3, <1>4, <1>5 DEF LedgerInv, Fits

\* A category is loaded, to be changed or deleted.
LEMMA LoadCategoryInv ==
  ASSUME LedgerInv, NEW r \in Reqs, NEW op, NEW label \in {"catSave", "catCount"},
         LoadCategory(r, op, label)
  PROVE  LedgerInv'
<1> USE DEF LoadCategory, Begin, Goto, database, dbtx, history
<1>1. TypeOK'
  BY LedgerAssumption DEF LedgerInv, TypeOK, PCs
<1>2. NoDanglingReference'
  BY DEF LedgerInv, NoDanglingReference, ParentsExist
<1>3. RowsOwned'
  BY Distinct DEF LedgerInv, RowsOwned, TypeOK, RowOrNone, ParentsExist, FieldsFit, Clear
<1>4. PostedMatchesRow'
  BY DEF LedgerInv, PostedMatchesRow
<1>5. ASSUME NEW s \in Reqs PROVE Fits(s)'
  <2>1. CASE s = r
    <3>1. FieldsFit(r)'
      BY Distinct DEF LedgerInv, TypeOK, FieldsFit, Clear
    <3>2. CreatePosted(r)'
      BY DEF LedgerInv, TypeOK, FieldsFit, Clear, CreatePosted
    <3>3. EditPosted(r)'
      BY DEF LedgerInv, TypeOK, FieldsFit, Clear, EditPosted
    <3>4. QED
      BY <2>1, <3>1, <3>2, <3>3 DEF Fits
  <2>2. CASE s # r
    BY <2>2, Frame DEF LedgerInv, TypeOK, Same, Fits
  <2>3. QED
    BY <2>1, <2>2
<1>6. QED
  BY <1>1, <1>2, <1>3, <1>4, <1>5 DEF LedgerInv, Fits

\* Its fields are written.
LEMMA SaveCategoryInv ==
  ASSUME LedgerInv, NEW r \in Reqs, SaveCategory(r)
  PROVE  LedgerInv'
<1> USE DEF SaveCategory, StoreCategory, Goto, dbtx
<1>1. TypeOK'
  BY LedgerAssumption DEF LedgerInv, TypeOK, PCs, FieldsFit
<1>2. NoDanglingReference'
  BY Distinct DEF LedgerInv, TypeOK, NoDanglingReference, ParentsExist
<1>3. RowsOwned'
  BY Distinct DEF LedgerInv, RowsOwned, TypeOK, RowOrNone, ParentsExist, FieldsFit, Clear
<1>4. PostedMatchesRow'
  BY DEF LedgerInv, PostedMatchesRow
<1>5. ASSUME NEW s \in Reqs PROVE Fits(s)'
  <2>1. CASE s = r
    <3>1. FieldsFit(r)'
      BY Distinct DEF LedgerInv, TypeOK, FieldsFit, Clear
    <3>2. CreatePosted(r)'
      BY DEF LedgerInv, TypeOK, FieldsFit, Clear, CreatePosted
    <3>3. EditPosted(r)'
      BY DEF LedgerInv, TypeOK, FieldsFit, Clear, EditPosted
    <3>4. QED
      BY <2>1, <3>1, <3>2, <3>3 DEF Fits
  <2>2. CASE s # r
    BY <2>2, Frame DEF LedgerInv, TypeOK, Same, Fits
  <2>3. QED
    BY <2>1, <2>2
<1>6. QED
  BY <1>1, <1>2, <1>3, <1>4, <1>5 DEF LedgerInv, Fits

\* A category without rows goes; the pins say that no open row needs it.
LEMMA DeleteCategoryInv ==
  ASSUME LedgerInv, NEW r \in Reqs, DeleteCategory(r)
  PROVE  LedgerInv'
<1> USE DEF DeleteCategory, Goto, dbtx, history
<1>1. TypeOK'
  BY LedgerAssumption DEF LedgerInv, TypeOK, PCs
<1>2. NoDanglingReference'
  BY DEF LedgerInv, TypeOK, NoDanglingReference, ParentsExist
<1>3. RowsOwned'
  BY DEF LedgerInv, RowsOwned, TypeOK, RowOrNone, ParentsExist, PinsCat, FieldsFit, Clear
<1>4. PostedMatchesRow'
  BY DEF LedgerInv, PostedMatchesRow
<1>5. ASSUME NEW s \in Reqs PROVE Fits(s)'
  <2>1. CASE s = r
    <3>1. FieldsFit(r)'
      BY Distinct DEF LedgerInv, TypeOK, FieldsFit, Clear
    <3>2. CreatePosted(r)'
      BY DEF LedgerInv, TypeOK, FieldsFit, Clear, CreatePosted
    <3>3. EditPosted(r)'
      BY DEF LedgerInv, TypeOK, FieldsFit, Clear, EditPosted
    <3>4. QED
      BY <2>1, <3>1, <3>2, <3>3 DEF Fits
  <2>2. CASE s # r
    BY <2>2, Frame DEF LedgerInv, TypeOK, Same, Fits
  <2>3. QED
    BY <2>1, <2>2
<1>6. QED
  BY <1>1, <1>2, <1>3, <1>4, <1>5 DEF LedgerInv, Fits

-----------------------------------------------------------------------------

\* A stuttering step.
LEMMA StutterInv ==
  ASSUME LedgerInv, UNCHANGED vars
  PROVE  LedgerInv'
<1> USE DEF vars, database, dbtx, local, history
<1>1. TypeOK' /\ NoDanglingReference' /\ PostedMatchesRow'
  BY DEF LedgerInv, TypeOK, NoDanglingReference, ParentsExist, PostedMatchesRow
<1>2. RowsOwned'
  BY DEF LedgerInv, RowsOwned, ParentsExist
<1>3. ASSUME NEW s \in Reqs PROVE Fits(s)'
  BY Frame DEF LedgerInv, Same, Fits
<1>4. QED
  BY <1>1, <1>2, <1>3 DEF LedgerInv, Fits

\* The lemmas above, one for each disjunct of Next.
LEMMA StepInv ==
  ASSUME LedgerInv, [Next]_vars
  PROVE  LedgerInv'
<1>1. ASSUME NEW r \in Reqs, Arrive(r) PROVE LedgerInv'
  BY <1>1, BeginCreateInv, LoadExistingInv, CreateAccountInv, BeginAccountUpdateInv,
     BeginAccountDeleteInv, CreateCategoryInv, LoadCategoryInv
     DEF Arrive, BeginUpdate, BeginDelete, BeginCategoryUpdate, BeginCategoryDelete
<1>2. ASSUME NEW r \in Reqs, Step(r) PROVE LedgerInv'
  BY <1>2, CheckCategoryInv, CheckAccountInv, InsertInv, RevertInv, ApplyInv, SaveInv,
     RemoveInv, CommitInv, SaveAccountInv, DeleteAccountInv, SaveCategoryInv,
     CountCategoryUseInv, DeleteCategoryInv
     DEF Step
<1>3. ASSUME NEW r \in Reqs, DeadlockAbort(r) \/ Abort(r) PROVE LedgerInv'
  BY <1>3, RollbackInv DEF DeadlockAbort, Abort
<1>4. CASE Quiet \/ UNCHANGED vars
  BY <1>4, StutterInv DEF Quiet
<1>5. QED
  BY <1>1, <1>2, <1>3, <1>4 DEF Next

\* LedgerInv holds in every reachable state, for any number of requests.
THEOREM LedgerInvariant == Spec => []LedgerInv
<1>1. LedgerInv /\ [Next]_vars => LedgerInv'
  BY StepInv
<1>2. QED
  BY InitInv, <1>1, PTL DEF Spec

\* Every variable keeps its type.
THEOREM TypeCorrect == Spec => []TypeOK
<1>1. LedgerInv => TypeOK
  BY DEF LedgerInv
<1>2. QED
  BY LedgerInvariant, <1>1, PTL

\* What was posted for a transaction that no stale request committed is the
\* effect of its stored row: the handlers keep "balances in sync with
\* transaction changes" (modules/transactions/README.md) up to that hole.
THEOREM PostedMatchesRowHolds == Spec => []PostedMatchesRow
<1>1. LedgerInv => PostedMatchesRow
  BY DEF LedgerInv
<1>2. QED
  BY LedgerInvariant, <1>1, PTL

\* The foreign keys and the counts before a delete leave no dangling reference.
THEOREM NoDanglingReferenceHolds == Spec => []NoDanglingReference
<1>1. LedgerInv => NoDanglingReference
  BY DEF LedgerInv
<1>2. QED
  BY LedgerInvariant, <1>1, PTL

-----------------------------------------------------------------------------
\* A step that is not a commit leaves the transactions table as it is.
LEMMA OnlyCommitWritesRows ==
  ASSUME [Next]_vars, ~UNCHANGED rows
  PROVE  \E r \in Reqs : Commit(r)
<1> USE DEF database, dbtx, local, history, Rollback
<1>1. ASSUME NEW r \in Reqs, Arrive(r) PROVE UNCHANGED rows
  BY <1>1 DEF Arrive, BeginCreate, BeginUpdate, BeginDelete, LoadExisting, CreateAccount,
     BeginAccountUpdate, BeginAccountDelete, CreateCategory, BeginCategoryUpdate,
     BeginCategoryDelete, LoadCategory
<1>2. ASSUME NEW r \in Reqs, Step(r), ~Commit(r) PROVE UNCHANGED rows
  BY <1>2 DEF Step, CheckCategory, CheckAccount, Check, Insert, Revert, Apply, AddToBalance,
     Save, Remove, SaveAccount, DeleteAccount, SaveCategory, CountCategoryUse, DeleteCategory
<1>3. ASSUME NEW r \in Reqs, DeadlockAbort(r) \/ Abort(r) PROVE UNCHANGED rows
  BY <1>3 DEF DeadlockAbort, Abort
<1>4. QED
  BY <1>1, <1>2, <1>3 DEF Next, Quiet, vars

\* No row comes back to the table behind the back of a delete, except as skew.
THEOREM DeletedStaysDeletedHolds == Spec => DeletedStaysDeleted
<1> DEFINE Back == \A t \in Txs : rows[t] = NoRow /\ rows'[t] # NoRow =>
                     \/ t \in skew'
                     \/ \E r \in Reqs : seen[r] = NoRow /\ wrow[r][t] = rows'[t]
<1>1. ASSUME LedgerInv, [Next]_vars PROVE [Back]_vars
  <2>1. SUFFICES ASSUME NEW t \in Txs, rows[t] = NoRow, rows'[t] # NoRow
                 PROVE  \/ t \in skew'
                        \/ \E r \in Reqs : seen[r] = NoRow /\ wrow[r][t] = rows'[t]
    OBVIOUS
  <2>2. PICK r \in Reqs : Commit(r)
    BY <1>1, <2>1, OnlyCommitWritesRows
  <2>3. wrow[r][t] # Untouched /\ rows'[t] = wrow[r][t] /\ pc[r] = "commit"
    BY <2>1, <2>2 DEF Commit
  <2>4. CASE seen[r] # NoRow
    <3>1. t = obj[r] /\ tainted[r]
      BY <1>1, <2>1, <2>3, <2>4 DEF LedgerInv, EditPosted
    <3>2. QED
      BY <2>2, <3>1 DEF Commit
  <2>5. QED
    BY <2>3, <2>4
<1>2. QED
  BY LedgerInvariant, <1>1, PTL DEF Spec, DeletedStaysDeleted

-----------------------------------------------------------------------------
(* Rows and the types of their categories.                                 *)

\* The category of w was known with the type of w, and is so still unless it
\* was deleted or its type was changed.
TypeFits(w) ==
  /\ w.cat \in issued
  /\ categories[w.cat] \in {w.type, NoCat} \/ w.cat \in retyped

\* A request or a table holds w.
Held(w) ==
  \/ \E r \in Reqs : cur[r] = w \/ \E t \in Txs : wrow[r][t] = w
  \/ \E t \in Txs : rows[t] = w

\* Behind CategoryTypeAgrees: whatever row is held anywhere fits, and a
\* category that is there, or that a request works on, was handed out.
TypedInv ==
  /\ \A c \in Cats : categories[c] # NoCat => c \in issued
  /\ \A r \in Reqs : pc[r] \in {"catSave", "catCount", "catDelete"} => obj[r] \in issued
  /\ \A w \in Row : Held(w) => TypeFits(w)

\* Only what creates, saves or deletes a category touches its type, and a type
\* that changes is in the history.
LEMMA CategoriesMove ==
  ASSUME LedgerInv, TypedInv, [Next]_vars
  PROVE  /\ issued \subseteq issued' /\ retyped \subseteq retyped'
         /\ \A c \in Cats :
              \/ categories'[c] = categories[c] \/ categories'[c] = NoCat
              \/ c \in issued' /\ (c \in issued => c \in retyped')
         /\ \A r \in Reqs : pc'[r] \in {"catSave", "catCount", "catDelete"} => obj'[r] \in issued
<1> USE DEF database, dbtx, local, history, Goto
<1>1. /\ pc \in [Reqs -> PCs] /\ obj \in [Reqs -> Txs \cup Accts \cup Cats \cup {NoId}]
      /\ categories \in [Cats -> Types \cup {NoCat}]
      /\ \A r \in Reqs : pc[r] \in {"catSave", "catCount", "catDelete"} =>
                           obj[r] \in issued /\ obj[r] \in Cats
  BY DEF LedgerInv, TypeOK, TypedInv, FieldsFit
<1> DEFINE Still == issued \subseteq issued' /\ UNCHANGED <<categories, retyped>>
           Works == \A r \in Reqs : pc'[r] \in {"catSave", "catCount", "catDelete"} =>
                                      obj'[r] \in issued
<1>2. ASSUME NEW r \in Reqs, Rollback(r) PROVE Still /\ Works
  BY <1>1, <1>2 DEF Rollback, Finish
<1>3. ASSUME NEW r \in Reqs,
             \/ BeginCreate(r) \/ BeginUpdate(r) \/ BeginDelete(r) \/ CreateAccount(r)
             \/ BeginAccountUpdate(r) \/ BeginAccountDelete(r)
             \/ BeginCategoryUpdate(r) \/ BeginCategoryDelete(r)
      PROVE  Still /\ Works
  BY <1>1, <1>3 DEF TypedInv, Begin, BeginCreate, BeginUpdate, BeginDelete, LoadExisting,
     CreateAccount, BeginAccountUpdate, BeginAccountDelete, LoadCategory, BeginCategoryUpdate,
     BeginCategoryDelete
<1>4. ASSUME NEW r \in Reqs, CheckCategory(r) \/ CheckAccount(r) \/ Insert(r) \/ Save(r)
                             \/ CountCategoryUse(r)
      PROVE  Still /\ Works
  <2>1. CASE Rollback(r)  BY <1>2, <2>1
  <2>2. CASE ~Rollback(r)
    BY <1>1, <1>4, <2>2 DEF CheckCategory, CheckAccount, Check, Insert, Save, CountCategoryUse
  <2> QED BY <2>1, <2>2
<1>5. ASSUME NEW r \in Reqs, Revert(r) \/ Apply(r) \/ Remove(r) \/ Commit(r)
                             \/ SaveAccount(r) \/ DeleteAccount(r)
      PROVE  Still /\ Works
  BY <1>1, <1>5 DEF Revert, Apply, AddToBalance, Remove, Commit, Finish, SaveAccount,
     StoreAccount, DeleteAccount
<1>6. ASSUME NEW r \in Reqs, CreateCategory(r)
      PROVE  /\ issued \subseteq issued' /\ retyped \subseteq retyped' /\ Works
             /\ \A c \in Cats :
                  \/ categories'[c] = categories[c] \/ categories'[c] = NoCat
                  \/ c \in issued' /\ (c \in issued => c \in retyped')
  BY <1>1, <1>6 DEF CreateCategory, StoreCategory
<1>7. ASSUME NEW r \in Reqs, SaveCategory(r)
      PROVE  /\ issued \subseteq issued' /\ retyped \subseteq retyped' /\ Works
             /\ \A c \in Cats :
                  \/ categories'[c] = categories[c] \/ categories'[c] = NoCat
                  \/ c \in issued' /\ (c \in issued => c \in retyped')
  BY <1>1, <1>7 DEF SaveCategory, StoreCategory
<1>8. ASSUME NEW r \in Reqs, DeleteCategory(r)
      PROVE  /\ issued \subseteq issued' /\ retyped \subseteq retyped' /\ Works
             /\ \A c \in Cats : categories'[c] = categories[c] \/ categories'[c] = NoCat
  BY <1>1, <1>8 DEF DeleteCategory
<1>9. CASE Quiet \/ UNCHANGED vars  BY <1>1, <1>9 DEF Quiet, vars
<1> HIDE DEF Still, Works
<1>10. ASSUME NEW r \in Reqs, Arrive(r) \/ Step(r) \/ DeadlockAbort(r) \/ Abort(r),
              ~CreateCategory(r), ~SaveCategory(r), ~DeleteCategory(r)
       PROVE  Still /\ Works
  BY Zenon, <1>2, <1>3, <1>4, <1>5, <1>10 DEF Arrive, Step, DeadlockAbort, Abort
<1> QED BY <1>6, <1>7, <1>8, <1>9, <1>10 DEF Next, Still, Works

\* A row that is held was held before, or comes from a client and was checked.
LEMMA HeldMoves ==
  ASSUME LedgerInv, [Next]_vars, NEW w \in Row, Held(w)'
  PROVE  Held(w) \/ categories[w.cat] = w.type
<1> USE DEF database, dbtx, local, history, Goto
<1>1. /\ w # NoRow /\ w # Untouched
      /\ cur \in [Reqs -> RowOrNone] /\ rows \in [Txs -> RowOrNone]
      /\ wrow \in [Reqs -> [Txs -> RowOrNone \cup {Untouched}]]
      /\ obj \in [Reqs -> Txs \cup Accts \cup Cats \cup {NoId}]
  BY Distinct DEF LedgerInv, TypeOK
<1>2. ASSUME NEW r \in Reqs, Finish(r), UNCHANGED rows PROVE Held(w)
  BY <1>1, <1>2 DEF Finish, Held, NothingWritten
<1>3. ASSUME UNCHANGED <<cur, wrow, rows>> PROVE Held(w)
  BY <1>1, <1>3 DEF Held
<1>4. ASSUME NEW r \in Reqs, BeginCreate(r) PROVE Held(w) \/ categories[w.cat] = w.type
  BY <1>1, <1>4 DEF BeginCreate, Held
<1>5. ASSUME NEW r \in Reqs, CheckCategory(r) PROVE Held(w) \/ categories[w.cat] = w.type
  BY <1>1, <1>2, <1>5 DEF CheckCategory, Held, Rollback
<1>6. ASSUME NEW r \in Reqs, Insert(r) \/ Save(r) \/ Remove(r) PROVE Held(w)
  <2>1. CASE Rollback(r)  BY <1>2, <2>1 DEF Rollback
  <2>2. CASE ~Rollback(r)
    <3>1. PICK t \in Txs, v \in {cur[r], NoRow} :
            wrow' = [wrow EXCEPT ![r][t] = v] /\ UNCHANGED <<cur, rows>>
      BY <1>6, <2>2 DEF Insert, Save, Remove, LedgerInv, FieldsFit
    <3> QED BY <1>1, <3>1 DEF Held
  <2> QED BY <2>1, <2>2
<1>7. ASSUME NEW r \in Reqs, Commit(r) PROVE Held(w)
  BY <1>1, <1>7 DEF Commit, Finish, Held, NothingWritten
<1>8. ASSUME NEW r \in Reqs, Arrive(r), ~BeginCreate(r) PROVE UNCHANGED <<cur, wrow, rows>>
  BY <1>8 DEF Arrive, BeginUpdate, BeginDelete, LoadExisting, CreateAccount,
     BeginAccountUpdate, BeginAccountDelete, CreateCategory, BeginCategoryUpdate,
     BeginCategoryDelete, LoadCategory
<1>9. ASSUME NEW r \in Reqs, CheckAccount(r) \/ Revert(r) \/ Apply(r) \/ SaveAccount(r)
                             \/ DeleteAccount(r) \/ SaveCategory(r) \/ CountCategoryUse(r)
                             \/ DeleteCategory(r)
      PROVE  Rollback(r) \/ UNCHANGED <<cur, wrow, rows>>
  BY <1>9 DEF CheckAccount, Check, Revert, Apply, AddToBalance, SaveAccount, DeleteAccount,
     SaveCategory, CountCategoryUse, DeleteCategory
<1>10. ASSUME NEW r \in Reqs, Rollback(r) PROVE Held(w)  BY <1>2, <1>10 DEF Rollback
<1>11. CASE Quiet \/ UNCHANGED vars  BY <1>3, <1>11 DEF Quiet, vars
<1>12. ASSUME NEW r \in Reqs, Step(r) PROVE Held(w) \/ categories[w.cat] = w.type
  BY Zenon, <1>3, <1>5, <1>6, <1>7, <1>9, <1>10, <1>12 DEF Step
<1> QED
  BY Zenon, <1>3, <1>4, <1>8, <1>10, <1>11, <1>12 DEF Next, DeadlockAbort, Abort

\* Every row somebody comes to hold has been compared with its category, and a type that
\* changes is in the history.
LEMMA TypedStep == LedgerInv /\ TypedInv /\ [Next]_vars => TypedInv'
<1> SUFFICES ASSUME LedgerInv, TypedInv, [Next]_vars PROVE TypedInv'
  OBVIOUS
<1>1. /\ issued \subseteq issued' /\ retyped \subseteq retyped'
      /\ \A c \in Cats :
           \/ categories'[c] = categories[c] \/ categories'[c] = NoCat
           \/ c \in issued' /\ (c \in issued => c \in retyped')
      /\ \A r \in Reqs : pc'[r] \in {"catSave", "catCount", "catDelete"} => obj'[r] \in issued
  BY CategoriesMove
<1>2. \A c \in Cats : categories'[c] # NoCat => c \in issued'  BY <1>1 DEF TypedInv
<1>3. ASSUME NEW w \in Row, Held(w)' PROVE TypeFits(w)'
  <2>1. w.cat \in Cats /\ w.type \in Types  BY RowFields
  <2>2. TypeFits(w)
    <3>1. CASE Held(w)  BY <3>1 DEF TypedInv
    <3>2. CASE categories[w.cat] = w.type  BY <2>1, <3>2, Distinct DEF TypeFits, TypedInv
    <3> QED BY <1>3, <3>1, <3>2, HeldMoves
  <2> QED BY <1>1, <2>1, <2>2 DEF TypeFits
<1> QED BY <1>1, <1>2, <1>3 DEF TypedInv

\* No rows, so no row of another type than its category.
LEMMA TypedInit == Init => TypedInv
<1> SUFFICES ASSUME Init PROVE TypedInv
  OBVIOUS
<1>1. \A w \in Row : ~Held(w)  BY Distinct DEF Init, Held, NothingWritten
<1> QED BY <1>1 DEF Init, TypedInv

\* A stored row has the type of its category ("category type mismatch",
\* transactions/service.go:275) long after the check, unless that category was
\* given another type (categories/service.go Update).
THEOREM CategoryTypeAgreesHolds == Spec => []CategoryTypeAgrees
<1>1. LedgerInv /\ TypedInv => CategoryTypeAgrees
  <2> SUFFICES ASSUME LedgerInv, TypedInv, NEW t \in Txs, rows[t] # NoRow,
                      rows[t].type # categories[rows[t].cat]
               PROVE  rows[t].cat \in retyped
    BY DEF CategoryTypeAgrees
  <2>1. rows[t] \in Row  BY DEF LedgerInv, TypeOK, RowOrNone
  <2>2. TypeFits(rows[t])  BY <2>1 DEF TypedInv, Held
  <2>3. categories[rows[t].cat] # NoCat  BY DEF LedgerInv, NoDanglingReference, ParentsExist
  <2> QED BY <2>2, <2>3 DEF TypeFits
<1> QED BY <1>1, LedgerInvariant, TypedInit, TypedStep, PTL DEF Spec

-----------------------------------------------------------------------------
(* Who can be in a deadlock.                                               *)

\* Statements that commit by themselves: they hold nothing while they wait.
Single == {"idle", "acctSave", "acctDelete", "catSave", "catCount", "catDelete"}

\* Behind OnlyTwoAccountsDeadlock: an Update locks the old account first and
\* its row last, and nobody else has loaded the rows a Create has inserted.
LocksInv ==
  /\ \A a \in Accts, r \in Reqs : lock[a] = r =>
       /\ pc[r] \notin Single
       /\ seen[r] # NoRow =>
            /\ pc[r] \notin {"category", "account", "revert"}
            /\ pc[r] = "apply" => a = seen[r].acct
  /\ \A s, r \in Reqs, t \in Txs :
       seen[s] = NoRow /\ wrow[s][t] # Untouched /\ seen[r] # NoRow => obj[r] # t

\* A step that takes no lock and writes no row, of a request that holds none
\* before or after it as LocksInv demands.
LEMMA LocksFrame ==
  ASSUME LedgerInv, LocksInv, NEW r \in Reqs,
         \A a \in Accts : lock'[a] = lock[a] \/ lock'[a] = Free,
         \A s \in Reqs \ {r} : pc'[s] = pc[s] /\ seen'[s] = seen[s] /\ obj'[s] = obj[s]
                               /\ wrow'[s] = wrow[s],
         \/ \A a \in Accts : lock'[a] # r
         \/ /\ pc[r] \notin Single => pc'[r] \notin Single
            /\ seen'[r] # NoRow => /\ seen[r] = seen'[r]
                                   /\ pc'[r] \notin {"category", "account", "revert", "apply"},
         \/ wrow'[r] = NothingWritten
         \/ wrow'[r] = wrow[r] /\ seen'[r] = seen[r]
         \/ seen'[r] # NoRow,
         \/ seen'[r] = NoRow
         \/ obj'[r] = obj[r] /\ seen'[r] = seen[r]
         \/ \A s \in Reqs, t \in Txs :
              seen[s] = NoRow /\ wrow[s][t] # Untouched => obj'[r] # t
  PROVE  LocksInv'
<1>1. ASSUME NEW a \in Accts, NEW s \in Reqs, lock'[a] = s
      PROVE  /\ pc'[s] \notin Single
             /\ seen'[s] # NoRow =>
                  /\ pc'[s] \notin {"category", "account", "revert"}
                  /\ pc'[s] = "apply" => a = seen'[s].acct
  <2>1. lock[a] = s  BY <1>1, LedgerAssumption
  <2>2. CASE s # r  BY <1>1, <2>1, <2>2 DEF LocksInv
  <2>3. CASE s = r  BY <1>1, <2>1, <2>3 DEF LocksInv
  <2> QED BY <2>2, <2>3
<1>2. ASSUME NEW s \in Reqs, NEW q \in Reqs, NEW t \in Txs,
             seen'[s] = NoRow, wrow'[s][t] # Untouched, seen'[q] # NoRow
      PROVE  obj'[q] # t
  <2>1. seen[s] = NoRow /\ wrow[s][t] # Untouched
    BY <1>2 DEF NothingWritten
  <2> QED BY <1>2, <2>1 DEF LocksInv
<1> QED BY <1>1, <1>2 DEF LocksInv

\* A request holds no more row locks than its statements have taken.
LEMMA LocksStep == LedgerInv /\ LocksInv /\ [Next]_vars => LocksInv'
<1> SUFFICES ASSUME LedgerInv, LocksInv, [Next]_vars PROVE LocksInv'
  OBVIOUS
<1> USE DEF database, dbtx, local, history, Goto
<1>1. /\ pc \in [Reqs -> PCs] /\ obj \in [Reqs -> Txs \cup Accts \cup Cats \cup {NoId}]
      /\ seen \in [Reqs -> RowOrNone] /\ lock \in [Accts -> Reqs \cup {Free}]
      /\ wrow \in [Reqs -> [Txs -> RowOrNone \cup {Untouched}]]
      /\ Free \notin Reqs
  BY LedgerAssumption DEF LedgerInv, TypeOK
<1>2. ASSUME NEW r \in Reqs, Finish(r) PROVE LocksInv'
  BY <1>1, <1>2, LocksFrame DEF Finish
<1>3. ASSUME NEW r \in Reqs, BeginUpdate(r) \/ BeginDelete(r) PROVE LocksInv'
  <2>1. PICK t \in Txs, label \in {"category", "revert"} :
          /\ pc[r] = "idle" /\ pc' = [pc EXCEPT ![r] = label]
          /\ rows[t] # NoRow
          /\ obj' = [obj EXCEPT ![r] = t]
          /\ seen' = [seen EXCEPT ![r] = rows[t]]
          /\ UNCHANGED <<lock, wrow>>
    BY <1>3 DEF BeginUpdate, BeginDelete, LoadExisting, Begin
  <2>2. \A a \in Accts : lock'[a] # r  BY <2>1 DEF LocksInv, Single
  <2>3. \A s \in Reqs, u \in Txs : seen[s] = NoRow /\ wrow[s][u] # Untouched => u # t
    BY <2>1 DEF LedgerInv, CreatePosted
  <2>4. wrow'[r] = NothingWritten  BY <2>1 DEF LedgerInv, FieldsFit, Clear
  <2> QED BY <1>1, <2>1, <2>2, <2>3, <2>4, LocksFrame
<1>4. ASSUME NEW r \in Reqs,
             \/ BeginCreate(r) \/ CreateAccount(r) \/ BeginAccountUpdate(r)
             \/ BeginAccountDelete(r) \/ CreateCategory(r)
             \/ BeginCategoryUpdate(r) \/ BeginCategoryDelete(r)
      PROVE  LocksInv'
  <2>1. /\ pc[r] = "idle" /\ UNCHANGED <<lock, wrow, seen>>
        /\ \A s \in Reqs \ {r} : pc'[s] = pc[s] /\ obj'[s] = obj[s]
    BY <1>1, <1>4 DEF Begin, BeginCreate, CreateAccount, BeginAccountUpdate,
       BeginAccountDelete, CreateCategory, BeginCategoryUpdate, BeginCategoryDelete, LoadCategory
  <2>2. seen[r] = NoRow  BY <2>1 DEF LedgerInv, FieldsFit, Clear
  <2>3. \A a \in Accts : lock'[a] # r  BY <2>1 DEF LocksInv, Single
  <2> QED BY <2>1, <2>2, <2>3, LocksFrame
<1>5. ASSUME NEW r \in Reqs,
             CheckCategory(r) \/ CheckAccount(r) \/ CountCategoryUse(r), ~Rollback(r)
      PROVE  LocksInv'
  <2>1. /\ UNCHANGED <<lock, wrow, seen, obj>>
        /\ \A s \in Reqs \ {r} : pc'[s] = pc[s]
        /\ \/ pc[r] = "category" /\ pc'[r] = "account"
           \/ pc[r] = "account" /\ pc'[r] = IF seen[r] = NoRow THEN "insert" ELSE "revert"
           \/ pc[r] = "catCount" /\ pc'[r] = "catDelete"
    BY <1>1, <1>5 DEF CheckCategory, CheckAccount, CountCategoryUse, Check
  <2>2. CASE seen[r] = NoRow /\ pc[r] # "catCount"
    BY <2>1, <2>2, LocksFrame DEF Single
  <2>3. CASE seen[r] # NoRow \/ pc[r] = "catCount"
    <3>1. \A a \in Accts : lock'[a] # r  BY <2>1, <2>3 DEF LocksInv, Single
    <3> QED BY <2>1, <3>1, LocksFrame
  <2> QED BY <2>2, <2>3
<1>6. ASSUME NEW r \in Reqs, Insert(r), ~Rollback(r) PROVE LocksInv'
  <2>1. PICK t \in Txs \ issued :
          /\ pc[r] = "insert" /\ pc' = [pc EXCEPT ![r] = "apply"]
          /\ wrow' = [wrow EXCEPT ![r][t] = cur[r]] /\ obj' = [obj EXCEPT ![r] = t]
          /\ UNCHANGED <<lock, seen>>
    BY <1>6 DEF Insert
  <2>2. seen[r] = NoRow  BY <2>1 DEF LedgerInv, FieldsFit
  <2>3. \A q \in Reqs : seen[q] # NoRow => obj[q] # t  BY <2>1 DEF LedgerInv, RowsOwned
  <2> QED BY <1>1, <2>1, <2>2, <2>3 DEF LocksInv, Single
<1>7. ASSUME NEW r \in Reqs, Revert(r) \/ Apply(r) PROVE LocksInv'
  <2>1. /\ UNCHANGED <<wrow, seen, obj>>
        /\ \A s \in Reqs \ {r} : pc'[s] = pc[s]
        /\ \/ pc[r] = "revert" /\ pc'[r] \in {"remove", "apply"}
           \/ pc[r] = "apply" /\ seen[r] # NoRow /\ pc'[r] = "save"
           \/ pc[r] = "apply" /\ seen[r] = NoRow /\ pc'[r] \in {"category", "commit"}
    BY <1>1, <1>7 DEF Revert, Apply, AddToBalance
  <2>2. PICK b \in Accts : /\ \A a \in Accts \ {b} : lock'[a] = lock[a]
                           /\ lock'[b] \in {lock[b], r}
                           /\ pc[r] = "revert" => b = seen[r].acct
    <3>1. CASE Revert(r)
      <4>1. seen[r].acct \in Accts
        BY <1>1, <3>1, RowFields DEF Revert, LedgerInv, FieldsFit, RowOrNone
      <4> QED BY <1>1, <3>1, <4>1 DEF Revert, AddToBalance
    <3>2. CASE Apply(r)
      <4>1. cur[r].acct \in Accts
        BY <3>2, RowFields DEF Apply, LedgerInv, FieldsFit, RowOrNone, TypeOK
      <4> QED BY <1>1, <3>2, <4>1 DEF Apply, AddToBalance
    <3> QED BY <1>7, <3>1, <3>2
  <2>3. pc[r] = "revert" => seen[r] # NoRow  BY DEF LedgerInv, FieldsFit
  <2>4. ASSUME NEW a \in Accts, NEW s \in Reqs, lock'[a] = s
        PROVE  /\ pc'[s] \notin Single
               /\ seen[s] # NoRow =>
                    /\ pc'[s] \notin {"category", "account", "revert"}
                    /\ pc'[s] = "apply" => a = seen[s].acct
    <3>1. CASE s # r  BY <2>1, <2>2, <2>4, <3>1 DEF LocksInv
    <3>2. CASE s = r
      <4>1. pc[r] = "revert" => lock[a] # r  BY <2>3 DEF LocksInv
      <4> QED BY <2>1, <2>2, <2>3, <2>4, <3>2, <4>1 DEF Single
    <3> QED BY <3>1, <3>2
  <2> QED BY <2>1, <2>4 DEF LocksInv
<1>8. ASSUME NEW r \in Reqs, Save(r) \/ Remove(r), ~Rollback(r) PROVE LocksInv'
  <2>1. /\ UNCHANGED <<lock, seen, obj>>
        /\ pc[r] \in {"save", "remove"} /\ pc' = [pc EXCEPT ![r] = "commit"]
        /\ \A s \in Reqs \ {r} : wrow'[s] = wrow[s]
    BY <1>1, <1>8 DEF Save, Remove
  <2>2. seen[r] # NoRow  BY <2>1 DEF LedgerInv, FieldsFit
  <2> QED BY <1>1, <2>1, <2>2, LocksFrame DEF Single
<1>9. ASSUME NEW r \in Reqs, SaveAccount(r) \/ DeleteAccount(r) \/ SaveCategory(r)
                             \/ DeleteCategory(r)
      PROVE  LocksInv'
  <2>1. /\ UNCHANGED <<lock, seen, wrow>> /\ pc[r] \in Single
        /\ \A s \in Reqs \ {r} : pc'[s] = pc[s] /\ obj'[s] = obj[s]
    BY <1>1, <1>9 DEF SaveAccount, DeleteAccount, SaveCategory, DeleteCategory, Single
  <2>2. seen[r] = NoRow  BY <2>1 DEF LedgerInv, FieldsFit, Clear, Single
  <2>3. \A a \in Accts : lock'[a] # r  BY <2>1 DEF LocksInv
  <2> QED BY <2>1, <2>2, <2>3, LocksFrame
<1>10. CASE Quiet \/ UNCHANGED vars
  BY <1>10 DEF Quiet, vars, LocksInv
<1>11. ASSUME NEW r \in Reqs, Rollback(r) \/ Commit(r) PROVE LocksInv'
  BY <1>2, <1>11 DEF Rollback, Commit
<1>12. ASSUME NEW r \in Reqs, Arrive(r) PROVE LocksInv'
  BY Zenon, <1>3, <1>4, <1>12 DEF Arrive
<1>13. ASSUME NEW r \in Reqs, Step(r) PROVE LocksInv'
  BY Zenon, <1>5, <1>6, <1>7, <1>8, <1>9, <1>11, <1>13 DEF Step
<1> QED BY Zenon, <1>10, <1>11, <1>12, <1>13 DEF Next, DeadlockAbort, Abort

\* No locks.
LEMMA LocksInit == Init => LocksInv
BY LedgerAssumption DEF Init, LocksInv, NothingWritten

\* Of the members of a deadlock, each waits for a lock as its second one.
LEMMA MemberOfDeadlock ==
  ASSUME LedgerInv, LocksInv, NEW S \in SUBSET Reqs, Deadlocked(S), NEW r \in S
  PROVE  cur[r] # NoRow /\
           \/ seen[r] # NoRow /\ seen[r].acct # cur[r].acct
           \/ seen[r] = NoRow /\ \E a \in Accts \ {cur[r].acct} : lock[a] = r
<1>1. \A s \in S : s \in Reqs /\ seen[s] \in RowOrNone /\ cur[s] \in RowOrNone
  BY DEF LedgerInv, TypeOK
<1>2. \A s \in Reqs : pc[s] \in Single => wrow[s] = NothingWritten /\ seen[s] = NoRow
  BY DEF LedgerInv, FieldsFit, Clear, Single
\* Who waits has written nothing, or is a Create.
<1>3. \A s \in S : pc[s] # "commit" /\ (seen[s] # NoRow => wrow[s] = NothingWritten)
  <2> SUFFICES ASSUME NEW s \in S
               PROVE  pc[s] # "commit" /\ (seen[s] # NoRow => wrow[s] = NothingWritten)
    OBVIOUS
  <2>1. \E q \in S : WaitsFor(s, q)  BY DEF Deadlocked
  <2>2. pc[s] # "commit"  BY <2>1 DEF WaitsFor
  <2>3. seen[s] # NoRow => \A t \in Txs : wrow[s][t] = Untouched
    BY <1>1, <2>2 DEF LedgerInv, EditPosted
  <2>4. wrow[s] = [t \in Txs |-> wrow[s][t]]  BY <1>1 DEF LedgerInv, TypeOK
  <2> QED BY <2>2, <2>3, <2>4 DEF NothingWritten
\* So nobody waits for a row.
<1>4. \A s, q \in S : WaitsFor(s, q) => pc[s] \notin {"save", "remove"}
  <2> SUFFICES ASSUME NEW s \in S, NEW q \in S, wrow[q][obj[s]] # Untouched,
                      pc[s] \in {"save", "remove"}
               PROVE  FALSE
    BY DEF WaitsFor
  <2>1. seen[s] # NoRow /\ obj[s] \in Txs  BY <1>1 DEF LedgerInv, FieldsFit
  <2>2. CASE seen[q] = NoRow  BY <1>1, <2>1, <2>2 DEF LocksInv
  <2>3. CASE seen[q] # NoRow  BY <1>3, <2>1, <2>3 DEF NothingWritten
  <2> QED BY <2>2, <2>3
\* Nor for a request that holds nothing.
<1>5. \A s, q \in S : WaitsFor(s, q) => pc[q] \notin Single /\ pc[q] # "revert"
  <2> SUFFICES ASSUME NEW s \in S, NEW q \in S, WaitsFor(s, q),
                      pc[q] \in Single \/ pc[q] = "revert"
               PROVE  FALSE
    OBVIOUS
  <2>1. \A a \in Accts : lock[a] # q
    BY <1>1 DEF LedgerInv, FieldsFit, LocksInv
  <2>2. wrow[q] = NothingWritten
    BY <1>1, <1>2, <1>3 DEF LedgerInv, FieldsFit
  <2>3. (\A a \in Accts : ~PinsAcct(q, a)) /\ (\A c \in Cats : ~PinsCat(q, c))
    BY <2>2, Distinct DEF PinsAcct, PinsCat, NothingWritten
  <2>4. pc[s] \notin {"save", "remove"}  BY <1>4
  <2>5. /\ pc[s] = "revert" => seen[s].acct \in Accts
        /\ pc[s] = "apply" => cur[s].acct \in Accts
        /\ pc[s] \in {"acctSave", "acctDelete"} => obj[s] \in Accts
        /\ pc[s] = "catDelete" => obj[s] \in Cats
    BY <1>1, RowFields DEF LedgerInv, FieldsFit, RowOrNone
  <2> QED BY <2>1, <2>3, <2>4, <2>5 DEF WaitsFor
\* Every member is waited for, so every member is at Apply.
<1>6. \A s \in S : \E q \in S : WaitsFor(s, q)  BY DEF Deadlocked
<1>7. \A s \in S : \E q \in S : WaitsFor(q, s)  BY DEF Deadlocked
<1>8. \A s \in S : pc[s] = "apply"
  <2> SUFFICES ASSUME NEW s \in S PROVE pc[s] = "apply"
    OBVIOUS
  <2>1. pc[s] \notin Single /\ pc[s] # "revert"  BY <1>5, <1>7
  <2>2. pc[s] \notin {"save", "remove"}  BY <1>4, <1>6
  <2> QED BY <1>6, <2>1, <2>2 DEF WaitsFor, Single
<1>9. PICK q \in S : WaitsFor(r, q)  BY <1>6
<1>10. PICK s \in S : WaitsFor(s, r)  BY <1>7
<1>11. cur[r] # NoRow /\ lock[cur[r].acct] = q /\ q # r
  BY <1>1, <1>8, <1>9 DEF WaitsFor, LedgerInv, FieldsFit
<1>12. lock[cur[s].acct] = r /\ cur[s].acct \in Accts
  <2>1. lock[cur[s].acct] = r  BY <1>8, <1>10 DEF WaitsFor
  <2>2. cur[s] \in Row  BY <1>1, <1>8 DEF LedgerInv, FieldsFit, RowOrNone
  <2> QED BY <2>1, <2>2, RowFields
<1>13. cur[s].acct # cur[r].acct  BY <1>11, <1>12
<1>14. seen[r] # NoRow => cur[s].acct = seen[r].acct
  BY <1>1, <1>8, <1>12 DEF LocksInv
<1> QED BY <1>11, <1>12, <1>13, <1>14

\* Only a request that takes two row locks can be in a deadlock, however many
\* requests there are: an Update that moves a transaction to another account,
\* or a batch (transactions/service.go:214-222 and 169-175).
THEOREM OnlyTwoAccountsDeadlockHolds == Spec => []OnlyTwoAccountsDeadlock
<1>1. LedgerInv /\ LocksInv => OnlyTwoAccountsDeadlock
  BY MemberOfDeadlock DEF OnlyTwoAccountsDeadlock
<1> QED BY <1>1, LedgerInvariant, LocksInit, LocksStep, PTL DEF Spec

-----------------------------------------------------------------------------
(* Every cent of a balance is explained.                                   *)

\* What an open transaction will add to a balance is what its statements have
\* added in the name of each of its rows.
DeltasPosted ==
  \A r \in Reqs, a \in Accts : wdelta[r][a] = Total(wposted[r][a], Txs)

Explained == \A a \in Accts : balance[a] = opening[a] + Total(posted[a], Txs)

BalanceInv == DeltasPosted /\ Explained

\* BalanceExplained with the sum of the library of sums.
LEMMA ExplainedIs == BalanceExplained <=> Explained
BY DEF Total, BalanceExplained, Explained

\* What a step does to the tables of the promise and to what is posted.
LEMMA StepKinds ==
  ASSUME LedgerInv, [Next]_vars
  PROVE  \/ UNCHANGED <<rows, accounts, balance, skew, opening, posted, wdelta, wposted>>
         \/ \E r \in Reqs : Rollback(r)
         \/ \E r \in Reqs, a \in Accts, n \in Int, t \in Txs : AddToBalance(r, a, n, t)
         \/ \E r \in Reqs : Commit(r)
         \/ \E a \in Accts, x \in Int :
              StoreAccount(a, x) /\ UNCHANGED <<rows, skew, posted, wdelta, wposted>>
         \/ \E a \in Accts :
              /\ \A t \in Txs : rows[t] # NoRow => rows[t].acct # a
              /\ accounts' = accounts \ {a}
              /\ UNCHANGED <<rows, balance, skew, opening, posted, wdelta, wposted>>
<1> DEFINE Still == UNCHANGED <<rows, accounts, balance, skew, opening, posted,
                                wdelta, wposted>>
           Rolls == \E r \in Reqs : Rollback(r)
           Posts == \E r \in Reqs, a \in Accts, n \in Int, t \in Txs :
                      AddToBalance(r, a, n, t)
           Commits == \E r \in Reqs : Commit(r)
           Stores == \E a \in Accts, x \in Int :
             StoreAccount(a, x) /\ UNCHANGED <<rows, skew, posted, wdelta, wposted>>
           Closes == \E a \in Accts :
              /\ \A t \in Txs : rows[t] # NoRow => rows[t].acct # a
              /\ accounts' = accounts \ {a}
              /\ UNCHANGED <<rows, balance, skew, opening, posted, wdelta, wposted>>
<1>0. Openings \subseteq Int  BY LedgerAssumption
<1>1. ASSUME NEW r \in Reqs, Arrive(r) PROVE Still \/ Stores
  <2>1. CASE CreateAccount(r)
    <3>1. PICK a \in Accts \ issued, x \in Openings : StoreAccount(a, x)
      BY <2>1 DEF CreateAccount
    <3>2. UNCHANGED <<rows, skew, posted, wdelta, wposted>>
      BY <2>1 DEF CreateAccount, dbtx
    <3> QED BY <1>0, <3>1, <3>2, Zenon
  <2>2. CASE CreateCategory(r)  BY <2>2 DEF CreateCategory, dbtx
  <2>3. CASE BeginCreate(r)  BY <2>3 DEF BeginCreate, database, dbtx, history
  <2>4. CASE BeginUpdate(r) \/ BeginDelete(r)
    BY <2>4 DEF BeginUpdate, BeginDelete, LoadExisting, database, dbtx, history
  <2>5. CASE BeginAccountUpdate(r) \/ BeginAccountDelete(r)
    BY <2>5 DEF BeginAccountUpdate, BeginAccountDelete, database, dbtx, history
  <2>6. CASE BeginCategoryUpdate(r) \/ BeginCategoryDelete(r)
    BY <2>6 DEF BeginCategoryUpdate, BeginCategoryDelete, LoadCategory, database, dbtx,
       history
  <2> HIDE DEF Still, Stores
  <2> QED BY <1>1, <2>1, <2>2, <2>3, <2>4, <2>5, <2>6 DEF Arrive
<1>2. ASSUME NEW r \in Reqs, Step(r)
      PROVE  Still \/ Rolls \/ Posts \/ Commits \/ Stores \/ Closes
  <2>1. CASE CheckCategory(r)
    BY <2>1 DEF CheckCategory, database, dbtx, history
  <2>2. CASE CheckAccount(r) \/ CountCategoryUse(r)
    BY <2>2 DEF CheckAccount, CountCategoryUse, Check, database, dbtx, history
  <2>3. CASE Insert(r)  BY <2>3 DEF Insert, history
  <2>4. CASE Revert(r)
    <3>1. seen[r] \in Row /\ obj[r] \in Txs
      BY <2>4 DEF Revert, LedgerInv, TypeOK, FieldsFit, RowOrNone
    <3>2. seen[r].acct \in Accts /\ -Effect(seen[r]) \in Int
      BY <3>1, RowFields DEF Effect
    <3>3. AddToBalance(r, seen[r].acct, -Effect(seen[r]), obj[r])  BY <2>4 DEF Revert
    <3> QED BY <3>1, <3>2, <3>3, Zenon
  <2>5. CASE Apply(r)
    <3>1. cur[r] \in Row /\ obj[r] \in Txs
      BY <2>5 DEF Apply, LedgerInv, TypeOK, FieldsFit, RowOrNone
    <3>2. cur[r].acct \in Accts /\ Effect(cur[r]) \in Int
      BY <3>1, RowFields DEF Effect
    <3>3. AddToBalance(r, cur[r].acct, Effect(cur[r]), obj[r])  BY <2>5 DEF Apply
    <3> QED BY <3>1, <3>2, <3>3, Zenon
  <2>6. CASE Save(r)  BY <2>6 DEF Save, database, history
  <2>7. CASE Remove(r)  BY <2>7 DEF Remove, database, history
  <2>8. CASE Commit(r)  BY <2>8
  <2>9. CASE SaveAccount(r)
    <3>1. obj[r] \in Accts  BY <2>9 DEF SaveAccount, LedgerInv, FieldsFit
    <3>2. PICK x \in Openings : StoreAccount(obj[r], x)  BY <2>9 DEF SaveAccount
    <3>3. UNCHANGED <<rows, skew, posted, wdelta, wposted>>
      BY <2>9 DEF SaveAccount, dbtx
    <3> QED BY <1>0, <3>1, <3>2, <3>3, Zenon
  <2>10. CASE DeleteAccount(r)
    <3>1. obj[r] \in Accts  BY <2>10 DEF DeleteAccount, LedgerInv, FieldsFit
    <3>2. UNCHANGED <<rows, balance, skew, opening, posted, wdelta, wposted>>
      BY <2>10 DEF DeleteAccount, dbtx, history
    <3>3. CASE \E t \in Txs : rows[t] # NoRow /\ rows[t].acct = obj[r]
      BY <2>10, <3>2, <3>3 DEF DeleteAccount
    <3>4. CASE ~ \E t \in Txs : rows[t] # NoRow /\ rows[t].acct = obj[r]
      <4>1. accounts' = accounts \ {obj[r]}  BY <2>10, <3>4 DEF DeleteAccount
      <4>2. \A t \in Txs : rows[t] # NoRow => rows[t].acct # obj[r]  BY <3>4
      <4> QED BY <3>1, <3>2, <4>1, <4>2, Zenon
    <3> QED BY <3>3, <3>4
  <2>11. CASE SaveCategory(r)  BY <2>11 DEF SaveCategory, dbtx
  <2>12. CASE DeleteCategory(r)  BY <2>12 DEF DeleteCategory, dbtx, history
  <2> HIDE DEF Still, Rolls, Posts, Commits, Stores, Closes
  <2> QED BY <1>2, <2>1, <2>2, <2>3, <2>4, <2>5, <2>6, <2>7, <2>8, <2>9, <2>10, <2>11,
             <2>12 DEF Step
<1>3. ASSUME NEW r \in Reqs, DeadlockAbort(r) \/ Abort(r) PROVE Rolls
  BY <1>3 DEF DeadlockAbort, Abort
<1>4. ASSUME UNCHANGED vars \/ Quiet PROVE Still
  BY <1>4 DEF Quiet, vars, database, dbtx, history
<1> HIDE DEF Still, Rolls, Posts, Commits, Stores, Closes
<1>5. ASSUME Next PROVE Still \/ Rolls \/ Posts \/ Commits \/ Stores \/ Closes
  <2>1. CASE Quiet  BY <1>4, <2>1
  <2>2. CASE \E r \in Reqs : Arrive(r) \/ Step(r) \/ DeadlockAbort(r) \/ Abort(r)
    BY <1>1, <1>2, <1>3, <2>2
  <2> QED BY <1>5, <2>1, <2>2 DEF Next
<1>6. Still \/ Rolls \/ Posts \/ Commits \/ Stores \/ Closes
  BY <1>4, <1>5
<1> QED BY <1>6 DEF Still, Rolls, Posts, Commits, Stores, Closes

\* A request that ends has nothing left to add.
LEMMA FinishDeltas ==
  ASSUME LedgerInv, DeltasPosted, NEW r \in Reqs, Finish(r)
  PROVE  DeltasPosted'
<1> SUFFICES ASSUME NEW s \in Reqs, NEW a \in Accts
             PROVE  wdelta'[s][a] = Total(wposted'[s][a], Txs)
  BY DEF DeltasPosted
<1>1. CASE s # r
  BY <1>1 DEF Finish, DeltasPosted, LedgerInv, TypeOK
<1>2. CASE s = r
  <2> DEFINE none == wposted'[s][a]
  <2>1. wdelta'[s][a] = 0  BY <1>2 DEF Finish, LedgerInv, TypeOK, Zero
  <2>2. \A t \in Txs : none[t] = 0
    BY <1>2 DEF Finish, LedgerInv, TypeOK, NothingPosted
  <2> HIDE DEF none
  <2>3. Total(none, Txs) = 0  BY <2>2, LedgerAssumption, TotalNothing
  <2> QED BY <2>1, <2>3 DEF none
<1> QED BY <1>1, <1>2

\* Revert and Apply add to the balance what they post.
LEMMA AddDeltas ==
  ASSUME LedgerInv, DeltasPosted, NEW r \in Reqs, NEW a \in Accts, NEW n \in Int,
         NEW t \in Txs, AddToBalance(r, a, n, t)
  PROVE  DeltasPosted'
<1>1. CASE a \notin accounts
  <2>1. wdelta' = wdelta /\ wposted' = wposted  BY <1>1 DEF AddToBalance
  <2> QED BY <2>1 DEF DeltasPosted
<1>2. CASE a \in accounts
  <2>1. /\ wdelta' = [wdelta EXCEPT ![r][a] = @ + n]
        /\ wposted' = [wposted EXCEPT ![r][a][t] = @ + n]
    BY <1>2 DEF AddToBalance
  <2> SUFFICES ASSUME NEW s \in Reqs, NEW b \in Accts
               PROVE  wdelta'[s][b] = Total(wposted'[s][b], Txs)
    BY DEF DeltasPosted
  <2>2. CASE s # r \/ b # a
    <3>1. wdelta'[s][b] = wdelta[s][b] /\ wposted'[s][b] = wposted[s][b]
      BY <2>1, <2>2 DEF LedgerInv, TypeOK
    <3> QED BY <3>1 DEF DeltasPosted
  <2>3. CASE s = r /\ b = a
    <3> DEFINE g == wposted[r][a]
               k == wposted'[r][a]
    <3>1. /\ \A u \in Txs : g[u] \in Int
          /\ \A u \in Txs : k[u] = IF u = t THEN g[u] + n ELSE g[u]
      BY <2>1 DEF LedgerInv, TypeOK
    <3>2. wdelta'[r][a] = wdelta[r][a] + n  BY <2>1 DEF LedgerInv, TypeOK
    <3>3. wdelta[r][a] = Total(g, Txs)  BY DEF DeltasPosted
    <3> HIDE DEF g, k
    <3>4. Total(k, Txs) = Total(g, Txs) + n
      <4>1. IsFiniteSet(Txs)  BY LedgerAssumption
      <4> QED BY <3>1, <4>1, TotalChange
    <3> QED BY <2>3, <3>2, <3>3, <3>4 DEF k
  <2> QED BY <2>2, <2>3
<1> QED BY <1>1, <1>2

\* A commit moves the balances by what it moves the postings.
LEMMA CommitExplained ==
  ASSUME LedgerInv, BalanceInv, NEW r \in Reqs, Commit(r)
  PROVE  Explained'
<1> SUFFICES ASSUME NEW a \in Accts
             PROVE  balance'[a] = opening'[a] + Total(posted'[a], Txs)
  BY DEF Explained
<1> DEFINE f == posted'[a]
           g == posted[a]
           h == wposted[r][a]
           tg == Total(g, Txs)
           th == Total(h, Txs)
<1>1. /\ balance'[a] = balance[a] + wdelta[r][a] /\ opening' = opening
      /\ \A t \in Txs : g[t] \in Int /\ h[t] \in Int /\ f[t] = g[t] + h[t]
      /\ opening[a] \in Int
  BY DEF Commit, LedgerInv, TypeOK
<1>2. balance[a] = opening[a] + tg /\ wdelta[r][a] = th
  BY DEF BalanceInv, Explained, DeltasPosted
<1> HIDE DEF f, g, h
<1>3. Total(f, Txs) = tg + th  BY <1>1, LedgerAssumption, TotalPlus
<1>4. tg \in Int /\ th \in Int  BY <1>1, LedgerAssumption, TotalStep
<1> HIDE DEF tg, th
<1>5. balance'[a] = opening[a] + Total(f, Txs)  BY <1>1, <1>2, <1>3, <1>4
<1> QED BY <1>1, <1>5 DEF f

\* Any step but a commit moves a balance together with what its history begins with, or
\* not at all.
LEMMA BalanceStep ==
  ASSUME LedgerInv, BalanceInv, [Next]_vars
  PROVE  BalanceInv'
<1>1. CASE UNCHANGED <<rows, accounts, balance, skew, opening, posted, wdelta, wposted>>
  BY <1>1 DEF BalanceInv, DeltasPosted, Explained
<1>2. ASSUME NEW r \in Reqs, Rollback(r) PROVE BalanceInv'
  <2>1. Finish(r) /\ UNCHANGED <<balance, opening, posted>>
    BY <1>2 DEF Rollback, database
  <2>2. DeltasPosted'  BY <2>1, FinishDeltas DEF BalanceInv
  <2> QED BY <2>1, <2>2 DEF BalanceInv, Explained
<1>3. ASSUME NEW r \in Reqs, NEW a \in Accts, NEW n \in Int, NEW t \in Txs,
             AddToBalance(r, a, n, t)
      PROVE  BalanceInv'
  <2>1. UNCHANGED <<balance, opening, posted>>  BY <1>3 DEF AddToBalance, database
  <2>2. DeltasPosted'  BY <1>3, AddDeltas DEF BalanceInv
  <2> QED BY <2>1, <2>2 DEF BalanceInv, Explained
<1>4. ASSUME NEW r \in Reqs, Commit(r) PROVE BalanceInv'
  <2>1. DeltasPosted'
    <3>1. Finish(r)  BY <1>4 DEF Commit
    <3> QED BY <3>1, FinishDeltas DEF BalanceInv
  <2> QED BY <1>4, <2>1, CommitExplained DEF BalanceInv
<1>5. ASSUME NEW a \in Accts, NEW x \in Int, StoreAccount(a, x),
             UNCHANGED <<rows, skew, posted, wdelta, wposted>>
      PROVE  BalanceInv'
  <2>1. ASSUME NEW b \in Accts PROVE balance'[b] = opening'[b] + Total(posted'[b], Txs)
    <3> DEFINE p == Total(posted[b], Txs)
    <3>1. /\ balance' = [balance EXCEPT ![a] = x]
          /\ opening' = [opening EXCEPT ![a] = @ + x - balance[a]]
          /\ balance \in [Accts -> Int] /\ opening \in [Accts -> Int]
      BY <1>5 DEF StoreAccount, LedgerInv, TypeOK
    <3>2. balance[b] = opening[b] + p /\ Total(posted'[b], Txs) = p
      BY <1>5 DEF BalanceInv, Explained
    <3>3. p \in Int
      <4> DEFINE g == posted[b]
      <4>1. \A t \in Txs : g[t] \in Int  BY DEF LedgerInv, TypeOK
      <4> HIDE DEF g
      <4>2. Total(g, Txs) \in Int  BY <4>1, LedgerAssumption, TotalStep
      <4> QED BY <4>2 DEF g
    <3> HIDE DEF p
    <3>4. CASE b = a
      <4>1. balance'[b] = x /\ opening'[b] = opening[b] + x - balance[b]  BY <3>1, <3>4
      <4>2. balance[b] \in Int /\ opening[b] \in Int  BY <3>1
      <4>3. opening[b] + x - balance[b] + p = x  BY <3>2, <3>3, <4>2
      <4> QED BY <3>2, <4>1, <4>3
    <3>5. CASE b # a  BY <3>1, <3>2, <3>5
    <3> QED BY <3>4, <3>5
  <2> QED BY <1>5, <2>1 DEF BalanceInv, DeltasPosted, Explained
<1>6. CASE UNCHANGED <<rows, balance, skew, opening, posted, wdelta, wposted>>
  BY <1>6 DEF BalanceInv, DeltasPosted, Explained
<1> QED BY <1>1, <1>2, <1>3, <1>4, <1>5, <1>6, StepKinds

\* No balances and no postings.
LEMMA BalanceInit == Init => BalanceInv
<1> SUFFICES ASSUME Init PROVE BalanceInv
  OBVIOUS
<1> DEFINE none == [t \in Txs |-> 0]
<1>1. Total(none, Txs) = 0  BY LedgerAssumption, TotalNothing
<1>2. ASSUME NEW r \in Reqs, NEW a \in Accts PROVE wposted[r][a] = none /\ wdelta[r][a] = 0
  BY DEF Init, NothingPosted, Zero
<1>3. ASSUME NEW a \in Accts PROVE posted[a] = none /\ opening[a] = 0 /\ balance[a] = 0
  BY DEF Init, NothingPosted, Zero
<1> HIDE DEF none
<1> QED BY <1>1, <1>2, <1>3 DEF BalanceInv, DeltasPosted, Explained

\* Every balance is what its owner set plus what was posted to it, for every
\* number of requests: the handlers keep "balances in sync with transaction
\* changes" (modules/transactions/README.md) to the cent, skewed postings
\* included.
THEOREM BalanceExplainedHolds == Spec => []BalanceExplained
<1>1. BalanceInv => BalanceExplained
  BY ExplainedIs DEF BalanceInv
<1>2. LedgerInv /\ BalanceInv /\ [Next]_vars => BalanceInv'
  BY BalanceStep
<1> QED BY <1>1, <1>2, LedgerInvariant, BalanceInit, PTL DEF Spec

-----------------------------------------------------------------------------
(* The handlers implement the promise.                                     *)

\* The promise signs the effect of a row as the handlers do.
LEMMA SameEffect ==
  ASSUME NEW a \in Accts, NEW w \in RowOrNone
  PROVE  Promise!EffectOn(a, w) = EffectOn(a, w)
BY DEF Promise!EffectOn, EffectOn, Effect

\* A posting of the promise, with the sum written out.
LEMMA PostIs ==
  ASSUME NEW T, Promise!Write(T), UNCHANGED skew,
         balance' = [a \in Accts |-> balance[a] +
           (CHOOSE f : f = [s \in SUBSET T |->
              IF s = {} THEN 0
              ELSE (Promise!EffectOn(a, rows'[Chosen(s)]) - Promise!EffectOn(a, rows[Chosen(s)]))
                   + f[s \ {Chosen(s)}]])[T]]
  PROVE  Promise!Post(T)
BY Zenon DEF Promise!Post, Promise!MapThenSumSet, Promise!MapThenFoldSet, Chosen

\* It adds to each balance the total of what it makes of its rows.
LEMMA PostByTotals ==
  ASSUME NEW T \in SUBSET Txs, Promise!Write(T), UNCHANGED skew,
         rows \in [Txs -> RowOrNone], rows' \in [Txs -> RowOrNone],
         balance' \in [Accts -> Int],
         \A a \in Accts : balance'[a] = balance[a] +
           Total([t \in Txs |-> EffectOn(a, rows'[t]) - EffectOn(a, rows[t])], T)
  PROVE  Promise!Post(T)
<1> DEFINE g(a) == [t \in Txs |-> EffectOn(a, rows'[t]) - EffectOn(a, rows[t])]
           Made(a, f) == f = [s \in SUBSET T |->
              IF s = {} THEN 0
              ELSE (Promise!EffectOn(a, rows'[Chosen(s)]) - Promise!EffectOn(a, rows[Chosen(s)]))
                   + f[s \ {Chosen(s)}]]
<1>1. IsFiniteSet(T)  BY LedgerAssumption, FS_Subset
<1>2. ASSUME NEW a \in Accts PROVE (CHOOSE f : Made(a, f))[T] = Total(g(a), T)
  <2>1. \A t \in T : g(a)[t] \in Int  BY EffectInt
  <2>2. ASSUME NEW s \in SUBSET T, s # {}
        PROVE  g(a)[Chosen(s)] = Promise!EffectOn(a, rows'[Chosen(s)])
                                   - Promise!EffectOn(a, rows[Chosen(s)])
    <3>1. Chosen(s) \in Txs  BY <2>2, ChosenIn
    <3>2. rows[Chosen(s)] \in RowOrNone /\ rows'[Chosen(s)] \in RowOrNone  BY <3>1
    <3>3. /\ Promise!EffectOn(a, rows[Chosen(s)]) = EffectOn(a, rows[Chosen(s)])
          /\ Promise!EffectOn(a, rows'[Chosen(s)]) = EffectOn(a, rows'[Chosen(s)])
      BY <3>2, SameEffect
    <3> QED BY <3>1, <3>3
  <2> DEFINE k == g(a)
  <2> HIDE DEF g
  <2>3. \A f : Made(a, f) <=> Adds(f, k, T)
    <3> SUFFICES ASSUME NEW f PROVE Made(a, f) <=> Adds(f, k, T)
      OBVIOUS
    <3> DEFINE x == [s \in SUBSET T |->
                  IF s = {} THEN 0
                  ELSE (Promise!EffectOn(a, rows'[Chosen(s)])
                          - Promise!EffectOn(a, rows[Chosen(s)])) + f[s \ {Chosen(s)}]]
               y == [s \in SUBSET T |->
                  IF s = {} THEN 0 ELSE k[Chosen(s)] + f[s \ {Chosen(s)}]]
    <3>1. \A s \in SUBSET T : x[s] = y[s]  BY <2>2
    <3>2. x = y  BY <3>1
    <3>3. Made(a, f) <=> f = x  OBVIOUS
    <3>4. Adds(f, k, T) <=> f = y  BY DEF Adds
    <3> HIDE DEF x, y
    <3> QED BY <3>2, <3>3, <3>4
  <2>4. PICK h : Adds(h, k, T)  BY <1>1, <2>1, AddsExists
  <2> HIDE DEF Made, k
  <2> DEFINE c == CHOOSE f : Made(a, f)
             d == CHOOSE f : Adds(f, k, T)
  <2>5. Adds(c, k, T)
    <3>1. \E f : Made(a, f)  BY <2>3, <2>4
    <3>2. Made(a, c)  BY <3>1
    <3> QED BY <2>3, <3>2
  <2>6. Adds(d, k, T)  BY <2>4
  <2>7. Total(k, T) = d[T]  BY TotalIsChosen
  <2> HIDE DEF c, d
  <2>8. T \in SUBSET T  OBVIOUS
  <2>9. c[T] = d[T]  BY <1>1, <2>5, <2>6, <2>8, AddsAgree
  <2> QED BY <2>7, <2>9 DEF c, k
<1>3. \A a \in Accts : balance'[a] = balance[a] + Total(g(a), T)  OBVIOUS
<1> HIDE DEF g
<1>4. balance' = [a \in Accts |-> balance[a] + (CHOOSE f : Made(a, f))[T]]
  <2> DEFINE z(a) == (CHOOSE f : Made(a, f))[T]
  <2>1. \A a \in Accts : balance'[a] = balance[a] + z(a)  BY <1>2, <1>3
  <2> HIDE DEF z
  <2>2. balance' = [a \in Accts |-> balance[a] + z(a)]  BY <2>1
  <2> QED BY <2>2 DEF z
<1> QED BY Zenon, <1>4, PostIs

\* What an untainted request commits is, row by row, the difference between
\* what it wrote and what it found.
LEMMA CommittedIsPosted ==
  ASSUME LedgerInv, NEW r \in Reqs, Commit(r), ~tainted[r], NEW a \in Accts, NEW t \in Txs
  PROVE  wposted[r][a][t] = EffectOn(a, rows'[t]) - EffectOn(a, rows[t])
<1>1. /\ pc[r] = "commit" /\ CreatePosted(r) /\ EditPosted(r) /\ FieldsFit(r)
      /\ rows'[t] = IF wrow[r][t] = Untouched THEN rows[t] ELSE wrow[r][t]
      /\ rows[t] \in RowOrNone /\ wrow[r][t] \in RowOrNone \cup {Untouched}
      /\ cur[r] \in RowOrNone /\ seen[r] \in RowOrNone
  BY DEF Commit, LedgerInv, TypeOK
<1>2. EffectOn(a, rows[t]) \in Int /\ EffectOn(a, NoRow) = 0
  BY <1>1, EffectInt DEF EffectOn
<1>3. CASE seen[r] = NoRow
  <2>1. /\ wrow[r][t] # Untouched => rows[t] = NoRow
        /\ wposted[r][a][t] = IF wrow[r][t] = Untouched THEN 0 ELSE EffectOn(a, wrow[r][t])
    BY <1>1, <1>3 DEF CreatePosted
  <2>2. CASE wrow[r][t] = Untouched  BY <1>1, <1>2, <2>1, <2>2
  <2>3. CASE wrow[r][t] # Untouched
    <3>1. EffectOn(a, wrow[r][t]) \in Int  BY <1>1, <2>3, EffectInt
    <3> QED BY <1>1, <1>2, <2>1, <2>3, <3>1
  <2> QED BY <2>2, <2>3
<1>4. CASE seen[r] # NoRow
  <2>1. cur[r] # Untouched  BY <1>1, Distinct DEF RowOrNone
  <2>2. CASE t # obj[r]
    <3>1. wrow[r][t] = Untouched /\ wposted[r][a][t] = 0
      BY <1>1, <1>4, <2>2 DEF EditPosted
    <3> QED BY <1>1, <1>2, <3>1
  <2>3. CASE t = obj[r]
    <3>1. /\ wrow[r][t] = cur[r] /\ rows[t] = seen[r]
          /\ wposted[r][a][t] = EffectOn(a, cur[r]) - EffectOn(a, seen[r])
      BY <1>1, <1>4, <2>3 DEF EditPosted
    <3> QED BY <1>1, <2>1, <3>1
  <2> QED BY <2>2, <2>3
<1> QED BY <1>3, <1>4

\* COMMIT writes rows whose accounts exist.
LEMMA CommitWrites ==
  ASSUME LedgerInv, LedgerInv', NEW r \in Reqs, Commit(r), NEW T \in SUBSET Txs,
         \A t \in Txs : wrow[r][t] # Untouched => t \in T,
         \A t \in T : wrow[r][t] # Untouched
  PROVE  Promise!Write(T)
<1>1. rows' \in [Txs -> Row \cup {NoRow}] /\ accounts' = accounts
  BY DEF Commit, LedgerInv, TypeOK, RowOrNone
<1>2. ASSUME NEW t \in Txs, t \in T, rows'[t] # NoRow PROVE rows'[t].acct \in accounts
  BY <1>2 DEF Commit, LedgerInv, RowsOwned, ParentsExist
<1>3. ASSUME NEW t \in Txs, t \notin T PROVE rows'[t] = rows[t]
  BY <1>3 DEF Commit
<1> QED BY <1>1, <1>2, <1>3 DEF Promise!Write, Promise!Row, Row, Types

\* A commit of the ledger is a step of its promise.
LEMMA CommitPosts ==
  ASSUME LedgerInv, LedgerInv', BalanceInv, NEW r \in Reqs, Commit(r)
  PROVE  Promise!Next
<1>1. pc[r] = "commit" /\ CreatePosted(r) /\ EditPosted(r) /\ FieldsFit(r)
  BY DEF Commit, LedgerInv
<1>2. CASE tainted[r]
  <2>1. seen[r] # NoRow /\ obj[r] \in Txs  BY <1>1, <1>2 DEF CreatePosted, FieldsFit
  <2>2. cur[r] # Untouched  BY Distinct DEF LedgerInv, TypeOK, RowOrNone
  <2>3. \A t \in Txs : wrow[r][t] # Untouched <=> t = obj[r]
    BY <1>1, <2>1, <2>2 DEF EditPosted
  <2>4. Promise!Write({obj[r]})
    <3> DEFINE T == {obj[r]}
    <3>1. T \in SUBSET Txs /\ \A t \in Txs : wrow[r][t] # Untouched <=> t \in T
      BY <2>1, <2>3
    <3> HIDE DEF T
    <3>2. Promise!Write(T)  BY <3>1, CommitWrites
    <3> QED BY <3>2 DEF T
  <2>5. balance' \in [Accts -> Int] /\ skew' = skew \cup {obj[r]}
    BY <1>2 DEF Commit, LedgerInv, TypeOK
  <2> QED BY <2>1, <2>4, <2>5 DEF Promise!Next, Promise!PostSkewed
<1>3. CASE ~tainted[r]
  <2> DEFINE T == {t \in Txs : wrow[r][t] # Untouched}
  <2>1. T \in SUBSET Txs /\ \A t \in Txs : wrow[r][t] # Untouched <=> t \in T
    OBVIOUS
  <2> HIDE DEF T
  <2>2. Promise!Write(T)  BY <2>1, CommitWrites
  <2>3. ASSUME NEW a \in Accts
        PROVE  balance'[a] = balance[a] +
                 Total([t \in Txs |-> EffectOn(a, rows'[t]) - EffectOn(a, rows[t])], T)
    <3> DEFINE g == [t \in Txs |-> EffectOn(a, rows'[t]) - EffectOn(a, rows[t])]
               h == wposted[r][a]
    <3>1. balance'[a] = balance[a] + Total(h, Txs)
      BY DEF Commit, BalanceInv, DeltasPosted
    <3>2. \A t \in Txs : h[t] = g[t] /\ h[t] \in Int
      BY <1>3, CommittedIsPosted DEF LedgerInv, TypeOK
    <3>3. \A t \in Txs \ T : g[t] = 0
      <4> SUFFICES ASSUME NEW t \in Txs \ T PROVE g[t] = 0
        OBVIOUS
      <4>1. rows'[t] = rows[t] /\ rows[t] \in RowOrNone
        BY <2>1 DEF Commit, LedgerInv, TypeOK
      <4>2. EffectOn(a, rows[t]) \in Int  BY <4>1, EffectInt
      <4> QED BY <4>1, <4>2
    <3> HIDE DEF g, h
    <3>4. Total(h, Txs) = Total(g, Txs)  BY <3>2, LedgerAssumption, TotalSame
    <3>5. Total(g, Txs) = Total(g, T)
      BY <2>1, <3>2, <3>3, LedgerAssumption, TotalWithin
    <3> QED BY <3>1, <3>4, <3>5 DEF g
  <2>4. /\ skew' = skew /\ balance' \in [Accts -> Int]
        /\ rows \in [Txs -> RowOrNone] /\ rows' \in [Txs -> RowOrNone]
    BY <1>3 DEF Commit, LedgerInv, TypeOK
  <2>5. Promise!Post(T)  BY <2>1, <2>2, <2>3, <2>4, PostByTotals
  <2> QED BY <2>1, <2>5 DEF Promise!Next
<1> QED BY <1>2, <1>3

\* Every step of a handler is a step of the promise or one it does not see.
LEMMA PromiseStep ==
  ASSUME LedgerInv, LedgerInv', BalanceInv, [Next]_vars
  PROVE  [Promise!Next]_(Promise!vars)
<1>1. CASE UNCHANGED <<rows, accounts, balance, skew, opening, posted, wdelta, wposted>>
  BY <1>1 DEF Promise!vars
<1>2. ASSUME NEW r \in Reqs, Rollback(r) PROVE UNCHANGED Promise!vars
  BY <1>2 DEF Rollback, database, Promise!vars
<1>3. ASSUME NEW r \in Reqs, NEW a \in Accts, NEW n \in Int, NEW t \in Txs,
             AddToBalance(r, a, n, t)
      PROVE  UNCHANGED Promise!vars
  BY <1>3 DEF AddToBalance, database, Promise!vars
<1>4. ASSUME NEW r \in Reqs, Commit(r) PROVE Promise!Next
  BY <1>4, CommitPosts
<1>5. ASSUME NEW a \in Accts, NEW x \in Int, StoreAccount(a, x),
             UNCHANGED <<rows, skew, posted, wdelta, wposted>>
      PROVE  Promise!Next
  <2>1. balance \in [Accts -> Int]  BY DEF LedgerInv, TypeOK
  <2>2. balance' = [balance EXCEPT ![a] = x] /\ balance'[a] = x
    BY <1>5, <2>1 DEF StoreAccount
  <2>3. Promise!SetBalance(a)  BY <1>5, <2>2 DEF StoreAccount, Promise!SetBalance
  <2> QED BY <2>3 DEF Promise!Next
<1>6. ASSUME NEW a \in Accts, \A t \in Txs : rows[t] # NoRow => rows[t].acct # a,
             accounts' = accounts \ {a},
             UNCHANGED <<rows, balance, skew, opening, posted, wdelta, wposted>>
      PROVE  Promise!Next
  BY <1>6 DEF Promise!Next, Promise!Close
<1> QED BY <1>1, <1>2, <1>3, <1>4, <1>5, <1>6, StepKinds

\* An empty ledger is an empty promise.
LEMMA PromiseInit == Init => Promise!Init
BY LedgerAssumption DEF Init, Zero, Promise!Init

\* The handlers implement the promise of the ledger: whatever requests run side
\* by side, each COMMIT posts its rows atomically and moves every balance by the
\* difference they make, or is on record as skew.
THEOREM LedgerImplementsPromise == Spec => ImplementsPromise
<1>1. LedgerInv /\ LedgerInv' /\ BalanceInv /\ [Next]_vars => [Promise!Next]_(Promise!vars)
  BY PromiseStep
<1>2. LedgerInv /\ BalanceInv /\ [Next]_vars => BalanceInv'
  BY BalanceStep
<1> QED BY <1>1, <1>2, LedgerInvariant, BalanceInit, PromiseInit, PTL
       DEF Spec, ImplementsPromise, Promise!Spec

=============================================================================
