------------------------------- MODULE Ledger -------------------------------
(***************************************************************************)
(* The ledger of one user: transactions, the accounts whose balances they  *)
(* move and the categories they are filed under, as the HTTP handlers      *)
(* change them (modules/transactions, modules/accounts, modules/categories *)
(* under src/backend/internal).  Each handler runs in a goroutine of its   *)
(* own; one action is one SQL statement, the unit at which two requests    *)
(* interleave.                                                             *)
(*                                                                         *)
(* The database is PostgreSQL at READ COMMITTED: a statement sees what is  *)
(* committed plus its own writes, the writes of a transaction are kept     *)
(* apart (wrow, wdelta) until Commit installs them, an updated row stays   *)
(* locked until then, a row that refers to a parent pins that parent       *)
(* against DELETE, and a cycle of waiting transactions loses one member.   *)
(*                                                                         *)
(* A request that its first statement refuses (nothing found, an invalid   *)
(* field) changes nothing and is a stuttering step.  Every other table     *)
(* row that belongs to another user is never matched by these statements   *)
(* (WHERE user_id = ?) and is left out.                                    *)
(***************************************************************************)
EXTENDS Integers, FiniteSets

CONSTANTS
  Reqs,        \* handler goroutines
  Txs,         \* transaction ids, handed out once
  Accts, Cats, \* account and category ids, handed out once
  Amounts,     \* amounts in cents a client may send
  Openings,    \* balances in cents a client may send
  InitAccts,   \* accounts that exist at the start
  InitCats,    \* the type of each category at the start, or NoCat
  SystemCats,  \* seeded categories (is_system), which no user may change
  Ops,         \* the operations clients use in this instance
  MaxBatch,    \* bound: records in one CreateMany
  MaxOps,      \* bound: requests that get past their first statement
  Faults,      \* whether a statement may fail or its client go away
  NoRow, NoCat, NoId, Untouched, Free

Types == {"income", "expense"}

Row == [type : Types, amt : {n \in Amounts : n > 0}, cat : Cats, acct : Accts]

AllOps == {"create", "update", "delete", "acctCreate", "acctUpdate",
           "acctDelete", "catCreate", "catUpdate", "catDelete"}

PCs == {"idle", "category", "account", "insert", "revert", "apply", "save",
        "remove", "commit", "acctSave", "acctDelete", "catSave", "catCount",
        "catDelete"}

ASSUME LedgerAssumption ==
  /\ Amounts \subseteq Int /\ Openings \subseteq Int
  /\ MaxBatch \in Nat /\ MaxOps \in Nat /\ IsFiniteSet(Txs)
  /\ InitAccts \subseteq Accts /\ SystemCats \subseteq Cats
  /\ InitCats \in [Cats -> Types \cup {NoCat}]
  /\ Ops \subseteq AllOps /\ Faults \in BOOLEAN
  /\ NoCat \notin Types
  /\ NoRow \notin Row /\ Untouched \notin Row \cup {NoRow}
  /\ Free \notin Reqs
  /\ NoId \notin Txs \cup Accts \cup Cats
  /\ Txs \cap Accts = {} /\ Txs \cap Cats = {} /\ Accts \cap Cats = {}

VARIABLES
  \* the committed database
  rows,        \* transactions table: the row of each id, or NoRow
  balance,     \* accounts.balance_cents (the last value, for a deleted one)
  accounts,    \* ids present in the accounts table
  categories,  \* type of each category, NoCat when it is not in the table
  issued,      \* ids the sequences have handed out
  \* the open database transactions
  lock,        \* the request that holds the row lock of each account, or Free
  wrow,        \* per request: rows it has written and not committed
  wdelta,      \* per request: what it has added to each balance
  \* the requests
  pc,          \* the statement each request runs next
  obj,         \* the id it works on
  seen,        \* the row `existing` (Update) or `tx` (Delete) it loaded
  cur,         \* the row it wants to write
  left,        \* records of the batch still to insert
  started,     \* requests begun, up to MaxOps
  \* history, read by no action
  opening,     \* per account: balance that no transaction accounts for
  posted,      \* posted[a][t]: what the statements run for t added to a
  wposted,     \* the same, not committed yet
  tainted,     \* requests whose snapshot was overwritten, or that updated no account
  skew,        \* transactions a tainted request has committed
  retyped      \* categories whose stored type has changed

database == <<rows, balance, accounts, categories, issued>>
dbtx     == <<lock, wrow, wdelta>>
local    == <<obj, seen, cur, left, started>>
history  == <<opening, posted, wposted, tainted, skew, retyped>>
vars     == <<database, dbtx, pc, local, history>>

-----------------------------------------------------------------------------
\* Signed effect of a row on the balance of account a.
Effect(row) == IF row.type = "expense" THEN -row.amt ELSE row.amt
EffectOn(a, row) == IF row # NoRow /\ row.acct = a THEN Effect(row) ELSE 0

Zero == [a \in Accts |-> 0]
NothingPosted == [a \in Accts |-> [t \in Txs |-> 0]]
NothingWritten == [t \in Txs |-> Untouched]

\* Uncommitted rows of s that refer to account a, or to category c: their
\* foreign keys keep a and c from being deleted until s ends.
PinsAcct(s, a) == \E t \in Txs : wrow[s][t] \in Row /\ wrow[s][t].acct = a
PinsCat(s, c)  == \E t \in Txs : wrow[s][t] \in Row /\ wrow[s][t].cat = c

\* What a foreign-key check requires of a row when it is written.
ParentsExist(w) == w.acct \in accounts /\ categories[w.cat] # NoCat

Init ==
  /\ rows = [t \in Txs |-> NoRow]
  /\ accounts = InitAccts
  /\ balance = Zero
  /\ categories = InitCats
  /\ issued = InitAccts \cup {c \in Cats : InitCats[c] # NoCat}
  /\ lock = [a \in Accts |-> Free]
  /\ wrow = [r \in Reqs |-> NothingWritten]
  /\ wdelta = [r \in Reqs |-> Zero]
  /\ pc = [r \in Reqs |-> "idle"]
  /\ obj = [r \in Reqs |-> NoId]
  /\ seen = [r \in Reqs |-> NoRow]
  /\ cur = [r \in Reqs |-> NoRow]
  /\ left = [r \in Reqs |-> 0]
  /\ started = 0
  /\ opening = balance
  /\ posted = NothingPosted
  /\ wposted = [r \in Reqs |-> NothingPosted]
  /\ tainted = [r \in Reqs |-> FALSE]
  /\ skew = {}
  /\ retyped = {}

-----------------------------------------------------------------------------
(* How requests begin and end. *)

Begin(r, op) == pc[r] = "idle" /\ op \in Ops /\ started < MaxOps

\* Faulty variant: the transaction is left open, so its row locks stay.
FinishKeepsLocks(r) ==
  /\ pc' = [pc EXCEPT ![r] = "idle"]
  /\ UNCHANGED lock
  /\ wrow' = [wrow EXCEPT ![r] = NothingWritten]
  /\ wdelta' = [wdelta EXCEPT ![r] = Zero]
  /\ wposted' = [wposted EXCEPT ![r] = NothingPosted]
  /\ obj' = [obj EXCEPT ![r] = NoId]
  /\ seen' = [seen EXCEPT ![r] = NoRow]
  /\ cur' = [cur EXCEPT ![r] = NoRow]
  /\ left' = [left EXCEPT ![r] = 0]

\* The end of the database transaction of r, or of a request that opened none.
Finish(r) ==
  /\ pc' = [pc EXCEPT ![r] = "idle"]
  /\ lock' = [a \in Accts |-> IF lock[a] = r THEN Free ELSE lock[a]]
  /\ wrow' = [wrow EXCEPT ![r] = NothingWritten]
  /\ wdelta' = [wdelta EXCEPT ![r] = Zero]
  /\ wposted' = [wposted EXCEPT ![r] = NothingPosted]
  /\ obj' = [obj EXCEPT ![r] = NoId]
  /\ seen' = [seen EXCEPT ![r] = NoRow]
  /\ cur' = [cur EXCEPT ![r] = NoRow]
  /\ left' = [left EXCEPT ![r] = 0]

\* ROLLBACK and the error reply.
Rollback(r) ==
  /\ Finish(r)
  /\ tainted' = [tainted EXCEPT ![r] = FALSE]
  /\ UNCHANGED <<database, started, opening, posted, skew, retyped>>

\* Step to the next statement of a request that keeps its transaction.
Goto(r, label) == pc' = [pc EXCEPT ![r] = label]

\* A statement of r that only reads, and passes or sends r to its error return.
Check(r, holds, label) ==
  IF holds
  THEN Goto(r, label) /\ UNCHANGED <<database, dbtx, local, history>>
  ELSE Rollback(r)

-----------------------------------------------------------------------------
(* transactions.Service: Create, CreateMany, Update, Delete. *)

\* Create (n = 1) and CreateMany: BEGIN, then the category lookup of the
\* first record.
BeginCreate(r) ==
  /\ Begin(r, "create")
  /\ \E n \in 1..MaxBatch, w \in Row :
       /\ categories[w.cat] = w.type
       /\ left' = [left EXCEPT ![r] = n]
       /\ cur' = [cur EXCEPT ![r] = w]
  /\ started' = started + 1
  /\ Goto(r, "account")
  /\ UNCHANGED <<database, dbtx, obj, seen, history>>

\* Update and Delete load the row they will revert, outside any transaction.
LoadExisting(r, op, label) ==
  /\ Begin(r, op)
  /\ \E t \in Txs :
       /\ rows[t] # NoRow
       /\ obj' = [obj EXCEPT ![r] = t]
       /\ seen' = [seen EXCEPT ![r] = rows[t]]
  /\ started' = started + 1
  /\ Goto(r, label)
  /\ UNCHANGED <<database, dbtx, cur, left, history>>

BeginUpdate(r) == LoadExisting(r, "update", "category")
BeginDelete(r) == LoadExisting(r, "delete", "revert")

\* Faulty variant: the type of the category is not compared.
CheckCategoryNoType(r) ==
  /\ pc[r] = "category"
  /\ \E w \in Row :
       /\ categories[w.cat] # NoCat
       /\ cur' = [cur EXCEPT ![r] = w]
       /\ Goto(r, "account")
       /\ UNCHANGED <<database, dbtx, obj, seen, left, started, history>>

\* The next record of a batch, or the new values of an Update: validated, then
\* its category is looked up and must have the type of the record.
CheckCategory(r) ==
  /\ pc[r] = "category"
  /\ \/ \E w \in Row :
          /\ categories[w.cat] = w.type
          /\ cur' = [cur EXCEPT ![r] = w]
          /\ Goto(r, "account")
          /\ UNCHANGED <<database, dbtx, obj, seen, left, started, history>>
     \/ Rollback(r)      \* refused: invalid, or no such category of that type

\* The account lookup; an Update opens its transaction after it.
CheckAccount(r) ==
  /\ pc[r] = "account"
  /\ Check(r, cur[r].acct \in accounts,
           IF seen[r] = NoRow THEN "insert" ELSE "revert")

\* INSERT INTO transactions, with its foreign keys.  Bound: the ids of Txs; an
\* INSERT beyond them fails.
Insert(r) ==
  /\ pc[r] = "insert"
  /\ IF ParentsExist(cur[r]) /\ ~(Txs \subseteq issued)
     THEN /\ \E t \in Txs \ issued :
               /\ issued' = issued \cup {t}
               /\ wrow' = [wrow EXCEPT ![r][t] = cur[r]]
               /\ obj' = [obj EXCEPT ![r] = t]
          /\ Goto(r, "apply")
          /\ UNCHANGED <<rows, balance, accounts, categories, lock, wdelta,
                         seen, cur, left, started, history>>
     ELSE Rollback(r)

\* Faulty variant: the second change of one balance replaces the first.
AddToBalanceOverwrites(r, a, n, t) ==
  /\ lock[a] \in {Free, r}
  /\ a \in accounts
  /\ lock' = [lock EXCEPT ![a] = r]
  /\ wdelta' = [wdelta EXCEPT ![r][a] = n]
  /\ wposted' = [wposted EXCEPT ![r][a][t] = @ + n]
  /\ UNCHANGED <<database, wrow, opening, posted, tainted, skew, retyped>>

\* UPDATE accounts SET balance_cents = balance_cents + n WHERE id = a, run on
\* account of transaction t: it waits for the row lock; no such row is no error.
AddToBalance(r, a, n, t) ==
  /\ lock[a] \in {Free, r}
  /\ IF a \in accounts
     THEN /\ lock' = [lock EXCEPT ![a] = r]
          /\ wdelta' = [wdelta EXCEPT ![r][a] = @ + n]
          /\ wposted' = [wposted EXCEPT ![r][a][t] = @ + n]
          /\ UNCHANGED tainted
     ELSE /\ tainted' = [tainted EXCEPT ![r] = TRUE]
          /\ UNCHANGED <<lock, wdelta, wposted>>
  /\ UNCHANGED <<database, wrow, opening, posted, skew, retyped>>

\* Faulty variant: the old effect is added once more.
RevertTwice(r) ==
  /\ pc[r] = "revert"
  /\ AddToBalance(r, seen[r].acct, Effect(seen[r]), obj[r])
  /\ Goto(r, IF cur[r] = NoRow THEN "remove" ELSE "apply")
  /\ UNCHANGED local

\* revertAccountDelta, on the row as it was loaded.
Revert(r) ==
  /\ pc[r] = "revert"
  /\ AddToBalance(r, seen[r].acct, -Effect(seen[r]), obj[r])
  /\ Goto(r, IF cur[r] = NoRow THEN "remove" ELSE "apply")
  /\ UNCHANGED local

\* Faulty variants: an expense is added like an income; an Update counts down
\* the records of a batch.
ApplyUnsigned(r) ==
  /\ pc[r] = "apply"
  /\ AddToBalance(r, cur[r].acct, cur[r].amt, obj[r])
  /\ left' = [left EXCEPT ![r] = IF seen[r] = NoRow THEN @ - 1 ELSE @]
  /\ Goto(r, IF seen[r] # NoRow THEN "save"
             ELSE IF left[r] > 1 THEN "category" ELSE "commit")
  /\ UNCHANGED <<obj, seen, cur, started>>

ApplyCountsDown(r) ==
  /\ pc[r] = "apply"
  /\ AddToBalance(r, cur[r].acct, Effect(cur[r]), obj[r])
  /\ left' = [left EXCEPT ![r] = @ - 1]
  /\ Goto(r, IF seen[r] # NoRow THEN "save"
             ELSE IF left[r] > 1 THEN "category" ELSE "commit")
  /\ UNCHANGED <<obj, seen, cur, started>>

\* applyAccountDelta, then the next record of a batch, Save or COMMIT.
Apply(r) ==
  /\ pc[r] = "apply"
  /\ AddToBalance(r, cur[r].acct, Effect(cur[r]), obj[r])
  /\ left' = [left EXCEPT ![r] = IF seen[r] = NoRow THEN @ - 1 ELSE @]
  /\ Goto(r, IF seen[r] # NoRow THEN "save"
             ELSE IF left[r] > 1 THEN "category" ELSE "commit")
  /\ UNCHANGED <<obj, seen, cur, started>>

\* No other open transaction has written row t.
RowFree(r, t) == \A s \in Reqs \ {r} : wrow[s][t] = Untouched

\* Faulty variant: the row to save has lost its id and becomes a new one.
SaveWithoutId(r) ==
  /\ pc[r] = "save"
  /\ ParentsExist(cur[r])
  /\ \E t \in Txs : rows[t] = NoRow /\ wrow' = [wrow EXCEPT ![r][t] = cur[r]]
  /\ Goto(r, "commit")
  /\ UNCHANGED <<database, lock, wdelta, local, history>>

\* dbtx.Save: UPDATE by id and, when that matched no row, INSERT ... ON
\* CONFLICT DO UPDATE, so a row deleted meanwhile is written again.
Save(r) ==
  /\ pc[r] = "save"
  /\ RowFree(r, obj[r])
  /\ IF ParentsExist(cur[r])
     THEN /\ wrow' = [wrow EXCEPT ![r][obj[r]] = cur[r]]
          /\ Goto(r, "commit")
          /\ UNCHANGED <<database, lock, wdelta, local, history>>
     ELSE Rollback(r)

\* dbtx.Delete: no such row is no error.
Remove(r) ==
  /\ pc[r] = "remove"
  /\ RowFree(r, obj[r])
  /\ wrow' = [wrow EXCEPT ![r][obj[r]] = NoRow]
  /\ Goto(r, "commit")
  /\ UNCHANGED <<database, lock, wdelta, local, history>>

\* Requests whose loaded row the commit of r overwrites.
Overtaken(r) == {s \in Reqs \ {r} : seen[s] # NoRow /\ wrow[r][obj[s]] # Untouched}

\* COMMIT: everything the transaction wrote becomes visible at once.
Commit(r) ==
  /\ pc[r] = "commit"
  /\ Finish(r)
  /\ rows' = [t \in Txs |-> IF wrow[r][t] = Untouched THEN rows[t] ELSE wrow[r][t]]
  /\ balance' = [a \in Accts |-> balance[a] + wdelta[r][a]]
  /\ posted' = [a \in Accts |-> [t \in Txs |-> posted[a][t] + wposted[r][a][t]]]
  /\ skew' = IF tainted[r] THEN skew \cup {obj[r]} ELSE skew
  /\ tainted' = [s \in Reqs |-> IF s = r THEN FALSE ELSE tainted[s] \/ s \in Overtaken(r)]
  /\ UNCHANGED <<accounts, categories, issued, started, opening, retyped>>

-----------------------------------------------------------------------------
(* accounts.Service: Create, Update, Delete.  No transaction of their own:   *)
(* each statement commits by itself.                                         *)

\* A single-row write of accounts: balance_cents of a becomes x.
StoreAccount(a, x) ==
  /\ accounts' = accounts \cup {a}
  /\ balance' = [balance EXCEPT ![a] = x]
  /\ opening' = [opening EXCEPT ![a] = @ + x - balance[a]]

CreateAccount(r) ==
  /\ Begin(r, "acctCreate")
  /\ \E a \in Accts \ issued, x \in Openings :
       /\ StoreAccount(a, x)
       /\ issued' = issued \cup {a}
  /\ started' = started + 1
  /\ UNCHANGED <<rows, categories, dbtx, pc, obj, seen, cur, left,
                 posted, wposted, tainted, skew, retyped>>

BeginAccountUpdate(r) ==
  /\ Begin(r, "acctUpdate")
  /\ \E a \in accounts : obj' = [obj EXCEPT ![r] = a]
  /\ started' = started + 1
  /\ Goto(r, "acctSave")
  /\ UNCHANGED <<database, dbtx, seen, cur, left, history>>

\* Save(&account): every column, the balance of the request included; an
\* account deleted since it was loaded is inserted again.
SaveAccount(r) ==
  /\ pc[r] = "acctSave"
  /\ lock[obj[r]] = Free
  /\ \E x \in Openings : StoreAccount(obj[r], x)
  /\ Goto(r, "idle")
  /\ obj' = [obj EXCEPT ![r] = NoId]
  /\ UNCHANGED <<rows, categories, issued, dbtx, seen, cur, left, started,
                 posted, wposted, tainted, skew, retyped>>

\* Delete counts the transactions of the account first.
BeginAccountDelete(r) ==
  /\ Begin(r, "acctDelete")
  /\ \E a \in accounts :
       /\ \A t \in Txs : rows[t] # NoRow => rows[t].acct # a
       /\ obj' = [obj EXCEPT ![r] = a]
  /\ started' = started + 1
  /\ Goto(r, "acctDelete")
  /\ UNCHANGED <<database, dbtx, seen, cur, left, history>>

\* Faulty variant: transactions.account_id without its foreign key.
DeleteAccountUnchecked(r) ==
  /\ pc[r] = "acctDelete"
  /\ lock[obj[r]] = Free
  /\ accounts' = accounts \ {obj[r]}
  /\ Goto(r, "idle")
  /\ obj' = [obj EXCEPT ![r] = NoId]
  /\ UNCHANGED <<rows, balance, categories, issued, dbtx, seen, cur, left,
                 started, history>>

\* DELETE FROM accounts: it waits for writers of the account and for rows that
\* pin it; the foreign key refuses it when a committed row refers to it.
DeleteAccount(r) ==
  /\ pc[r] = "acctDelete"
  /\ lock[obj[r]] = Free
  /\ \A s \in Reqs : ~PinsAcct(s, obj[r])
  /\ accounts' = IF \E t \in Txs : rows[t] # NoRow /\ rows[t].acct = obj[r]
                 THEN accounts ELSE accounts \ {obj[r]}
  /\ Goto(r, "idle")
  /\ obj' = [obj EXCEPT ![r] = NoId]
  /\ UNCHANGED <<rows, balance, categories, issued, dbtx, seen, cur, left,
                 started, history>>

-----------------------------------------------------------------------------
(* categories.Service: Create, Update, Delete.                             *)

StoreCategory(c, type) ==
  /\ categories' = [categories EXCEPT ![c] = type]
  /\ retyped' = IF c \in issued /\ categories[c] # type
                THEN retyped \cup {c} ELSE retyped

CreateCategory(r) ==
  /\ Begin(r, "catCreate")
  /\ \E c \in Cats \ (issued \cup SystemCats), type \in Types :
       /\ StoreCategory(c, type)
       /\ issued' = issued \cup {c}
  /\ started' = started + 1
  /\ UNCHANGED <<rows, balance, accounts, dbtx, pc, obj, seen, cur, left,
                 opening, posted, wposted, tainted, skew>>

\* Update and Delete load the category; a system category is refused.
LoadCategory(r, op, label) ==
  /\ Begin(r, op)
  /\ \E c \in Cats \ SystemCats :
       /\ categories[c] # NoCat
       /\ obj' = [obj EXCEPT ![r] = c]
  /\ started' = started + 1
  /\ Goto(r, label)
  /\ UNCHANGED <<database, dbtx, seen, cur, left, history>>

BeginCategoryUpdate(r) == LoadCategory(r, "catUpdate", "catSave")
BeginCategoryDelete(r) == LoadCategory(r, "catDelete", "catCount")

\* Save(&category): the type it loaded or the one of the request.  No foreign
\* key column changes, so rows that pin the category do not hold it up; a
\* category deleted since it was loaded is inserted again.
SaveCategory(r) ==
  /\ pc[r] = "catSave"
  /\ \E type \in Types : StoreCategory(obj[r], type)
  /\ Goto(r, "idle")
  /\ obj' = [obj EXCEPT ![r] = NoId]
  /\ UNCHANGED <<rows, balance, accounts, issued, dbtx, seen, cur, left,
                 started, opening, posted, wposted, tainted, skew>>

CountCategoryUse(r) ==
  /\ pc[r] = "catCount"
  /\ Check(r, \A t \in Txs : rows[t] # NoRow => rows[t].cat # obj[r], "catDelete")

DeleteCategory(r) ==
  /\ pc[r] = "catDelete"
  /\ \A s \in Reqs : ~PinsCat(s, obj[r])
  /\ categories' = IF \E t \in Txs : rows[t] # NoRow /\ rows[t].cat = obj[r]
                   THEN categories ELSE [categories EXCEPT ![obj[r]] = NoCat]
  /\ Goto(r, "idle")
  /\ obj' = [obj EXCEPT ![r] = NoId]
  /\ UNCHANGED <<rows, balance, accounts, issued, dbtx, seen, cur, left,
                 started, history>>

-----------------------------------------------------------------------------
(* What the database does to a request that is under way.                  *)

\* r waits for a lock that s holds.
WaitsFor(r, s) ==
  /\ r # s
  /\ \/ pc[r] = "revert" /\ lock[seen[r].acct] = s
     \/ pc[r] = "apply" /\ lock[cur[r].acct] = s
     \/ pc[r] \in {"save", "remove"} /\ wrow[s][obj[r]] # Untouched
     \/ pc[r] = "acctSave" /\ lock[obj[r]] = s
     \/ pc[r] = "acctDelete" /\ (lock[obj[r]] = s \/ PinsAcct(s, obj[r]))
     \/ pc[r] = "catDelete" /\ PinsCat(s, obj[r])

\* Every member of the set waits for a member and is waited for by one.
Deadlocked(S) ==
  /\ S # {}
  /\ \A r \in S : (\E s \in S : WaitsFor(r, s)) /\ (\E s \in S : WaitsFor(s, r))

\* The deadlock detector cancels one member of a cycle.
DeadlockAbort(r) ==
  /\ \E S \in SUBSET Reqs : r \in S /\ Deadlocked(S)
  /\ Rollback(r)

\* A statement fails, the client goes away (request context cancelled) or the
\* process stops: nothing of the open transaction survives.
Abort(r) ==
  /\ Faults
  /\ pc[r] # "idle"
  /\ Rollback(r)

-----------------------------------------------------------------------------
Step(r) ==
  \/ CheckCategory(r) \/ CheckAccount(r) \/ Insert(r) \/ Revert(r) \/ Apply(r)
  \/ Save(r) \/ Remove(r) \/ Commit(r)
  \/ SaveAccount(r) \/ DeleteAccount(r)
  \/ SaveCategory(r) \/ CountCategoryUse(r) \/ DeleteCategory(r)

Arrive(r) ==
  \/ BeginCreate(r) \/ BeginUpdate(r) \/ BeginDelete(r)
  \/ CreateAccount(r) \/ BeginAccountUpdate(r) \/ BeginAccountDelete(r)
  \/ CreateCategory(r) \/ BeginCategoryUpdate(r) \/ BeginCategoryDelete(r)

\* No request is under way: the service waits for clients.
Quiet == (\A r \in Reqs : pc[r] = "idle") /\ UNCHANGED vars

Next ==
  \/ \E r \in Reqs : Arrive(r) \/ Step(r) \/ DeadlockAbort(r) \/ Abort(r)
  \/ Quiet

Spec == Init /\ [][Next]_vars

\* A goroutine that can run does (the Go scheduler), a row lock is granted in
\* the order it was asked for (strong fairness on the statements that wait),
\* and the deadlock detector runs.
FairSpec ==
  /\ Spec
  /\ \A r \in Reqs : SF_vars(Step(r)) /\ WF_vars(DeadlockAbort(r))

-----------------------------------------------------------------------------
(* Properties.                                                             *)

RowOrNone == Row \cup {NoRow}

\* Types of the variables; what each statement may rely on about the fields of
\* its request is part of it.
TypeOK ==
  /\ rows \in [Txs -> RowOrNone]
  /\ balance \in [Accts -> Int]
  /\ accounts \subseteq Accts
  /\ categories \in [Cats -> Types \cup {NoCat}]
  /\ issued \subseteq Txs \cup Accts \cup Cats
  /\ lock \in [Accts -> Reqs \cup {Free}]
  /\ wrow \in [Reqs -> [Txs -> RowOrNone \cup {Untouched}]]
  /\ wdelta \in [Reqs -> [Accts -> Int]]
  /\ pc \in [Reqs -> PCs]
  /\ obj \in [Reqs -> Txs \cup Accts \cup Cats \cup {NoId}]
  /\ seen \in [Reqs -> RowOrNone]
  /\ cur \in [Reqs -> RowOrNone]
  /\ left \in [Reqs -> Nat]
  /\ started \in Nat
  /\ opening \in [Accts -> Int]
  /\ posted \in [Accts -> [Txs -> Int]]
  /\ wposted \in [Reqs -> [Accts -> [Txs -> Int]]]
  /\ tainted \in [Reqs -> BOOLEAN]
  /\ skew \subseteq Txs
  /\ retyped \subseteq Cats

\* No transaction refers to an account or a category that is gone, although
\* both are deleted on the strength of an earlier count
\* (accounts/service.go:84-91, categories/service.go:84-92).
NoDanglingReference ==
  \A t \in Txs : rows[t] # NoRow => ParentsExist(rows[t])

\* What the statements have added to each account in the name of a transaction
\* is the effect of its stored row, whatever requests ran side by side, unless
\* some request committed it on a row already overwritten (or on an account
\* that was gone): transactions/service.go:213-222 and 238-243.
PostedMatchesRow ==
  \A t \in Txs \ skew, a \in Accts : posted[a][t] = EffectOn(a, rows[t])

\* The inductive invariant behind PostedMatchesRow.  An idle request holds
\* nothing; the fields of the others are what their next statement needs.
Clear(r) ==
  /\ wrow[r] = NothingWritten /\ wposted[r] = NothingPosted
  /\ seen[r] = NoRow /\ ~tainted[r]

FieldsFit(r) ==
  /\ pc[r] \in {"acctSave", "acctDelete"} => obj[r] \in Accts /\ Clear(r)
  /\ pc[r] \in {"catSave", "catCount", "catDelete"} => obj[r] \in Cats /\ Clear(r)
  /\ pc[r] = "idle" => Clear(r)
  /\ pc[r] \in {"revert", "save", "remove"} => seen[r] # NoRow
  /\ pc[r] = "insert" => seen[r] = NoRow
  /\ pc[r] = "remove" => cur[r] = NoRow
  /\ pc[r] \in {"account", "insert", "apply", "save"} => cur[r] # NoRow
  /\ pc[r] \in {"category", "account", "insert", "apply"} /\ seen[r] = NoRow => left[r] > 0
  /\ pc[r] \in {"apply", "commit"} \/ seen[r] # NoRow => obj[r] \in Txs

\* An open Create has posted the effect of every row it inserted, except the
\* one it is about to; nobody else knows those rows.
CreatePosted(r) ==
  seen[r] = NoRow =>
    /\ ~tainted[r]
    /\ pc[r] = "apply" => wrow[r][obj[r]] = cur[r]
    /\ \A t \in Txs :
         /\ wrow[r][t] # NoRow
         /\ wrow[r][t] # Untouched => rows[t] = NoRow
         /\ \A a \in Accts : wposted[r][a][t] =
              IF wrow[r][t] = Untouched \/ (pc[r] = "apply" /\ t = obj[r]) THEN 0
              ELSE EffectOn(a, wrow[r][t])

\* An open Update or Delete writes its own row only, as its last statement; on
\* a row nobody overwrote it has posted the old effect reverted and, from
\* Apply on, the new one.
EditPosted(r) ==
  seen[r] # NoRow =>
    /\ \A t \in Txs : wrow[r][t] =
         IF t = obj[r] /\ pc[r] = "commit" THEN cur[r] ELSE Untouched
    /\ \A t \in Txs \ {obj[r]}, a \in Accts : wposted[r][a][t] = 0
    /\ ~tainted[r] =>
         /\ rows[obj[r]] = seen[r]
         /\ \A a \in Accts : wposted[r][a][obj[r]] =
              (IF pc[r] \in {"save", "commit"} THEN EffectOn(a, cur[r]) ELSE 0)
            - (IF pc[r] \in {"category", "account", "revert"} THEN 0
               ELSE EffectOn(a, seen[r]))

RowsOwned ==
  /\ \A t \in Txs : rows[t] # NoRow => t \in issued
  /\ \A r \in Reqs : seen[r] # NoRow => obj[r] \in issued
  /\ \A r \in Reqs, t \in Txs : wrow[r][t] # Untouched =>
       /\ t \in issued
       /\ wrow[r][t] # NoRow => ParentsExist(wrow[r][t])
       /\ \A s \in Reqs \ {r} : wrow[s][t] = Untouched

LedgerInv ==
  /\ TypeOK
  /\ NoDanglingReference
  /\ RowsOwned
  /\ \A r \in Reqs : FieldsFit(r) /\ CreatePosted(r) /\ EditPosted(r)
  /\ PostedMatchesRow

\* A stored row has the type of its category, as ensureCategoryAndAccount
\* demands, unless categories.Update changed the type of that category.
CategoryTypeAgrees ==
  \A t \in Txs : rows[t] # NoRow /\ rows[t].type # categories[rows[t].cat]
                   => rows[t].cat \in retyped

\* Only a request that takes two row locks can be in a deadlock: an Update
\* that moves a transaction to another account, or a batch.
OnlyTwoAccountsDeadlock ==
  \A S \in SUBSET Reqs : Deadlocked(S) =>
    \A r \in S : cur[r] # NoRow /\
      \/ seen[r] # NoRow /\ seen[r].acct # cur[r].acct
      \/ seen[r] = NoRow /\ \E a \in Accts \ {cur[r].acct} : lock[a] = r

\* A row that is not in the table enters it by the INSERT of a Create, or is
\* recorded as skew: Update's Save brings a deleted row back only when the
\* delete overtook it (transactions/service.go:221).
DeletedStaysDeleted ==
  [][\A t \in Txs : rows[t] = NoRow /\ rows'[t] # NoRow =>
       \/ t \in skew'
       \/ \E r \in Reqs : seen[r] = NoRow /\ wrow[r][t] = rows'[t]]_vars

\* Every request gets its answer: row locks and the deadlock detector leave no
\* one waiting for ever.
EveryRequestEnds == \A r \in Reqs : (pc[r] # "idle") ~> (pc[r] = "idle")

=============================================================================
