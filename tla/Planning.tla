------------------------------ MODULE Planning ------------------------------
(***************************************************************************)
(* Budgets (modules/budgets/service.go) and the daily and monthly summary  *)
(* rows that every computed report writes (refreshSummaryTables in         *)
(* modules/reports/service.go), statement by statement.                    *)
(*                                                                         *)
(* Neither runs in a transaction, and no foreign key ties a budget to its  *)
(* category.  The ledger goes on beside them: categories are retyped and   *)
(* deleted, and transactions change the figures of a day.  The sweep of    *)
(* cached reports that ends a change of a budget is ReportCache's.         *)
(***************************************************************************)
EXTENDS Integers, FiniteSetsExt

CONSTANTS
  Reqs,
  Budgets,     \* ids of budget rows
  Cats, Months,
  WholeMonth,  \* category 0: the budget of a whole month
  Days, Month, \* the days, numbered, of one month, and that month
  Slots,       \* parts of days, <<day, part>>: bounds of a report may lie between them
  Figures,     \* incomes and expenses a part of a day may have
  InitKind,    \* the type of each category at first
  NoRow,
  MaxChanges   \* bound: changes of the ledger

ASSUME PlanningAssumption ==
  /\ IsFiniteSet(Budgets) /\ Days \subseteq Nat
  /\ IsFiniteSet(Slots) /\ \A s \in Slots : s[1] \in Days
  /\ Month \notin Days /\ WholeMonth \notin Cats
  /\ Figures \subseteq [inc : Nat, exp : Nat] /\ [inc |-> 0, exp |-> 0] \in Figures
  /\ InitKind \in [Cats -> {"expense", "income"}]
  /\ NoRow \notin [inc : Nat, exp : Nat] /\ MaxChanges \in Nat

VARIABLES
  budgets,    \* table budgets
  used,       \* ids given out
  kind,       \* per category: "expense", "income" or "deleted"
  figures,    \* what the transactions of each slot add up to
  snap,       \* tables daily_summaries and monthly_summaries
  pc, job,    \* per request: its next statement and its locals
  changes,    \* bound counter
  seen,       \* history, per period: what a report could read of it while it was reading
  deleted,    \* history: budgets that were deleted
  overtaken,  \* history: budgets deleted while an update held them
  doubtful    \* history: budgets whose category changed after it was checked

planVars == <<budgets, used, kind, figures, snap, pc, job, changes,
              seen, deleted, overtaken, doubtful>>

Keys == [month : Months, cat : Cats \cup {WholeMonth}]
Periods == Days \cup {Month}
Ranges == SUBSET Slots
Results == {"ok", "created", "invalid", "notFound", "failed", "cut"}
NoJob == [id |-> NoRow, key |-> NoRow, valid |-> TRUE, doubtful |-> FALSE, range |-> {},
          todo |-> {}, found |-> FALSE, result |-> "ok"]

SumOf(range, fs) ==
  LET incomes == [s \in range |-> fs[s].inc]
      expenses == [s \in range |-> fs[s].exp]
  IN  [inc |-> MapThenSumSet(LAMBDA s : incomes[s], range),
       exp |-> MapThenSumSet(LAMBDA s : expenses[s], range)]
HasRows(f) == f.inc > 0 \/ f.exp > 0

\* What the part of period p that lies in the range adds up to.
Within(p, range) == IF p = Month THEN range ELSE {s \in range : s[1] = p}
Shown(p, range, fs) == SumOf(Within(p, range), fs)

\* Request r is a report that has yet to read period p.
Reading(r, p) == pc[r] = "days" \/ (p = Month /\ pc[r] = "month")

PlanInit ==
  /\ budgets = [b \in Budgets |-> NoRow] /\ used = {}
  /\ kind = InitKind
  /\ figures = [s \in Slots |-> [inc |-> 0, exp |-> 0]]
  /\ snap = [p \in Periods |-> NoRow]
  /\ pc = [r \in Reqs |-> "idle"] /\ job = [r \in Reqs |-> NoJob]
  /\ changes = 0 /\ seen = [p \in Periods |-> {}]
  /\ deleted = {} /\ overtaken = {} /\ doubtful = {}

Tables == <<budgets, used, kind, figures, snap>>
History == <<changes, seen, deleted, overtaken, doubtful>>

Goto(r, next) == pc' = [pc EXCEPT ![r] = next]
Start(r, j, first) == job' = [job EXCEPT ![r] = j] /\ Goto(r, first)
End(r, result) ==
  job' = [job EXCEPT ![r] = [NoJob EXCEPT !.result = result]] /\ Goto(r, "done")

-----------------------------------------------------------------------------
(***************************************************************************)
(* Budgets.                                                                *)
(***************************************************************************)
CheckBefore == [insert |-> "checkinsert", save |-> "checksave"]

\* Month and amount are validated before the category is looked up.
AfterValidation(r, write) ==
  IF ~job[r].valid THEN End(r, "invalid")
  ELSE /\ Goto(r, IF job[r].key.cat = WholeMonth THEN write ELSE CheckBefore[write])
       /\ UNCHANGED job

\* As many creates may be under way as there are ids left.
BeginCreate(r, key, valid) ==
  /\ Cardinality(used \cup {q \in Reqs : pc[q] \notin {"idle", "done"}}) < Cardinality(Budgets)
  /\ Start(r, [NoJob EXCEPT !.key = key, !.valid = valid], "create")
  /\ UNCHANGED <<Tables, History>>

BeginUpdate(r, b, key, valid) ==
  /\ Start(r, [NoJob EXCEPT !.id = b, !.key = key, !.valid = valid], "load")
  /\ UNCHANGED <<Tables, History>>

BeginDelete(r, b) ==
  /\ Start(r, [NoJob EXCEPT !.id = b], "delete")
  /\ UNCHANGED <<Tables, History>>

Build(r) ==
  /\ pc[r] = "create"
  /\ AfterValidation(r, "insert")
  /\ UNCHANGED <<Tables, History>>

\* Faulty variant: an update whose row is not there goes on.
LoadBudgetUnseen(r) ==
  /\ pc[r] = "load"
  /\ AfterValidation(r, "save")
  /\ UNCHANGED <<Tables, History>>

LoadBudget(r) ==
  /\ pc[r] = "load"
  /\ IF budgets[job[r].id] = NoRow THEN End(r, "notFound") ELSE AfterValidation(r, "save")
  /\ UNCHANGED <<Tables, History>>

CheckCategory(r, write) ==
  /\ pc[r] = CheckBefore[write]
  /\ CASE kind[job[r].key.cat] = "deleted" -> End(r, "notFound")
       [] kind[job[r].key.cat] = "income"  -> End(r, "invalid")
       [] OTHER -> Goto(r, write) /\ UNCHANGED job
  /\ UNCHANGED <<Tables, History>>

\* The unique index over user, month and category.
Taken(key, b) == \E o \in Budgets \ {b} : budgets[o] = key

\* The row of budget b is written as request r has checked it.
Write(r, b, result) ==
  /\ IF Taken(job[r].key, b)
     THEN End(r, "failed") /\ UNCHANGED <<budgets, used, doubtful>>
     ELSE /\ budgets' = [budgets EXCEPT ![b] = job[r].key]
          /\ used' = used \cup {b}
          /\ doubtful' = IF job[r].doubtful THEN doubtful \cup {b} ELSE doubtful \ {b}
          /\ End(r, result)
  /\ UNCHANGED <<kind, figures, snap, changes, seen, deleted, overtaken>>

Insert(r) == pc[r] = "insert" /\ \E b \in Budgets \ used : Write(r, b, "created")

\* An UPDATE that matches no row is followed by an INSERT of the same id.
Save(r) == pc[r] = "save" /\ Write(r, job[r].id, "ok")

\* Requests that have loaded budget b and will write it.
Holders(b) == {r \in Reqs : job[r].id = b /\ pc[r] \in {"checksave", "save"}}

Delete(r) ==
  /\ pc[r] = "delete"
  /\ LET b == job[r].id
     IN  IF budgets[b] = NoRow
         THEN End(r, "notFound") /\ UNCHANGED <<budgets, deleted, overtaken>>
         ELSE /\ budgets' = [budgets EXCEPT ![b] = NoRow]
              /\ deleted' = deleted \cup {b}
              /\ overtaken' = IF Holders(b) # {} THEN overtaken \cup {b} ELSE overtaken
              /\ End(r, "ok")
  /\ UNCHANGED <<used, kind, figures, snap, changes, seen, doubtful>>

-----------------------------------------------------------------------------
(***************************************************************************)
(* Reports: the part that writes.                                          *)
(***************************************************************************)
\* The bounds of the range may lie inside days: by default it ends now.
BeginReport(r, range) ==
  /\ Start(r, [NoJob EXCEPT !.range = range], "days")
  /\ seen' = [p \in Periods |-> seen[p] \cup {Shown(p, range, figures)}]
  /\ UNCHANGED <<Tables, changes, deleted, overtaken, doubtful>>

\* One query groups the range by day, without the filters of the request; a
\* day without transactions in the range has no row.
SnapDays(r) ==
  /\ pc[r] = "days"
  /\ LET shown == [d \in Days |-> Shown(d, job[r].range, figures)]
     IN  job' = [job EXCEPT ![r].todo = {<<d, shown[d]>> : d \in {e \in Days : HasRows(shown[e])}}]
  /\ Goto(r, "month")
  /\ UNCHANGED <<Tables, History>>

\* The next one groups the same range by month.
SnapMonth(r) ==
  /\ pc[r] = "month"
  /\ LET sum == Shown(Month, job[r].range, figures)
     IN  job' = [job EXCEPT ![r].todo = IF HasRows(sum) THEN @ \cup {<<Month, sum>>} ELSE @]
  /\ Goto(r, "find")
  /\ UNCHANGED <<Tables, History>>

\* The rows are written day by day, and then the month's.
Due(todo) == {t \in todo : \A u \in todo : u[1] = Month \/ (t[1] # Month /\ t[1] <= u[1])}

\* FirstOrCreate looks for the row of the next period.
FindRow(r) ==
  /\ pc[r] = "find"
  /\ IF job[r].todo = {} THEN End(r, "ok")
     ELSE /\ \E t \in Due(job[r].todo) : job' = [job EXCEPT ![r].found = snap[t[1]] # NoRow]
          /\ Goto(r, "upsert")
  /\ UNCHANGED <<Tables, History>>

\* Faulty variant: the new figures are added to the old ones.
AssignAdds(old, f) == [inc |-> old.inc + f.inc, exp |-> old.exp + f.exp]

\* The UPDATE sets the fields of the struct that are not zero.
Assign(old, f) == [inc |-> IF f.inc = 0 THEN old.inc ELSE f.inc,
                   exp |-> IF f.exp = 0 THEN old.exp ELSE f.exp]

\* A row found is updated; otherwise it is created, unless another report has.
Upsert(r) ==
  /\ pc[r] = "upsert"
  /\ \E t \in Due(job[r].todo) :
       IF ~job[r].found /\ snap[t[1]] # NoRow
       THEN End(r, "failed") /\ UNCHANGED snap
       ELSE /\ snap' = [snap EXCEPT ![t[1]] = IF job[r].found THEN Assign(@, t[2]) ELSE t[2]]
            /\ job' = [job EXCEPT ![r].todo = @ \ {t}]
            /\ Goto(r, "find")
  /\ UNCHANGED <<budgets, used, kind, figures, History>>

-----------------------------------------------------------------------------
\* A statement fails, or the context of the request ends it.  Update takes any
\* error of its first query for a budget that is not there.
Interrupt(r, result) ==
  /\ pc[r] \notin {"idle", "done", "create"}
  /\ End(r, IF pc[r] = "load" THEN "notFound" ELSE result)
  /\ UNCHANGED <<Tables, History>>

\* The answer to a statement that was executed does not arrive in time.
LoseAnswer(r) ==
  /\ pc[r] = "done" /\ job[r].result \in {"ok", "created"}
  /\ End(r, "cut")
  /\ UNCHANGED <<Tables, History>>

Step(r) ==
  \/ Build(r) \/ LoadBudget(r) \/ Insert(r) \/ Save(r) \/ Delete(r)
  \/ \E write \in {"insert", "save"} : CheckCategory(r, write)
  \/ SnapDays(r) \/ SnapMonth(r) \/ FindRow(r) \/ Upsert(r)

\* The ledger retypes or deletes category c.
ChangeCategory(c, to) ==
  /\ changes < MaxChanges /\ kind[c] \notin {"deleted", to}
  /\ kind' = [kind EXCEPT ![c] = to]
  /\ doubtful' = doubtful \cup {b \in Budgets : budgets[b] # NoRow /\ budgets[b].cat = c}
  /\ job' = [r \in Reqs |-> IF pc[r] \in {"insert", "save"} /\ job[r].key.cat = c
                            THEN [job[r] EXCEPT !.doubtful = TRUE] ELSE job[r]]
  /\ changes' = changes + 1
  /\ UNCHANGED <<budgets, used, figures, snap, pc, seen, deleted, overtaken>>

\* Transactions of slot s are created, changed or deleted.
ChangeFigures(s, f) ==
  /\ changes < MaxChanges /\ figures[s] # f
  /\ figures' = [figures EXCEPT ![s] = f]
  /\ seen' = [p \in Periods |-> seen[p] \cup
       {Shown(p, job[r].range, figures') : r \in {q \in Reqs : Reading(q, p)}}]
  /\ changes' = changes + 1
  /\ UNCHANGED <<budgets, used, kind, snap, pc, job, deleted, overtaken, doubtful>>

CategoriesChange ==
  \E c \in Cats, to \in {"expense", "income", "deleted"} : ChangeCategory(c, to)
FiguresChange == \E s \in Slots, f \in Figures : ChangeFigures(s, f)

-----------------------------------------------------------------------------
PlanTypeOK ==
  /\ budgets \in [Budgets -> Keys \cup {NoRow}]
  /\ used \subseteq Budgets /\ {b \in Budgets : budgets[b] # NoRow} \subseteq used
  /\ kind \in [Cats -> {"expense", "income", "deleted"}]
  /\ figures \in [Slots -> Figures]
  /\ \A p \in Periods : snap[p] = NoRow \/ (snap[p].inc \in Nat /\ snap[p].exp \in Nat)
  /\ \A r \in Reqs : job[r].result \in Results
  /\ changes \in 0..MaxChanges

\* A stored budget is what its last writer checked: its category is the whole
\* month or one for expenses, unless it changed after the check; and a deleted
\* budget is back only where an update held it when it was deleted.
\* budgets/service.go:36-75
BudgetsStandAsChecked ==
  \A b \in Budgets : budgets[b] # NoRow =>
    /\ budgets[b].cat = WholeMonth \/ kind[budgets[b].cat] = "expense" \/ b \in doubtful
    /\ b \in deleted => b \in overtaken

\* Some report of the period could read an income, or an expense, and some report
\* rows without any.
LacksOne(p) == \E f, g \in seen[p] :
  HasRows(g) /\ ((f.inc > 0 /\ g.inc = 0) \/ (f.exp > 0 /\ g.exp = 0))

\* Whatever reports overlap, a stored summary shows what the part of its period
\* within the bounds of some report added up to at one moment, before that report
\* had read it: never two moments, two ranges or two reports mixed.  It need not be
\* the whole period.  The exception is a period whose income or expense was 0 beside
\* the other, which an update does not store.
\* reports/service.go:459-490 and 607-631
SnapshotOnceTrue ==
  \A p \in Periods : snap[p] = NoRow \/ snap[p] \in seen[p] \/ LacksOne(p)

=============================================================================
