---------------------------- MODULE GatewayProofs ----------------------------
(***************************************************************************)
(* Proofs about Gateway, Config, Negotiation and Planning: what starts is  *)
(* what was written, every answer carries its headers and its count, and   *)
(* budgets and summaries stand for what their writers saw, for any number  *)
(* of connections, any environments, headers, budgets, days and figures.   *)
(***************************************************************************)
EXTENDS Gateway, Sums, TLAPS

Fig == [inc : Nat, exp : Nat]

JobRec == [id : Budgets \cup {NoRow}, key : Keys \cup {NoRow}, valid : BOOLEAN,
           doubtful : BOOLEAN, range : SUBSET Slots, todo : SUBSET (Periods \X Fig),
           found : BOOLEAN, result : Results]

\* The tables, the locals and the history of Planning.
Shape ==
  /\ budgets \in [Budgets -> Keys \cup {NoRow}]
  /\ used \subseteq Budgets /\ \A b \in Budgets : budgets[b] # NoRow => b \in used
  /\ kind \in [Cats -> {"expense", "income", "deleted"}]
  /\ figures \in [Slots -> Figures]
  /\ snap \in [Periods -> Fig \cup {NoRow}]
  /\ DOMAIN pc = Reqs /\ job \in [Reqs -> JobRec]
  /\ changes \in 0..MaxChanges
  /\ seen \in [Periods -> SUBSET Fig]

\* Deleted budgets had an id.
Recorded == deleted \subseteq used

\* What a request about to write a budget has checked.
Writing(r) ==
  /\ pc[r] \in {"create", "load", "checkinsert", "insert", "checksave", "save"}
       => job[r].key \in Keys
  /\ pc[r] \in {"load", "checksave", "save", "delete"} => job[r].id \in Budgets
  /\ pc[r] \in {"checkinsert", "checksave"} => job[r].key.cat \in Cats
  /\ pc[r] \in {"insert", "save"} =>
       \/ job[r].key.cat = WholeMonth \/ kind[job[r].key.cat] = "expense"
       \/ job[r].doubtful
  /\ pc[r] \in {"checksave", "save"} => (job[r].id \in deleted => job[r].id \in overtaken)

\* What a report has yet to read has been noted, and so has what it has read and is
\* about to write.
Noted(r, p) == Shown(p, job[r].range, figures) \in seen[p]
Reporting(r) ==
  /\ \A p \in Periods : Reading(r, p) => Noted(r, p)
  /\ \A t \in job[r].todo : t[2] \in seen[t[1]] /\ HasRows(t[2])
  /\ pc[r] = "upsert" /\ job[r].found => \A t \in Due(job[r].todo) : snap[t[1]] # NoRow

PlanInv ==
  /\ Shape /\ Recorded
  /\ \A r \in Reqs : Writing(r) /\ Reporting(r)
  /\ BudgetsStandAsChecked /\ SnapshotOnceTrue

-----------------------------------------------------------------------------
(* Planning.                                                               *)

\* Figures add up to figures.
LEMMA SumType ==
  ASSUME NEW range \in SUBSET Slots, NEW fs \in [Slots -> Figures]
  PROVE  SumOf(range, fs) \in Fig
<1> DEFINE incomes == [d \in range |-> fs[d].inc]
           expenses == [d \in range |-> fs[d].exp]
<1>1. IsFiniteSet(range)  BY PlanningAssumption, FS_Subset
<1>2. \A d \in range : incomes[d] \in Nat /\ expenses[d] \in Nat
  BY PlanningAssumption
<1>3. SumOf(range, fs) = [inc |-> Total(incomes, range), exp |-> Total(expenses, range)]
  BY DEF SumOf, Total
<1> HIDE DEF incomes, expenses
<1>4. Total(incomes, range) \in Nat /\ Total(expenses, range) \in Nat
  BY <1>1, <1>2, TotalNatural
<1> QED BY <1>3, <1>4 DEF Fig

\* What a report reads of a period are figures.
LEMMA ShownType ==
  ASSUME NEW p, NEW range \in SUBSET Slots, NEW fs \in [Slots -> Figures]
  PROVE  Shown(p, range, fs) \in Fig
<1>1. Within(p, range) \in SUBSET Slots  BY DEF Within
<1> QED BY <1>1, SumType DEF Shown

\* Empty tables and no request.
LEMMA PlanInitInv == PlanInit => PlanInv
<1> SUFFICES ASSUME PlanInit PROVE PlanInv
  OBVIOUS
<1> USE PlanningAssumption DEF PlanInit
<1>1. figures \in [Slots -> Figures]  OBVIOUS
<1>2. Shape
  <2>1. seen \in [Periods -> SUBSET Fig]  OBVIOUS
  <2>2. NoJob \in JobRec  BY DEF NoJob, JobRec, Results
  <2>3. kind \in [Cats -> {"expense", "income", "deleted"}]  OBVIOUS
  <2>4. changes \in 0..MaxChanges  OBVIOUS
  <2>5. job \in [Reqs -> JobRec]  BY <2>2
  <2> QED BY <1>1, <2>1, <2>3, <2>4, <2>5 DEF Shape
<1>3. Recorded  BY DEF Recorded
<1>4. \A r \in Reqs : Writing(r) /\ Reporting(r)
  BY DEF Writing, Reporting, Reading, NoJob
<1>5. BudgetsStandAsChecked /\ SnapshotOnceTrue
  BY DEF BudgetsStandAsChecked, SnapshotOnceTrue
<1> QED BY <1>2, <1>3, <1>4, <1>5 DEF PlanInv

\* A request goes on alone: the tables and the others stay, what was seen stays seen.
Aside(r) ==
  /\ UNCHANGED <<Tables, changes, deleted, overtaken, doubtful>>
  /\ seen' \in [Periods -> SUBSET Fig] /\ \A p \in Periods : seen[p] \subseteq seen'[p]
  /\ DOMAIN pc' = Reqs /\ job' \in [Reqs -> JobRec]
  /\ \A q \in Reqs \ {r} : pc'[q] = pc[q] /\ job'[q] = job[q]

\* A step that writes no table and moves one request keeps PlanInv if that request fits
\* its next statement.
LEMMA AsideStep ==
  ASSUME PlanInv, NEW r \in Reqs, Aside(r), Writing(r)', Reporting(r)'
  PROVE  PlanInv'
<1> USE DEF Aside, Tables
<1>1. Shape'  BY DEF PlanInv, Shape
<1>2. Recorded'  BY DEF PlanInv, Recorded
<1>3. ASSUME NEW q \in Reqs, q # r PROVE Writing(q)' /\ Reporting(q)'
  <2>1. pc'[q] = pc[q] /\ job'[q] = job[q]  BY <1>3
  <2>2. Writing(q) /\ Reporting(q) /\ job[q] \in JobRec  BY DEF PlanInv, Shape
  <2>3. Writing(q)'  BY <2>1, <2>2 DEF Writing
  <2>4. \A t \in job[q].todo : t[1] \in Periods  BY <2>2 DEF JobRec
  <2>5. Reporting(q)'  BY <2>1, <2>2, <2>4 DEF Reporting, Reading, Noted
  <2> QED BY <2>3, <2>5
<1>4. BudgetsStandAsChecked'  BY DEF PlanInv, BudgetsStandAsChecked
<1>5. SnapshotOnceTrue'
  <2> SUFFICES ASSUME NEW p \in Periods, snap[p] # NoRow
               PROVE  snap[p] \in seen'[p] \/ LacksOne(p)'
    BY DEF SnapshotOnceTrue
  <2>1. snap[p] \in seen[p] \/ LacksOne(p)  BY DEF PlanInv, SnapshotOnceTrue
  <2>2. LacksOne(p) => LacksOne(p)'  BY DEF LacksOne
  <2> QED BY <2>1, <2>2
<1> QED BY <1>1, <1>2, <1>3, <1>4, <1>5 DEF PlanInv

\* Nothing new is seen.
Local(r) ==
  /\ UNCHANGED <<Tables, History>>
  /\ DOMAIN pc' = Reqs /\ job' \in [Reqs -> JobRec]
  /\ \A q \in Reqs \ {r} : pc'[q] = pc[q] /\ job'[q] = job[q]

\* So it is with most statements.
LEMMA LocalStep ==
  ASSUME PlanInv, NEW r \in Reqs, Local(r), Writing(r)', Reporting(r)'
  PROVE  PlanInv'
<1>1. seen' = seen /\ seen \in [Periods -> SUBSET Fig]
  BY DEF Local, History, PlanInv, Shape
<1>2. Aside(r)  BY <1>1 DEF Local, Aside, History
<1> QED BY <1>2, AsideStep

\* The record of a request without a job.
LEMMA NoJobType ==
  /\ NoJob \in JobRec /\ NoJob.todo = {} /\ NoJob.key = NoRow /\ NoJob.doubtful = FALSE
  /\ NoJob.found = FALSE
BY DEF NoJob, JobRec, Results

\* A handler ends, or its connection takes the next request.
LEMMA EndStep ==
  ASSUME PlanInv, NEW r \in Reqs, NEW j, j = NoJob \/ \E x \in Results : j = [NoJob EXCEPT !.result = x],
         NEW next \in {"done", "idle"},
         pc' = [pc EXCEPT ![r] = next], job' = [job EXCEPT ![r] = j]
  PROVE  /\ DOMAIN pc' = Reqs /\ job' \in [Reqs -> JobRec]
         /\ \A q \in Reqs \ {r} : pc'[q] = pc[q] /\ job'[q] = job[q]
         /\ Writing(r)' /\ Reporting(r)'
<1>1. j \in JobRec /\ j.todo = {}
  BY NoJobType DEF JobRec
<1>2. pc'[r] = next /\ job'[r] = j  BY DEF PlanInv, Shape
<1> QED BY <1>1, <1>2 DEF PlanInv, Shape, Writing, Reporting, Reading

\* A handler ends without having written.
LEMMA EndAlone ==
  ASSUME PlanInv, NEW r \in Reqs, NEW x \in Results, End(r, x), UNCHANGED <<Tables, History>>
  PROVE  PlanInv'
<1>1. Local(r) /\ Writing(r)' /\ Reporting(r)'
  BY EndStep DEF End, Goto, Local
<1> QED BY <1>1, LocalStep

\* A request goes to its next statement with the same locals.
LEMMA GotoStep ==
  ASSUME PlanInv, NEW r \in Reqs, NEW next, Goto(r, next), UNCHANGED job,
         UNCHANGED <<Tables, History>>,
         next \in {"insert", "save", "checkinsert", "checksave"} => job[r].key \in Keys,
         next \in {"checkinsert", "checksave"} => job[r].key.cat \in Cats,
         next \in {"insert", "save"} => \/ job[r].key.cat = WholeMonth
                                        \/ kind[job[r].key.cat] = "expense",
         next \in {"checksave", "save"} =>
           job[r].id \in Budgets /\ (job[r].id \in deleted => job[r].id \in overtaken),
         next \notin {"create", "load", "delete", "days", "month", "upsert"}
  PROVE  PlanInv'
<1>1. pc'[r] = next /\ job'[r] = job[r]  BY DEF Goto, PlanInv, Shape
<1>2. Local(r)  BY DEF Goto, Local, PlanInv, Shape
<1>3. Writing(r)'  BY <1>1 DEF Writing, Tables, History
<1>4. Reporting(r)'
  <2>1. Reporting(r)  BY DEF PlanInv
  <2> QED BY <1>1, <2>1 DEF Reporting, Reading, Tables, History
<1> QED BY <1>2, <1>3, <1>4, LocalStep

\* Validation, and the way to the check of the category.
LEMMA ValidationStep ==
  ASSUME PlanInv, NEW r \in Reqs, NEW write \in {"insert", "save"}, AfterValidation(r, write),
         UNCHANGED <<Tables, History>>, job[r].key \in Keys,
         write = "save" =>
           job[r].id \in Budgets /\ (job[r].id \in deleted => job[r].id \in overtaken)
  PROVE  PlanInv'
<1>1. CASE ~job[r].valid
  BY <1>1, EndAlone DEF AfterValidation, Results
<1>2. CASE job[r].valid
  <2> DEFINE next == IF job[r].key.cat = WholeMonth THEN write ELSE CheckBefore[write]
  <2>1. Goto(r, next) /\ UNCHANGED job  BY <1>2 DEF AfterValidation
  <2>2. /\ CheckBefore["insert"] = "checkinsert" /\ CheckBefore["save"] = "checksave"
        /\ job[r].key.cat \in Cats \cup {WholeMonth}
    BY DEF CheckBefore, Keys
  <2>3. next \in {"insert", "save", "checkinsert", "checksave"}  BY <2>2
  <2>4. next \in {"insert", "save"} => job[r].key.cat = WholeMonth  BY <2>2
  <2>5. next \in {"checkinsert", "checksave"} => job[r].key.cat \in Cats  BY <2>2
  <2>6. next \in {"save", "checksave"} => write = "save"  BY <2>2
  <2> HIDE DEF next
  <2> QED BY <2>1, <2>3, <2>4, <2>5, <2>6, GotoStep
<1> QED BY <1>1, <1>2

\* Build checks the fields of a budget: it writes nothing.
LEMMA BuildKeeps ==
  ASSUME PlanInv, NEW r \in Reqs, Build(r)
  PROVE  PlanInv'
<1>1. job[r].key \in Keys  BY DEF Build, PlanInv, Writing
<1> QED BY <1>1, ValidationStep DEF Build

\* LoadBudget reads the budget to be changed: it may be deleted behind its back.
LEMMA LoadKeeps ==
  ASSUME PlanInv, NEW r \in Reqs, LoadBudget(r)
  PROVE  PlanInv'
<1> DEFINE b == job[r].id
<1>1. b \in Budgets /\ job[r].key \in Keys  BY DEF LoadBudget, PlanInv, Writing
<1>2. CASE budgets[b] = NoRow
  BY <1>2, EndAlone DEF LoadBudget, Results
<1>3. CASE budgets[b] # NoRow
  <2>1. b \in deleted => b \in overtaken
    BY <1>1, <1>3 DEF PlanInv, BudgetsStandAsChecked
  <2> QED BY <1>1, <1>3, <2>1, ValidationStep DEF LoadBudget
<1> QED BY <1>2, <1>3

\* CheckCategory reads the category: what it found holds, or the request becomes
\* doubtful.
LEMMA CheckKeeps ==
  ASSUME PlanInv, NEW r \in Reqs, NEW write \in {"insert", "save"}, CheckCategory(r, write)
  PROVE  PlanInv'
<1> DEFINE k == kind[job[r].key.cat]
<1>1. /\ CheckBefore["insert"] = "checkinsert" /\ CheckBefore["save"] = "checksave"
      /\ pc[r] = CheckBefore[write] /\ UNCHANGED <<Tables, History>>
  BY DEF CheckBefore, CheckCategory
<1>2. /\ job[r].key \in Keys /\ job[r].key.cat \in Cats
      /\ write = "save" => job[r].id \in Budgets /\ (job[r].id \in deleted => job[r].id \in overtaken)
  BY <1>1 DEF PlanInv, Writing
<1>3. k \in {"expense", "income", "deleted"}  BY <1>2 DEF PlanInv, Shape
<1>4. CASE k = "deleted"
  BY <1>1, <1>4, EndAlone DEF CheckCategory, Results
<1>5. CASE k = "income"
  BY <1>1, <1>5, EndAlone DEF CheckCategory, Results
<1>6. CASE k = "expense"
  <2>1. Goto(r, write) /\ UNCHANGED job  BY <1>6 DEF CheckCategory
  <2> QED BY <1>1, <1>2, <1>6, <2>1, GotoStep
<1> QED BY <1>3, <1>4, <1>5, <1>6

\* A request begins with a job that fits its first statement.
LEMMA StartStep ==
  ASSUME PlanInv, NEW r \in Reqs, NEW j \in JobRec, NEW first \in {"create", "load", "delete"},
         Start(r, j, first), UNCHANGED <<Tables, History>>,
         first \in {"create", "load"} => j.key \in Keys,
         first \in {"load", "delete"} => j.id \in Budgets, j.todo = {}
  PROVE  PlanInv'
<1>1. pc'[r] = first /\ job'[r] = j  BY DEF Start, Goto, PlanInv, Shape
<1>2. Local(r)  BY DEF Start, Goto, Local, PlanInv, Shape
<1>3. Writing(r)'  BY <1>1 DEF Writing
<1>4. Reporting(r)'  BY <1>1 DEF Reporting, Reading
<1> QED BY <1>2, <1>3, <1>4, LocalStep

\* A report begins: what it can read now is noted.
LEMMA ReportBegins ==
  ASSUME PlanInv, NEW r \in Reqs, NEW range \in Ranges, BeginReport(r, range)
  PROVE  PlanInv'
<1> DEFINE j == [NoJob EXCEPT !.range = range]
<1>1. j \in JobRec /\ j.range = range /\ j.todo = {}
  BY DEF NoJob, JobRec, Results, Ranges
<1>2. Start(r, j, "days") /\ UNCHANGED <<Tables, changes, deleted, overtaken, doubtful>>
  BY DEF BeginReport
<1> HIDE DEF j
<1>3. pc'[r] = "days" /\ job'[r] = j  BY <1>2 DEF Start, Goto, PlanInv, Shape
<1>4. /\ seen' \in [Periods -> SUBSET Fig]
      /\ \A p \in Periods : /\ seen[p] \subseteq seen'[p]
                            /\ Shown(p, range, figures) \in seen'[p]
  <2>1. seen' = [p \in Periods |-> seen[p] \cup {Shown(p, range, figures)}]
    BY DEF BeginReport
  <2>2. \A p \in Periods : Shown(p, range, figures) \in Fig
    BY ShownType DEF PlanInv, Shape, Ranges
  <2>3. seen \in [Periods -> SUBSET Fig]  BY DEF PlanInv, Shape
  <2> QED BY <2>1, <2>2, <2>3
<1>5. Aside(r)  BY <1>1, <1>2, <1>4 DEF Start, Goto, Aside, PlanInv, Shape
<1>6. Writing(r)'  BY <1>3 DEF Writing
<1>7. Reporting(r)'  BY <1>1, <1>2, <1>3, <1>4 DEF Reporting, Noted, Tables
<1> QED BY <1>5, <1>6, <1>7, AsideStep

\* Each operation begins with such a job.
LEMMA BeginKeeps ==
  ASSUME PlanInv, NEW r \in Reqs, NEW q \in Operations, Begin(r, q.op)
  PROVE  PlanInv'
<1> DEFINE op == q.op
<1>1. \/ op.do = "create" /\ op.key \in Keys /\ op.valid \in BOOLEAN
      \/ op.do = "update" /\ op.id \in Budgets /\ op.key \in Keys /\ op.valid \in BOOLEAN
      \/ op.do = "delete" /\ op.id \in Budgets
      \/ op.do = "report" /\ op.range \in Ranges
  BY GatewayAssumption
<1> HIDE DEF op
<1>2. CASE op.do = "create" /\ op.key \in Keys /\ op.valid \in BOOLEAN
  <2> DEFINE j == [NoJob EXCEPT !.key = op.key, !.valid = op.valid]
  <2>1. j \in JobRec /\ j.key = op.key /\ j.todo = {}  BY <1>2 DEF NoJob, JobRec, Results
  <2>2. Start(r, j, "create") /\ UNCHANGED <<Tables, History>>
    BY <1>2 DEF Begin, BeginCreate, op
  <2> HIDE DEF j
  <2> QED BY <1>2, <2>1, <2>2, StartStep
<1>3. CASE op.do = "update" /\ op.id \in Budgets /\ op.key \in Keys /\ op.valid \in BOOLEAN
  <2> DEFINE j == [NoJob EXCEPT !.id = op.id, !.key = op.key, !.valid = op.valid]
  <2>1. j \in JobRec /\ j.key = op.key /\ j.id = op.id /\ j.todo = {}
    BY <1>3 DEF NoJob, JobRec, Results
  <2>2. Start(r, j, "load") /\ UNCHANGED <<Tables, History>>
    BY <1>3 DEF Begin, BeginUpdate, op
  <2> HIDE DEF j
  <2> QED BY <1>3, <2>1, <2>2, StartStep
<1>4. CASE op.do = "delete" /\ op.id \in Budgets
  <2> DEFINE j == [NoJob EXCEPT !.id = op.id]
  <2>1. j \in JobRec /\ j.id = op.id /\ j.todo = {}  BY <1>4 DEF NoJob, JobRec, Results
  <2>2. Start(r, j, "delete") /\ UNCHANGED <<Tables, History>>
    BY <1>4 DEF Begin, BeginDelete, op
  <2> HIDE DEF j
  <2> QED BY <1>4, <2>1, <2>2, StartStep
<1>5. CASE op.do = "report" /\ op.range \in Ranges
  <2>1. BeginReport(r, op.range)  BY <1>5 DEF Begin, op
  <2> QED BY <1>5, <2>1, ReportBegins
<1> QED BY <1>1, <1>2, <1>3, <1>4, <1>5

\* A request ends before its statements do.
LEMMA InterruptKeeps ==
  ASSUME PlanInv, NEW r \in Reqs, NEW x \in Results, Interrupt(r, x)
  PROVE  PlanInv'
<1> DEFINE y == IF pc[r] = "load" THEN "notFound" ELSE x
<1>1. y \in Results /\ End(r, y) /\ UNCHANGED <<Tables, History>>
  BY DEF Interrupt, Results
<1> HIDE DEF y
<1> QED BY <1>1, EndAlone

\* The commit is done, the answer is lost.
LEMMA LoseKeeps ==
  ASSUME PlanInv, NEW r \in Reqs, LoseAnswer(r)
  PROVE  PlanInv'
BY EndAlone DEF LoseAnswer, Results

\* The connection takes the next request.
LEMMA ResetKeeps ==
  ASSUME PlanInv, NEW r \in Reqs, pc' = [pc EXCEPT ![r] = "idle"],
         job' = [job EXCEPT ![r] = NoJob], UNCHANGED <<Tables, History>>
  PROVE  PlanInv'
<1>1. Local(r) /\ Writing(r)' /\ Reporting(r)'
  BY EndStep DEF Local
<1> QED BY <1>1, LocalStep

\* The row that is written shows what its writer has checked.
LEMMA WriteKeeps ==
  ASSUME PlanInv, NEW r \in Reqs, NEW b \in Budgets, NEW x \in Results, Write(r, b, x),
         pc[r] \in {"insert", "save"}, b \in deleted => b \in overtaken
  PROVE  PlanInv'
<1>1. CASE Taken(job[r].key, b)
  BY <1>1, EndAlone DEF Write, Results, Tables, History
<1>2. CASE ~Taken(job[r].key, b)
  <2> DEFINE k == job[r].key
             d == job[r].doubtful
  <2>1. /\ budgets' = [budgets EXCEPT ![b] = k] /\ used' = used \cup {b}
        /\ doubtful' = IF d THEN doubtful \cup {b} ELSE doubtful \ {b}
        /\ End(r, x) /\ UNCHANGED <<kind, figures, snap, changes, seen, deleted, overtaken>>
    BY <1>2 DEF Write
  <2>2. /\ k \in Keys
        /\ k.cat = WholeMonth \/ kind[k.cat] = "expense" \/ d
    BY DEF PlanInv, Writing
  <2> HIDE DEF k, d
  <2>3. /\ DOMAIN pc' = Reqs /\ job' \in [Reqs -> JobRec]
        /\ \A q \in Reqs \ {r} : pc'[q] = pc[q] /\ job'[q] = job[q]
        /\ Writing(r)' /\ Reporting(r)'
    BY <2>1, EndStep DEF End, Goto
  <2>4. Shape'  BY <2>1, <2>2, <2>3 DEF PlanInv, Shape
  <2>5. Recorded'  BY <2>1 DEF PlanInv, Recorded
  <2>6. ASSUME NEW q \in Reqs, q # r PROVE Writing(q)' /\ Reporting(q)'
    <3>1. pc'[q] = pc[q] /\ job'[q] = job[q]  BY <2>3, <2>6
    <3>2. Writing(q) /\ Reporting(q)  BY DEF PlanInv
    <3>3. Writing(q)'  BY <2>1, <3>1, <3>2 DEF Writing
    <3>4. Reporting(q)'  BY <2>1, <3>1, <3>2 DEF Reporting, Reading, Noted
    <3> QED BY <3>3, <3>4
  <2>7. BudgetsStandAsChecked'
    <3> SUFFICES ASSUME NEW c \in Budgets, budgets'[c] # NoRow
                 PROVE  /\ \/ budgets'[c].cat = WholeMonth \/ kind[budgets'[c].cat] = "expense"
                           \/ c \in doubtful'
                        /\ c \in deleted => c \in overtaken
      BY <2>1 DEF BudgetsStandAsChecked
    <3>1. CASE c = b
      <4>1. budgets'[c] = k  BY <2>1, <3>1 DEF PlanInv, Shape
      <4>2. d => c \in doubtful'  BY <2>1, <3>1
      <4> QED BY <2>2, <3>1, <4>1, <4>2
    <3>2. CASE c # b
      <4>1. budgets'[c] = budgets[c]  BY <2>1, <3>2 DEF PlanInv, Shape
      <4>2. c \in doubtful => c \in doubtful'  BY <2>1, <3>2
      <4> QED BY <4>1, <4>2 DEF PlanInv, BudgetsStandAsChecked
    <3> QED BY <3>1, <3>2
  <2>8. SnapshotOnceTrue'  BY <2>1 DEF PlanInv, SnapshotOnceTrue, LacksOne
  <2> QED BY <2>3, <2>4, <2>5, <2>6, <2>7, <2>8 DEF PlanInv
<1> QED BY <1>1, <1>2

\* Insert stores a checked budget, or a doubtful one.
LEMMA InsertKeeps ==
  ASSUME PlanInv, NEW r \in Reqs, Insert(r)
  PROVE  PlanInv'
<1>1. PICK b \in Budgets \ used : Write(r, b, "created")  BY DEF Insert
<1>2. b \notin deleted  BY DEF PlanInv, Recorded
<1> QED BY <1>1, <1>2, WriteKeeps DEF Insert, Results

\* Save stores a checked budget, or a doubtful one, and may bring back a deleted one
\* (overtaken).
LEMMA SaveKeeps ==
  ASSUME PlanInv, NEW r \in Reqs, Save(r)
  PROVE  PlanInv'
<1>1. job[r].id \in Budgets /\ (job[r].id \in deleted => job[r].id \in overtaken)
  BY DEF Save, PlanInv, Writing
<1> QED BY <1>1, WriteKeeps DEF Save, Results

\* Delete marks those who have loaded the budget.
LEMMA DeleteKeeps ==
  ASSUME PlanInv, NEW r \in Reqs, Delete(r)
  PROVE  PlanInv'
<1> DEFINE b == job[r].id
<1>1. b \in Budgets  BY DEF Delete, PlanInv, Writing
<1>2. CASE budgets[b] = NoRow
  BY <1>2, EndAlone DEF Delete, Results, Tables, History
<1>3. CASE budgets[b] # NoRow
  <2>1. /\ budgets' = [budgets EXCEPT ![b] = NoRow] /\ deleted' = deleted \cup {b}
        /\ overtaken' = IF Holders(b) # {} THEN overtaken \cup {b} ELSE overtaken
        /\ End(r, "ok") /\ UNCHANGED <<used, kind, figures, snap, changes, seen, doubtful>>
    BY <1>3 DEF Delete
  <2>2. b \in used  BY <1>1, <1>3 DEF PlanInv, Shape
  <2>3. /\ DOMAIN pc' = Reqs /\ job' \in [Reqs -> JobRec]
        /\ \A q \in Reqs \ {r} : pc'[q] = pc[q] /\ job'[q] = job[q]
        /\ Writing(r)' /\ Reporting(r)'
    BY <2>1, EndStep DEF End, Goto, Results
  <2>4. \A q \in Reqs : pc[q] \in {"checksave", "save"} /\ job[q].id = b => b \in overtaken'
    BY <2>1 DEF Holders
  <2> HIDE DEF b
  <2>5. Shape'  BY <1>1, <2>1, <2>3 DEF PlanInv, Shape
  <2>6. Recorded'  BY <2>1, <2>2 DEF PlanInv, Recorded
  <2>7. ASSUME NEW q \in Reqs, q # r PROVE Writing(q)' /\ Reporting(q)'
    <3>1. pc'[q] = pc[q] /\ job'[q] = job[q]  BY <2>3, <2>7
    <3>2. Writing(q) /\ Reporting(q)  BY DEF PlanInv
    <3>3. Writing(q)'  BY <2>1, <2>4, <3>1, <3>2 DEF Writing
    <3>4. Reporting(q)'  BY <2>1, <3>1, <3>2 DEF Reporting, Reading, Noted
    <3> QED BY <3>3, <3>4
  <2>8. BudgetsStandAsChecked'
    <3>1. budgets'[b] = NoRow /\ \A c \in Budgets \ {b} : budgets'[c] = budgets[c]
      BY <1>1, <2>1 DEF PlanInv, Shape
    <3> QED BY <2>1, <3>1 DEF PlanInv, BudgetsStandAsChecked
  <2>9. SnapshotOnceTrue'  BY <2>1 DEF PlanInv, SnapshotOnceTrue, LacksOne
  <2> QED BY <2>3, <2>5, <2>6, <2>7, <2>8, <2>9 DEF PlanInv
<1> QED BY <1>2, <1>3

\* A report goes on with other rows to write.
LEMMA ReportStep ==
  ASSUME PlanInv, NEW r \in Reqs, NEW T \in SUBSET (Periods \X Fig), NEW next,
         job' = [job EXCEPT ![r].todo = T], Goto(r, next), UNCHANGED <<Tables, History>>,
         pc[r] \in {"days", "month"}, next \in {"month", "find"},
         next = "month" => pc[r] = "days",
         \A t \in T : t[2] \in seen[t[1]] /\ HasRows(t[2])
  PROVE  PlanInv'
<1>1. job[r] \in JobRec  BY DEF PlanInv, Shape
<1>2. /\ pc'[r] = next /\ job'[r].todo = T /\ job'[r].range = job[r].range
      /\ job'[r] \in JobRec
  BY <1>1 DEF Goto, PlanInv, Shape, JobRec
<1>3. Local(r)
  <2>1. job' \in [Reqs -> JobRec]
    <3>1. DOMAIN job' = Reqs /\ \A q \in Reqs : q # r => job'[q] = job[q]
      BY DEF PlanInv, Shape
    <3> QED BY <1>2, <3>1 DEF PlanInv, Shape
  <2> QED BY <2>1 DEF Goto, Local, PlanInv, Shape
<1>4. Writing(r)'  BY <1>2 DEF Writing
<1>5. Reporting(r)'
  <2>1. Reporting(r)  BY DEF PlanInv
  <2>2. \A p \in Periods : Reading(r, p)' => Reading(r, p)  BY <1>2 DEF Reading
  <2> QED BY <1>2, <2>1, <2>2 DEF Reporting, Noted, Tables, History
<1> QED BY <1>3, <1>4, <1>5, LocalStep

\* SnapDays reads the days: what is to be stored has been noted.
LEMMA DaysKeeps ==
  ASSUME PlanInv, NEW r \in Reqs, SnapDays(r)
  PROVE  PlanInv'
<1> DEFINE shown == [d \in Days |-> Shown(d, job[r].range, figures)]
           T == {<<d, shown[d]>> : d \in {e \in Days : HasRows(shown[e])}}
<1>1. pc[r] = "days" /\ job[r] \in JobRec  BY DEF SnapDays, PlanInv, Shape
<1>2. \A d \in Days : shown[d] \in Fig /\ shown[d] \in seen[d] /\ d \in Periods
  <2> SUFFICES ASSUME NEW d \in Days
               PROVE  /\ Shown(d, job[r].range, figures) \in Fig
                      /\ Shown(d, job[r].range, figures) \in seen[d] /\ d \in Periods
    OBVIOUS
  <2>1. Shown(d, job[r].range, figures) \in Fig
    BY <1>1, ShownType DEF PlanInv, Shape, JobRec
  <2>2. d \in Periods  BY DEF Periods
  <2>3. Noted(r, d)  BY <1>1, <2>2 DEF PlanInv, Reporting, Reading
  <2> QED BY <2>1, <2>2, <2>3 DEF Noted
<1>3. /\ job' = [job EXCEPT ![r].todo = T] /\ Goto(r, "month") /\ UNCHANGED <<Tables, History>>
  BY DEF SnapDays
<1> HIDE DEF shown
<1>4. T \in SUBSET (Periods \X Fig) /\ \A t \in T : t[2] \in seen[t[1]] /\ HasRows(t[2])
  BY <1>2
<1> HIDE DEF T
<1> QED BY <1>1, <1>3, <1>4, ReportStep

\* SnapMonth reads the month: what is to be stored has been noted.
LEMMA MonthKeeps ==
  ASSUME PlanInv, NEW r \in Reqs, SnapMonth(r)
  PROVE  PlanInv'
<1> DEFINE sum == Shown(Month, job[r].range, figures)
           old == job[r].todo
           T == IF HasRows(sum) THEN old \cup {<<Month, sum>>} ELSE old
<1>1. pc[r] = "month" /\ job[r] \in JobRec  BY DEF SnapMonth, PlanInv, Shape
<1>2. sum \in Fig  BY <1>1, ShownType DEF PlanInv, Shape, JobRec
<1>3. Month \in Periods /\ sum \in seen[Month]
  <2>1. Month \in Periods  BY DEF Periods
  <2>2. Noted(r, Month)  BY <1>1, <2>1 DEF PlanInv, Reporting, Reading
  <2> QED BY <2>1, <2>2 DEF Noted
<1>4. /\ job' = [job EXCEPT ![r].todo = T] /\ Goto(r, "find") /\ UNCHANGED <<Tables, History>>
  BY DEF SnapMonth
<1>5. old \in SUBSET (Periods \X Fig) /\ \A t \in old : t[2] \in seen[t[1]] /\ HasRows(t[2])
  BY DEF PlanInv, Shape, JobRec, Reporting
<1> HIDE DEF sum, old
<1>6. T \in SUBSET (Periods \X Fig) /\ \A t \in T : t[2] \in seen[t[1]] /\ HasRows(t[2])
  BY <1>2, <1>3, <1>5
<1> HIDE DEF T
<1> QED BY <1>1, <1>4, <1>6, ReportStep

\* The rows that are due are all of one period.
LEMMA DueIsOne ==
  ASSUME NEW T \in SUBSET (Periods \X Fig), NEW t \in Due(T), NEW u \in Due(T)
  PROVE  t \in T /\ t[1] = u[1]
<1>1. t \in T /\ u \in T /\ t[1] \in Periods /\ u[1] \in Periods  BY DEF Due
<1>2. /\ u[1] = Month \/ (t[1] # Month /\ t[1] <= u[1])
      /\ t[1] = Month \/ (u[1] # Month /\ u[1] <= t[1])
  BY <1>1 DEF Due
<1>3. CASE t[1] = Month \/ u[1] = Month  BY <1>1, <1>2, <1>3
<1>4. CASE t[1] # Month /\ u[1] # Month
  <2>1. t[1] \in Nat /\ u[1] \in Nat  BY <1>1, <1>4, PlanningAssumption DEF Periods
  <2> QED BY <1>1, <1>2, <1>4, <2>1
<1> QED BY <1>3, <1>4

\* FindRow looks whether the summary row exists.
LEMMA FindKeeps ==
  ASSUME PlanInv, NEW r \in Reqs, FindRow(r)
  PROVE  PlanInv'
<1>1. CASE job[r].todo = {}
  BY <1>1, EndAlone DEF FindRow, Results
<1>2. CASE job[r].todo # {}
  <2>1. PICK t \in Due(job[r].todo) : job' = [job EXCEPT ![r].found = snap[t[1]] # NoRow]
    BY <1>2 DEF FindRow
  <2>2. Goto(r, "upsert") /\ UNCHANGED <<Tables, History>>  BY <1>2 DEF FindRow
  <2>3. job[r] \in JobRec  BY DEF PlanInv, Shape
  <2> DEFINE f == snap[t[1]] # NoRow
  <2>4. job' = [job EXCEPT ![r].found = f] /\ f \in BOOLEAN  BY <2>1
  <2> HIDE DEF f
  <2>5. /\ pc'[r] = "upsert" /\ job'[r].todo = job[r].todo /\ job'[r].found = f
        /\ job'[r] \in JobRec
    BY <2>2, <2>3, <2>4 DEF Goto, PlanInv, Shape, JobRec
  <2>6. Local(r)
    <3>1. DOMAIN job' = Reqs /\ \A q \in Reqs : q # r => job'[q] = job[q]
      BY <2>4 DEF PlanInv, Shape
    <3>2. job' \in [Reqs -> JobRec]  BY <2>4, <2>5, <3>1 DEF PlanInv, Shape
    <3> QED BY <2>2, <3>1, <3>2 DEF Goto, Local, PlanInv, Shape
  <2>7. Writing(r)'  BY <2>5 DEF Writing
  <2>8. Reporting(r)'
    <3>1. \A u \in job[r].todo : u[2] \in seen[u[1]] /\ HasRows(u[2])
      BY DEF PlanInv, Reporting
    <3>2. job[r].todo \in SUBSET (Periods \X Fig)  BY <2>3 DEF JobRec
    <3>3. \A u \in Due(job[r].todo) : u[1] = t[1]  BY <3>2, DueIsOne
    <3>4. f => \A u \in Due(job[r].todo) : snap[u[1]] # NoRow  BY <3>3 DEF f
    <3> QED BY <2>2, <2>5, <3>1, <3>4 DEF Reporting, Reading, Tables, History
  <2> QED BY <2>6, <2>7, <2>8, LocalStep
<1> QED BY <1>1, <1>2

\* What an UPDATE leaves is the new row, or keeps a figure that is 0 there.
LEMMA AssignTrue ==
  ASSUME NEW seenp \in SUBSET Fig, NEW f \in seenp, HasRows(f), NEW old \in Fig,
         old \in seenp \/ \E g, h \in seenp :
           HasRows(h) /\ ((g.inc > 0 /\ h.inc = 0) \/ (g.exp > 0 /\ h.exp = 0))
  PROVE  /\ Assign(old, f) \in Fig
         /\ Assign(old, f) \in seenp \/ \E g, h \in seenp :
              HasRows(h) /\ ((g.inc > 0 /\ h.inc = 0) \/ (g.exp > 0 /\ h.exp = 0))
<1>1. f.inc \in Nat /\ f.exp \in Nat /\ old.inc \in Nat /\ old.exp \in Nat /\ f \in Fig
  BY DEF Fig
<1>2. \A x \in Fig : x = [inc |-> x.inc, exp |-> x.exp]  BY DEF Fig
<1>3. Assign(old, f) \in Fig  BY <1>1 DEF Assign, Fig
<1>4. CASE f.inc # 0 /\ f.exp # 0
  BY <1>1, <1>2, <1>3, <1>4 DEF Assign
<1>5. CASE f.inc = 0 /\ old.inc = 0
  <2>1. f.exp # 0  BY <1>1, <1>5 DEF HasRows
  <2> QED BY <1>1, <1>2, <1>3, <1>5, <2>1 DEF Assign
<1>6. CASE f.exp = 0 /\ old.exp = 0
  <2>1. f.inc # 0  BY <1>1, <1>6 DEF HasRows
  <2> QED BY <1>1, <1>2, <1>3, <1>6, <2>1 DEF Assign
<1>7. CASE f.inc = 0 /\ old.inc # 0
  BY <1>1, <1>3, <1>7
<1>8. CASE f.exp = 0 /\ old.exp # 0
  BY <1>1, <1>3, <1>8
<1> QED BY <1>4, <1>5, <1>6, <1>7, <1>8

\* Upsert stores what has been readable, but for the fields that Assign leaves out.
LEMMA UpsertKeeps ==
  ASSUME PlanInv, NEW r \in Reqs, Upsert(r)
  PROVE  PlanInv'
<1>1. PICK t \in Due(job[r].todo) :
        IF ~job[r].found /\ snap[t[1]] # NoRow
        THEN End(r, "failed") /\ UNCHANGED snap
        ELSE /\ snap' = [snap EXCEPT ![t[1]] = IF job[r].found THEN Assign(@, t[2]) ELSE t[2]]
             /\ job' = [job EXCEPT ![r].todo = @ \ {t}]
             /\ Goto(r, "find")
  BY DEF Upsert
<1>2. UNCHANGED <<budgets, used, kind, figures, History>> /\ pc[r] = "upsert"  BY DEF Upsert
<1>3. CASE ~job[r].found /\ snap[t[1]] # NoRow
  BY <1>1, <1>2, <1>3, EndAlone DEF Results, Tables
<1>4. CASE ~(~job[r].found /\ snap[t[1]] # NoRow)
  <2> DEFINE p == t[1]
             f == t[2]
             todo == job[r].todo
             T == todo \ {t}
             new == IF job[r].found THEN Assign(snap[p], f) ELSE f
  <2>1. job[r] \in JobRec /\ todo \in SUBSET (Periods \X Fig)
    BY DEF PlanInv, Shape, JobRec
  <2>2. t \in todo /\ p \in Periods /\ f \in Fig  BY <2>1 DEF Due
  <2>3. f \in seen[p] /\ HasRows(f) /\ \A u \in todo : u[2] \in seen[u[1]] /\ HasRows(u[2])
    BY <2>2 DEF PlanInv, Reporting
  <2>4. job[r].found => snap[p] # NoRow  BY <1>2 DEF PlanInv, Reporting
  <2>5. /\ snap' = [snap EXCEPT ![p] = new] /\ job' = [job EXCEPT ![r].todo = T]
        /\ Goto(r, "find")
    BY <1>1, <1>4, <2>2 DEF PlanInv, Shape
  <2>6. seen[p] \in SUBSET Fig /\ snap \in [Periods -> Fig \cup {NoRow}]
    BY <2>2 DEF PlanInv, Shape
  <2>7. snap[p] = NoRow \/ snap[p] \in seen[p] \/ LacksOne(p)
    BY <2>2 DEF PlanInv, SnapshotOnceTrue
  <2>8. new \in Fig /\ (new \in seen[p] \/ LacksOne(p))
    <3>1. CASE ~job[r].found  BY <2>2, <2>3, <3>1
    <3>2. CASE job[r].found
      <4>1. snap[p] \in Fig  BY <2>2, <2>4, <2>6, <3>2
      <4>2. snap[p] \in seen[p] \/ LacksOne(p)  BY <2>4, <2>7, <3>2
      <4> QED BY <2>3, <2>6, <3>2, <4>1, <4>2, AssignTrue DEF LacksOne
    <3> QED BY <3>1, <3>2
  <2>9. new # NoRow  BY <2>8, PlanningAssumption DEF Fig
  <2> HIDE DEF new
  <2>10. snap'[p] = new /\ \A x \in Periods : x # p => snap'[x] = snap[x]
    BY <2>2, <2>5, <2>6
  <2>11. /\ pc'[r] = "find" /\ job'[r].todo = T /\ job'[r] \in JobRec
    BY <2>1, <2>5 DEF Goto, PlanInv, Shape, JobRec
  <2>12. /\ DOMAIN pc' = Reqs /\ job' \in [Reqs -> JobRec]
         /\ \A q \in Reqs \ {r} : pc'[q] = pc[q] /\ job'[q] = job[q]
    <3>1. DOMAIN job' = Reqs /\ \A q \in Reqs : q # r => job'[q] = job[q]
      BY <2>5 DEF PlanInv, Shape
    <3> QED BY <2>5, <2>11, <3>1 DEF Goto, PlanInv, Shape
  <2>13. Shape'
    <3>1. snap' \in [Periods -> Fig \cup {NoRow}]  BY <2>5, <2>6, <2>8
    <3> QED BY <1>2, <2>12, <3>1 DEF PlanInv, Shape, History
  <2>14. Recorded'  BY <1>2 DEF PlanInv, Recorded, History
  <2>15. Writing(r)' /\ Reporting(r)'
    BY <1>2, <2>3, <2>11 DEF Writing, Reporting, Reading, Noted, History
  <2>16. ASSUME NEW q \in Reqs, q # r PROVE Writing(q)' /\ Reporting(q)'
    <3>1. pc'[q] = pc[q] /\ job'[q] = job[q]  BY <2>12, <2>16
    <3>2. Writing(q) /\ Reporting(q) /\ job[q] \in JobRec  BY DEF PlanInv, Shape
    <3>3. Writing(q)'  BY <1>2, <3>1, <3>2 DEF Writing, History
    <3>4. \A u \in Due(job[q].todo) : u[1] \in Periods
      BY <3>2 DEF Due, JobRec
    <3>5. \A x \in Periods : snap[x] # NoRow => snap'[x] # NoRow  BY <2>9, <2>10
    <3>6. Reporting(q)'  BY <1>2, <3>1, <3>2, <3>4, <3>5 DEF Reporting, Reading, Noted, History
    <3> QED BY <3>3, <3>6
  <2>17. BudgetsStandAsChecked'
    BY <1>2 DEF PlanInv, BudgetsStandAsChecked, History
  <2>18. SnapshotOnceTrue'
    <3>1. seen' = seen /\ \A x : LacksOne(x)' <=> LacksOne(x)
      BY <1>2 DEF History, LacksOne
    <3> QED BY <2>8, <2>10, <3>1 DEF PlanInv, SnapshotOnceTrue
  <2> QED BY <2>12, <2>13, <2>14, <2>15, <2>16, <2>17, <2>18 DEF PlanInv
<1> QED BY <1>3, <1>4

\* The type of a category changes: those who have checked it are doubtful.
LEMMA CategoryKeeps ==
  ASSUME PlanInv, NEW c \in Cats, NEW to \in {"expense", "income", "deleted"},
         ChangeCategory(c, to)
  PROVE  PlanInv'
<1>1. /\ kind' = [kind EXCEPT ![c] = to] /\ changes' = changes + 1 /\ changes < MaxChanges
      /\ doubtful' = doubtful \cup {b \in Budgets : budgets[b] # NoRow /\ budgets[b].cat = c}
      /\ UNCHANGED <<budgets, used, figures, snap, pc, seen, deleted, overtaken>>
  BY DEF ChangeCategory
<1>2. ASSUME NEW r \in Reqs
      PROVE  /\ job'[r] \in JobRec /\ job'[r].key = job[r].key /\ job'[r].id = job[r].id
             /\ job'[r].range = job[r].range /\ job'[r].todo = job[r].todo
             /\ job'[r].found = job[r].found
             /\ job[r].doubtful => job'[r].doubtful
             /\ pc[r] \in {"insert", "save"} /\ job[r].key.cat = c => job'[r].doubtful
  <2>1. job[r] \in JobRec  BY DEF PlanInv, Shape
  <2>2. CASE pc[r] \in {"insert", "save"} /\ job[r].key.cat = c
    <3>1. job'[r] = [job[r] EXCEPT !.doubtful = TRUE]  BY <2>2 DEF ChangeCategory
    <3> QED BY <2>1, <3>1 DEF JobRec
  <2>3. CASE ~(pc[r] \in {"insert", "save"} /\ job[r].key.cat = c)
    <3>1. job'[r] = job[r]  BY <2>3 DEF ChangeCategory
    <3> QED BY <2>1, <2>3, <3>1
  <2> QED BY <2>2, <2>3
<1>3. \A d \in Cats : kind'[d] = IF d = c THEN to ELSE kind[d]
  BY <1>1 DEF PlanInv, Shape
<1>4. Shape'
  <2>1. job' \in [Reqs -> JobRec]
    <3>1. \E f : job' = [r \in Reqs |-> f[r]]
      <4> DEFINE f == [r \in Reqs |-> IF pc[r] \in {"insert", "save"} /\ job[r].key.cat = c
                                      THEN [job[r] EXCEPT !.doubtful = TRUE] ELSE job[r]]
      <4>1. job' = f  BY DEF ChangeCategory
      <4> QED BY <4>1
    <3> QED BY <1>2, <3>1
  <2>2. changes' \in 0..MaxChanges  BY <1>1, PlanningAssumption DEF PlanInv, Shape
  <2>3. kind' \in [Cats -> {"expense", "income", "deleted"}]  BY <1>1 DEF PlanInv, Shape
  <2> QED BY <1>1, <2>1, <2>2, <2>3 DEF PlanInv, Shape
<1>5. Recorded'  BY <1>1 DEF PlanInv, Recorded
<1>6. ASSUME NEW r \in Reqs PROVE Writing(r)' /\ Reporting(r)'
  <2>1. Writing(r) /\ Reporting(r)  BY DEF PlanInv
  <2>2. pc[r] \in {"insert", "save"} => job[r].key.cat \in Cats \cup {WholeMonth}
    BY <2>1 DEF Writing, Keys
  <2>3. Writing(r)'  BY <1>1, <1>2, <1>3, <2>1, <2>2 DEF Writing
  <2>4. Reporting(r)'  BY <1>1, <1>2, <2>1 DEF Reporting, Reading, Noted
  <2> QED BY <2>3, <2>4
<1>7. BudgetsStandAsChecked'
  <2> SUFFICES ASSUME NEW b \in Budgets, budgets[b] # NoRow
               PROVE  /\ \/ budgets[b].cat = WholeMonth \/ kind'[budgets[b].cat] = "expense"
                         \/ b \in doubtful'
                      /\ b \in deleted => b \in overtaken
    BY <1>1 DEF BudgetsStandAsChecked
  <2>1. budgets[b].cat \in Cats \cup {WholeMonth}  BY DEF PlanInv, Shape, Keys
  <2>2. /\ \/ budgets[b].cat = WholeMonth \/ kind[budgets[b].cat] = "expense"
           \/ b \in doubtful
        /\ b \in deleted => b \in overtaken
    BY DEF PlanInv, BudgetsStandAsChecked
  <2> QED BY <1>1, <1>3, <2>1, <2>2
<1>8. SnapshotOnceTrue'  BY <1>1 DEF PlanInv, SnapshotOnceTrue, LacksOne
<1> QED BY <1>4, <1>5, <1>6, <1>7, <1>8 DEF PlanInv

\* The figures of a slot change: what was seen stays seen, and what reports under way
\* can read now is noted.
LEMMA FiguresKeep ==
  ASSUME PlanInv, NEW s \in Slots, NEW f \in Figures, ChangeFigures(s, f)
  PROVE  PlanInv'
<1>1. /\ figures' = [figures EXCEPT ![s] = f] /\ changes' = changes + 1 /\ changes < MaxChanges
      /\ seen' = [p \in Periods |-> seen[p] \cup
           {Shown(p, job[r].range, figures') : r \in {q \in Reqs : Reading(q, p)}}]
      /\ UNCHANGED <<budgets, used, kind, snap, pc, job, deleted, overtaken, doubtful>>
  BY DEF ChangeFigures
<1>2. figures' \in [Slots -> Figures]  BY <1>1 DEF PlanInv, Shape
<1>3. \A p \in Periods, r \in Reqs : Shown(p, job[r].range, figures') \in Fig
  <2> SUFFICES ASSUME NEW p \in Periods, NEW r \in Reqs
               PROVE  Shown(p, job[r].range, figures') \in Fig
    OBVIOUS
  <2>1. PICK fs : fs = figures'  OBVIOUS
  <2>2. job[r].range \in SUBSET Slots /\ fs \in [Slots -> Figures]
    BY <1>2, <2>1 DEF PlanInv, Shape, JobRec
  <2>3. Shown(p, job[r].range, fs) \in Fig  BY <2>2, ShownType
  <2> QED BY <2>1, <2>3
<1>4. \A p \in Periods :
        /\ seen[p] \subseteq seen'[p]
        /\ \A r \in Reqs : Reading(r, p) => Shown(p, job[r].range, figures') \in seen'[p]
  BY <1>1
<1>5. Shape'
  <2>1. changes' \in 0..MaxChanges  BY <1>1, PlanningAssumption DEF PlanInv, Shape
  <2>2. \A p \in Periods : seen'[p] \in SUBSET Fig
    <3> SUFFICES ASSUME NEW p \in Periods PROVE seen'[p] \in SUBSET Fig
      OBVIOUS
    <3>1. seen'[p] = seen[p] \cup
            {Shown(p, job[r].range, figures') : r \in {q \in Reqs : Reading(q, p)}}
      BY <1>1
    <3>2. seen[p] \in SUBSET Fig  BY DEF PlanInv, Shape
    <3> QED BY <1>3, <3>1, <3>2
  <2>3. seen' \in [Periods -> SUBSET Fig]  BY <1>1, <2>2
  <2> QED BY <1>1, <1>2, <2>1, <2>3 DEF PlanInv, Shape
<1>6. Recorded'  BY <1>1 DEF PlanInv, Recorded
<1>7. ASSUME NEW r \in Reqs PROVE Writing(r)' /\ Reporting(r)'
  <2>1. Writing(r) /\ Reporting(r)  BY DEF PlanInv
  <2>2. Writing(r)'  BY <1>1, <2>1 DEF Writing
  <2>3. \A t \in job[r].todo : t[1] \in Periods  BY DEF PlanInv, Shape, JobRec
  <2>4. Reporting(r)'
    <3>1. \A p \in Periods : Reading(r, p)' <=> Reading(r, p)  BY <1>1 DEF Reading
    <3>2. \A p \in Periods : Reading(r, p)' => Noted(r, p)'  BY <1>1, <1>4, <3>1 DEF Noted
    <3> QED BY <1>1, <1>4, <2>1, <2>3, <3>2 DEF Reporting
  <2> QED BY <2>2, <2>4
<1>8. BudgetsStandAsChecked'  BY <1>1 DEF PlanInv, BudgetsStandAsChecked
<1>9. SnapshotOnceTrue'
  <2> SUFFICES ASSUME NEW p \in Periods, snap[p] # NoRow
               PROVE  snap[p] \in seen'[p] \/ LacksOne(p)'
    BY <1>1 DEF SnapshotOnceTrue
  <2>1. snap[p] \in seen[p] \/ LacksOne(p)  BY DEF PlanInv, SnapshotOnceTrue
  <2>2. LacksOne(p) => LacksOne(p)'  BY <1>4 DEF LacksOne
  <2> QED BY <1>4, <2>1, <2>2
<1> QED BY <1>5, <1>6, <1>7, <1>8, <1>9 DEF PlanInv

\* One statement of a handler.
LEMMA StepKeeps ==
  ASSUME PlanInv, NEW r \in Reqs, Step(r)
  PROVE  PlanInv'
BY BuildKeeps, LoadKeeps, InsertKeeps, SaveKeeps, DeleteKeeps, CheckKeeps, DaysKeeps,
   MonthKeeps, FindKeeps, UpsertKeeps DEF Step

\* A step that touches no variable of Planning.
LEMMA PlanSame ==
  ASSUME PlanInv, UNCHANGED planVars
  PROVE  PlanInv'
<1> USE DEF planVars
<1>1. Shape' /\ Recorded'  BY DEF PlanInv, Shape, Recorded
<1>2. ASSUME NEW r \in Reqs PROVE Writing(r)' /\ Reporting(r)'
  BY DEF PlanInv, Writing, Reporting, Reading, Noted
<1>3. BudgetsStandAsChecked' /\ SnapshotOnceTrue'
  BY DEF PlanInv, BudgetsStandAsChecked, SnapshotOnceTrue, LacksOne
<1> QED BY <1>1, <1>2, <1>3 DEF PlanInv

\* Every step of the server is one of these for the tables.
LEMMA PlanKeeps ==
  ASSUME PlanInv, [Next]_vars
  PROVE  PlanInv'
<1>1. CASE UNCHANGED vars
  BY <1>1, PlanSame DEF vars
<1>2. CASE Boot \/ Listen
  BY <1>2, PlanSame DEF Boot, Listen
<1>3. ASSUME NEW r \in Reqs, NEW q \in Visits \cup Operations, Arrive(r, q),
             q \in Visits => q.op = NoOp
      PROVE  PlanInv'
  <2>1. CASE Down(q, cfg).sent = NoReply /\ q.op # NoOp
    <3>1. q \in Operations /\ Begin(r, q.op)  BY <1>3, <2>1 DEF Arrive
    <3> QED BY <3>1, BeginKeeps
  <2>2. CASE ~(Down(q, cfg).sent = NoReply /\ q.op # NoOp)
    <3>1. UNCHANGED planVars  BY <1>3, <2>2 DEF Arrive
    <3> QED BY <3>1, PlanSame
  <2> QED BY <2>1, <2>2
<1>4. ASSUME NEW r \in Reqs, Expire(r) \/ Answer(r) PROVE PlanInv'
  BY <1>4, PlanSame DEF Expire, Answer
<1>5. ASSUME NEW r \in Reqs, Handle(r) PROVE PlanInv'
  BY <1>5, StepKeeps DEF Handle
<1>6. ASSUME NEW r \in Reqs, Fail(r) PROVE PlanInv'
  BY <1>6, InterruptKeeps, LoseKeeps DEF Fail, Results
<1>7. ASSUME NEW r \in Reqs, Close(r) PROVE PlanInv'
  BY <1>7, ResetKeeps DEF Close
<1>8. CASE LedgerMoves
  BY <1>8, CategoryKeeps, FiguresKeep DEF LedgerMoves, CategoriesChange, FiguresChange
<1> QED BY <1>1, <1>2, <1>3, <1>4, <1>5, <1>6, <1>7, <1>8, GatewayAssumption DEF Next

\* The invariant of budgets and summaries.
THEOREM PlanInvariant == Spec => []PlanInv
<1>1. Init => PlanInv  BY PlanInitInv DEF Init
<1>2. PlanInv /\ [Next]_vars => PlanInv'  BY PlanKeeps
<1> QED BY <1>1, <1>2, PTL DEF Spec

\* A stored budget is what its last writer checked, and a deleted one is back only
\* where an update held it.
THEOREM BudgetsStandAsCheckedHolds == Spec => []BudgetsStandAsChecked
<1>1. PlanInv => BudgetsStandAsChecked  BY DEF PlanInv
<1> QED BY <1>1, PlanInvariant, PTL

\* A stored summary shows figures that its period had at one moment.
THEOREM SnapshotOnceTrueHolds == Spec => []SnapshotOnceTrue
<1>1. PlanInv => SnapshotOnceTrue  BY DEF PlanInv
<1> QED BY <1>1, PlanInvariant, PTL

-----------------------------------------------------------------------------
(* The start.                                                              *)

\* Until the server listens, the configuration is the one that was accepted.
BootInv ==
  /\ server \in {"booted", "panicked"} => Accepted(Environment) /\ cfg = Load(Environment)
  /\ server = "panicked" => SetModePanics(Load(Environment))

\* Both tables have the same rule for every variable.
LEMMA RulesAgree == \A v \in Parsed : v \in DOMAIN CheckRules /\ CheckRules[v] = LoadRules[v]
BY DEF Parsed, LoadRules, CheckRules

\* A parsed variable has no default text.
LEMMA ParsedIsNoText == \A v \in Parsed : v \in Vars /\ v \notin DOMAIN TextDefault
BY DEF Parsed, LoadRules, Vars, TextDefault

\* Of an accepted environment, what is written of a parsed variable is one of the texts
\* its parser knows.
LEMMA AcceptedAsWritten ==
  ASSUME NEW e, Accepted(e), NEW v \in Parsed, ~Blank(e[v])
  PROVE  /\ e[v] \in DOMAIN Texts[LoadRules[v].text]
         /\ Load(e)[v] = Texts[LoadRules[v].text][e[v]]
<1>1. Fits(CheckRules[v], e[v])
  BY RulesAgree DEF Accepted, LoadStrict, ValidEnvValues
<1>2. Fits(LoadRules[v], e[v])  BY <1>1, RulesAgree
<1>3. v \in Vars /\ v \notin DOMAIN TextDefault  BY ParsedIsNoText
<1>4. Load(e)[v] = Texts[LoadRules[v].text][e[v]]  BY <1>2, <1>3 DEF Load
<1> QED BY <1>2, <1>4 DEF Fits

\* gin panics only for a mode that was written, and that is none of the three it knows.
LEMMA PanicsAsWritten ==
  ASSUME NEW e, SetModePanics(Load(e))
  PROVE  e["GIN_MODE"] \notin {"absent", "blank", "debug", "release", "test"}
<1>1. "GIN_MODE" \in DOMAIN TextDefault /\ TextDefault["GIN_MODE"] = "release"
  BY DEF TextDefault
<1>2. Load(e)["GIN_MODE"] = LoadText("GIN_MODE", e["GIN_MODE"])
  BY <1>1 DEF Load, Vars
<1>3. LoadText("GIN_MODE", e["GIN_MODE"]) \notin {"debug", "release", "test"}
  BY <1>2 DEF SetModePanics
<1> QED BY <1>1, <1>3 DEF LoadText, Blank

\* The environment and what was made of it stay; only starting decides.
LEMMA BootKeeps ==
  ASSUME BootInv, [Next]_vars
  PROVE  BootInv'
<1>1. CASE UNCHANGED bootVars
  BY <1>1 DEF BootInv, bootVars, Environment
<1>2. CASE Boot
  BY <1>2 DEF BootInv, Boot, Environment
<1>3. CASE Listen
  BY <1>3 DEF BootInv, Listen
<1>4. ASSUME NEW r \in Reqs, \/ \E q : Arrive(r, q)
                             \/ Expire(r) \/ Handle(r) \/ Fail(r) \/ Answer(r) \/ Close(r)
      PROVE  UNCHANGED bootVars
  BY <1>4 DEF Arrive, Expire, Handle, Fail, Answer, Close
<1>5. LedgerMoves => UNCHANGED bootVars  BY DEF LedgerMoves
<1>6. UNCHANGED vars => UNCHANGED bootVars  BY DEF vars
<1> QED BY <1>1, <1>2, <1>3, <1>4, <1>5, <1>6 DEF Next

\* What somebody set is used as written, or the server does not start.
THEOREM StartsAsWrittenHolds == Spec => []StartsAsWritten
<1>1. Init => BootInv  BY DEF Init, BootInv
<1>2. BootInv /\ [Next]_vars => BootInv'  BY BootKeeps
<1>3. BootInv => StartsAsWritten
  BY AcceptedAsWritten, PanicsAsWritten DEF BootInv, StartsAsWritten
<1> QED BY <1>1, <1>2, <1>3, PTL DEF Spec

-----------------------------------------------------------------------------
(* The way down.                                                           *)

\* The answers the middlewares may give of their own, and who gives none.
LEMMA Verdicts ==
  ASSUME NEW m, NEW q
  PROVE  /\ Verdict(m, q) \in {0, 204, 401, 403, 404, 405, 406, 413, 415}
         /\ Verdict(m, q) = 406 => Accept(q) = 406
         /\ m \in {"RequestID", "HTTPMetrics", "RequestTimeout", "Logger", "Recovery",
                   "SecurityHeaders", "NoStoreAPI", "NoStore", "NoCache"} => Verdict(m, q) = 0
BY DEF Verdict, Origin, BodyLimit, ContentType, Accept, Bearer

\* The headers a middleware sets.
LEMMA HeadersType ==
  ASSUME NEW m, NEW q
  PROVE  Headers(m, q) \in SUBSET HeaderNames
BY DEF Headers, HeaderNames

Middlewares == {"RequestID", "HTTPMetrics", "RequestTimeout", "Logger", "Recovery",
                "SecurityHeaders", "NoStoreAPI", "CORS", "BodyLimit", "ContentType", "Accept",
                "NoCache", "MetricsToken", "NoRoute", "NoMethod", "NoStore", "RequireAuth"}

\* One chain after another.
LEMMA Concat ==
  ASSUME NEW s \in Seq(Middlewares), NEW t \in Seq(Middlewares)
  PROVE  /\ s \o t \in Seq(Middlewares) /\ Len(s \o t) = Len(s) + Len(t)
         /\ \A i \in 1..Len(s) : (s \o t)[i] = s[i]
         /\ \A i \in 1..Len(t) : (s \o t)[Len(s) + i] = t[i]
OBVIOUS

\* The middlewares that every chain but that of the metrics ends its global part with.
Rest == <<"RequestTimeout", "Logger", "Recovery", "SecurityHeaders", "NoStoreAPI", "CORS",
          "BodyLimit", "ContentType", "Accept">>

\* chain has the global middlewares where they belong; the metrics come second.
GlobalFirst(chain, metrics) ==
  LET o == IF metrics THEN 1 ELSE 0
  IN  /\ chain[1] = "RequestID" /\ (metrics => chain[2] = "HTTPMetrics")
      /\ chain[2 + o] = "RequestTimeout" /\ chain[3 + o] = "Logger"
      /\ chain[4 + o] = "Recovery" /\ chain[5 + o] = "SecurityHeaders"
      /\ chain[6 + o] = "NoStoreAPI" /\ chain[7 + o] = "CORS"
      /\ chain[8 + o] = "BodyLimit" /\ chain[9 + o] = "ContentType"
      /\ chain[10 + o] = "Accept"

\* The chain of every request: which middleware is at which place.
LEMMA GlobalChainIs ==
  ASSUME NEW c
  PROVE  /\ GlobalChain(c) \in Seq(Middlewares)
         /\ Len(GlobalChain(c)) = 10 + (IF c.metrics THEN 1 ELSE 0)
         /\ GlobalFirst(GlobalChain(c), c.metrics)
<1>1. /\ Rest \in Seq(Middlewares) /\ Len(Rest) = 9
      /\ Rest[1] = "RequestTimeout" /\ Rest[2] = "Logger" /\ Rest[3] = "Recovery"
      /\ Rest[4] = "SecurityHeaders" /\ Rest[5] = "NoStoreAPI" /\ Rest[6] = "CORS"
      /\ Rest[7] = "BodyLimit" /\ Rest[8] = "ContentType" /\ Rest[9] = "Accept"
  BY DEF Middlewares, Rest
<1>2. CASE c.metrics
  <2>1. PICK s : s = <<"RequestID", "HTTPMetrics">>  OBVIOUS
  <2>2. s \in Seq(Middlewares) /\ Len(s) = 2 /\ s[1] = "RequestID" /\ s[2] = "HTTPMetrics"
    BY <2>1 DEF Middlewares
  <2>3. GlobalChain(c) = s \o Rest  BY <1>2, <2>1 DEF GlobalChain, Rest
  <2>4. PICK g : g = s \o Rest  OBVIOUS
  <2>5. /\ g \in Seq(Middlewares) /\ Len(g) = 11
        /\ \A i \in 1..2 : g[i] = s[i]
        /\ \A i \in 1..9 : g[2 + i] = Rest[i]
    <3>1. /\ g \in Seq(Middlewares) /\ Len(g) = Len(s) + Len(Rest)
          /\ \A i \in 1..Len(s) : g[i] = s[i]
          /\ \A i \in 1..Len(Rest) : g[Len(s) + i] = Rest[i]
      BY <1>1, <2>2, <2>4, Concat, Zenon
    <3> QED BY <1>1, <2>2, <3>1
  <2>6. /\ g[1] = s[1] /\ g[2] = s[2] /\ g[2 + 1] = Rest[1] /\ g[2 + 2] = Rest[2]
        /\ g[2 + 3] = Rest[3] /\ g[2 + 4] = Rest[4] /\ g[2 + 5] = Rest[5]
        /\ g[2 + 6] = Rest[6] /\ g[2 + 7] = Rest[7] /\ g[2 + 8] = Rest[8]
        /\ g[2 + 9] = Rest[9]
    BY <2>5
  <2>7. GlobalFirst(g, c.metrics)  BY <1>1, <1>2, <2>2, <2>6 DEF GlobalFirst
  <2>8. GlobalChain(c) = g  BY <2>3, <2>4
  <2>9. Len(g) = 10 + (IF c.metrics THEN 1 ELSE 0)  BY <1>2, <2>5
  <2>10. g \in Seq(Middlewares)  BY <2>5
  <2> QED BY <2>7, <2>8, <2>9, <2>10, Zenon
<1>3. CASE ~c.metrics
  <2>1. PICK s : s = <<"RequestID">>  OBVIOUS
  <2>2. s \in Seq(Middlewares) /\ Len(s) = 1 /\ s[1] = "RequestID"
    BY <2>1 DEF Middlewares
  <2>3. GlobalChain(c) = s \o Rest  BY <1>3, <2>1 DEF GlobalChain, Rest
  <2>4. PICK g : g = s \o Rest  OBVIOUS
  <2>5. /\ g \in Seq(Middlewares) /\ Len(g) = 10
        /\ \A i \in 1..1 : g[i] = s[i]
        /\ \A i \in 1..9 : g[1 + i] = Rest[i]
    <3>1. /\ g \in Seq(Middlewares) /\ Len(g) = Len(s) + Len(Rest)
          /\ \A i \in 1..Len(s) : g[i] = s[i]
          /\ \A i \in 1..Len(Rest) : g[Len(s) + i] = Rest[i]
      BY <1>1, <2>2, <2>4, Concat, Zenon
    <3> QED BY <1>1, <2>2, <3>1
  <2>6. /\ g[1] = s[1] /\ g[1 + 1] = Rest[1] /\ g[1 + 2] = Rest[2]
        /\ g[1 + 3] = Rest[3] /\ g[1 + 4] = Rest[4] /\ g[1 + 5] = Rest[5]
        /\ g[1 + 6] = Rest[6] /\ g[1 + 7] = Rest[7] /\ g[1 + 8] = Rest[8]
        /\ g[1 + 9] = Rest[9]
    BY <2>5
  <2>7. GlobalFirst(g, c.metrics)  BY <1>1, <1>3, <2>2, <2>6 DEF GlobalFirst
  <2>8. GlobalChain(c) = g  BY <2>3, <2>4
  <2>9. Len(g) = 10 + (IF c.metrics THEN 1 ELSE 0)  BY <1>3, <2>5
  <2>10. g \in Seq(Middlewares)  BY <2>5
  <2> QED BY <2>7, <2>8, <2>9, <2>10, Zenon
<1> QED BY <1>2, <1>3

\* The chain of a route.
LEMMA RouteChainIs ==
  ASSUME NEW q
  PROVE  /\ RouteChain(q) \in Seq(Middlewares) /\ Len(RouteChain(q)) \in 1..2
         /\ q.route = "livez" => RouteChain(q) = <<"NoCache">>
<1>1. \A m \in Middlewares : <<m>> \in Seq(Middlewares) /\ Len(<<m>>) = 1
  OBVIOUS
<1>2. /\ {"NoRoute", "NoMethod", "NoCache", "NoStore"} \subseteq Middlewares
      /\ <<"NoStore", "RequireAuth">> \in Seq(Middlewares)
      /\ Len(<<"NoStore", "RequireAuth">>) = 2
  BY DEF Middlewares
<1>3. \/ \E m \in {"NoRoute", "NoMethod", "NoCache", "NoStore"} : RouteChain(q) = <<m>>
      \/ RouteChain(q) = <<"NoStore", "RequireAuth">>
  <2>1. CASE q.route \in {"noRoute", "noRouteAPI", "metrics"}
    BY <2>1 DEF RouteChain
  <2>2. CASE q.route = "noMethodAPI"  BY <2>2 DEF RouteChain
  <2>3. CASE q.route = "livez"  BY <2>3 DEF RouteChain
  <2>4. CASE q.route = "login"  BY <2>4 DEF RouteChain
  <2>5. CASE q.route \notin {"noRoute", "noRouteAPI", "metrics", "noMethodAPI", "livez", "login"}
    BY <2>5 DEF RouteChain
  <2> QED BY <2>1, <2>2, <2>3, <2>4, <2>5
<1>4. q.route = "livez" => RouteChain(q) = <<"NoCache">>  BY DEF RouteChain
<1>5. RouteChain(q) \in Seq(Middlewares) /\ Len(RouteChain(q)) \in 1..2
  <2>1. ASSUME NEW m \in {"NoRoute", "NoMethod", "NoCache", "NoStore"}, RouteChain(q) = <<m>>
        PROVE  RouteChain(q) \in Seq(Middlewares) /\ Len(RouteChain(q)) = 1
    BY <1>1, <1>2, <2>1
  <2>2. CASE RouteChain(q) = <<"NoStore", "RequireAuth">>  BY <1>2, <2>2
  <2> QED BY <1>3, <2>1, <2>2
<1> QED BY <1>4, <1>5

\* The chain of the metrics server.
LEMMA MetricsChainIs ==
  ASSUME NEW c
  PROVE  /\ MetricsChain(c) \in Seq(Middlewares) /\ Len(MetricsChain(c)) \in 4..5
         /\ MetricsChain(c)[1] = "RequestID" /\ MetricsChain(c)[2] = "Recovery"
         /\ MetricsChain(c)[3] = "SecurityHeaders" /\ MetricsChain(c)[4] = "NoCache"
<1>1. PICK s : s = <<"RequestID", "Recovery", "SecurityHeaders", "NoCache">>  OBVIOUS
<1>2. /\ s \in Seq(Middlewares) /\ Len(s) = 4
      /\ s[1] = "RequestID" /\ s[2] = "Recovery" /\ s[3] = "SecurityHeaders" /\ s[4] = "NoCache"
  BY <1>1 DEF Middlewares
<1>3. \E t \in Seq(Middlewares) : Len(t) \in 0..1 /\ MetricsChain(c) = s \o t
  <2>1. CASE c.token
    <3>1. PICK t : t = <<"MetricsToken">>  OBVIOUS
    <3>2. t \in Seq(Middlewares) /\ Len(t) \in 0..1  BY <3>1 DEF Middlewares
    <3>3. MetricsChain(c) = s \o t  BY <1>1, <2>1, <3>1 DEF MetricsChain
    <3> QED BY <3>2, <3>3, Zenon
  <2>2. CASE ~c.token
    <3>1. PICK t : t = << >>  OBVIOUS
    <3>2. t \in Seq(Middlewares) /\ Len(t) \in 0..1  BY <3>1
    <3>3. MetricsChain(c) = s \o t  BY <1>1, <2>2, <3>1 DEF MetricsChain
    <3> QED BY <3>2, <3>3, Zenon
  <2> QED BY <2>1, <2>2
<1>4. PICK t \in Seq(Middlewares) : Len(t) \in 0..1 /\ MetricsChain(c) = s \o t  BY <1>3
<1>5. /\ s \o t \in Seq(Middlewares) /\ Len(s \o t) = 4 + Len(t)
      /\ \A i \in 1..4 : (s \o t)[i] = s[i]
  <2>1. /\ s \o t \in Seq(Middlewares) /\ Len(s \o t) = Len(s) + Len(t)
        /\ \A i \in 1..Len(s) : (s \o t)[i] = s[i]
    BY <1>2, Concat, Zenon
  <2> QED BY <1>2, <2>1
<1> QED BY <1>2, <1>4, <1>5

\* The chain of any request but one for the metrics.
LEMMA PlainChain ==
  ASSUME NEW q, NEW c, NEW o \in 0..1, o = IF c.metrics THEN 1 ELSE 0,
         ~(q.route = "metrics" /\ c.metrics)
  PROVE  /\ Chain(q, c) \in Seq(Middlewares) /\ Len(Chain(q, c)) \in (11 + o)..(12 + o)
         /\ GlobalFirst(Chain(q, c), c.metrics)
         /\ q.route = "livez" => Len(Chain(q, c)) = 11 + o /\ Chain(q, c)[11 + o] = "NoCache"
<1>1. PICK g : g = GlobalChain(c)  OBVIOUS
<1>2. PICK t : t = RouteChain(q)  OBVIOUS
<1>3. PICK h : h = g \o t  OBVIOUS
<1>4. Chain(q, c) = h  BY <1>1, <1>2, <1>3 DEF Chain
<1>5. g \in Seq(Middlewares) /\ Len(g) = 10 + o /\ GlobalFirst(g, c.metrics)
  <2>1. GlobalChain(c) \in Seq(Middlewares) /\ GlobalFirst(GlobalChain(c), c.metrics)
    BY GlobalChainIs
  <2>2. Len(GlobalChain(c)) = 10 + (IF c.metrics THEN 1 ELSE 0)  BY GlobalChainIs
  <2> QED BY <1>1, <2>1, <2>2
<1>6. t \in Seq(Middlewares) /\ Len(t) \in 1..2  BY <1>2, RouteChainIs
<1>7. q.route = "livez" => Len(t) = 1 /\ t[1] = "NoCache"
  <2>1. q.route = "livez" => t = <<"NoCache">>  BY <1>2, RouteChainIs
  <2> QED BY <2>1
<1>8. /\ h \in Seq(Middlewares) /\ Len(h) = 10 + o + Len(t)
      /\ \A i \in 1..(10 + o) : h[i] = g[i]
      /\ h[10 + o + 1] = t[1]
  <2>1. /\ h \in Seq(Middlewares) /\ Len(h) = Len(g) + Len(t)
        /\ \A i \in 1..Len(g) : h[i] = g[i]
        /\ \A i \in 1..Len(t) : h[Len(g) + i] = t[i]
    BY <1>3, <1>5, <1>6, Concat, Zenon
  <2>2. 1 \in 1..Len(t)  BY <1>6
  <2>3. h[Len(g) + 1] = t[1]  BY <2>1, <2>2
  <2> QED BY <1>5, <1>6, <2>1, <2>3
<1>9. GlobalFirst(h, c.metrics)
  <2>1. CASE c.metrics
    <3>1. \A i \in 1..11 : h[i] = g[i]  BY <1>8, <2>1
    <3>2. /\ h[1] = g[1] /\ h[2] = g[2] /\ h[3] = g[3] /\ h[4] = g[4] /\ h[5] = g[5]
          /\ h[6] = g[6] /\ h[7] = g[7] /\ h[8] = g[8] /\ h[9] = g[9] /\ h[10] = g[10]
          /\ h[11] = g[11]
      BY <3>1
    <3> QED BY <1>5, <2>1, <3>2 DEF GlobalFirst
  <2>2. CASE ~c.metrics
    <3>1. \A i \in 1..10 : h[i] = g[i]  BY <1>8, <2>2
    <3>2. /\ h[1] = g[1] /\ h[2] = g[2] /\ h[3] = g[3] /\ h[4] = g[4] /\ h[5] = g[5]
          /\ h[6] = g[6] /\ h[7] = g[7] /\ h[8] = g[8] /\ h[9] = g[9] /\ h[10] = g[10]
      BY <3>1
    <3> QED BY <1>5, <2>2, <3>2 DEF GlobalFirst
  <2> QED BY <2>1, <2>2
<1>10. PICK n \in 1..2 : n = Len(t)  BY <1>6
<1>11. Len(h) = 10 + o + n  BY <1>8, <1>10
<1>12. Len(h) \in (11 + o)..(12 + o)
  <2>1. 10 + o + n \in (11 + o)..(12 + o)  OBVIOUS
  <2> QED BY <1>11, <2>1, Zenon
<1>13. q.route = "livez" => Len(h) = 11 + o /\ h[11 + o] = "NoCache"
  <2>1. 10 + o + 1 = 11 + o  OBVIOUS
  <2>2. q.route = "livez" => n = 1  BY <1>7, <1>10
  <2>3. h[11 + o] = t[1]  BY <1>8, <2>1, Zenon
  <2> QED BY <1>7, <1>11, <2>1, <2>2, <2>3, Zenon
<1> QED BY <1>4, <1>8, <1>9, <1>12, <1>13, Zenon

\* The first middleware that answers ends the way down.
LEMMA DownIs ==
  ASSUME NEW q, NEW c, Chain(q, c) \in Seq(Middlewares)
  PROVE  \E last \in 0..Len(Chain(q, c)) :
           /\ \A i \in 1..(last - 1) : Verdict(Chain(q, c)[i], q) = 0
           /\ Down(q, c).headers = UNION {Headers(Chain(q, c)[i], q) : i \in 1..last}
           /\ Down(q, c).entered = SubSeq(Chain(q, c), 1, last)
           /\ \/ /\ last = Len(Chain(q, c)) /\ Down(q, c).sent = NoReply
                 /\ \A i \in 1..last : Verdict(Chain(q, c)[i], q) = 0
              \/ /\ last # 0 /\ Verdict(Chain(q, c)[last], q) # 0
                 /\ Down(q, c).sent = Reply(Verdict(Chain(q, c)[last], q), Down(q, c).headers)
<1> DEFINE chain == Chain(q, c)
           answering == {i \in DOMAIN chain : Verdict(chain[i], q) # 0}
           last == IF answering = {} THEN Len(chain) ELSE Min(answering)
           headers == UNION {Headers(chain[i], q) : i \in 1..last}
<1>1. /\ Down(q, c).headers = headers /\ Down(q, c).entered = SubSeq(chain, 1, last)
      /\ Down(q, c).sent = IF answering = {} THEN NoReply
                           ELSE Reply(Verdict(chain[last], q), headers)
  BY DEF Down
<1>2. Len(chain) \in Nat /\ DOMAIN chain = 1..Len(chain)  OBVIOUS
<1>3. CASE answering = {}
  <2>1. last = Len(chain)  BY <1>3
  <2>2. Down(q, c).sent = NoReply  BY <1>1, <1>3
  <2>3. \A i \in 1..last : Verdict(chain[i], q) = 0  BY <1>2, <1>3, <2>1
  <2>4. \A i \in 1..(last - 1) : i \in 1..last  BY <1>2, <2>1
  <2>5. last \in 0..Len(chain)  BY <1>2, <2>1
  <2> HIDE DEF last, answering
  <2> QED BY <1>1, <2>1, <2>2, <2>3, <2>4, <2>5, Zenon
<1>4. CASE answering # {}
  <2>1. last \in answering /\ \A i \in answering : last <= i
    <3>1. answering \in SUBSET Nat  BY <1>2
    <3>2. \E n \in answering : \A m \in answering : n <= m
      <4> HIDE DEF answering
      <4> QED BY <1>4, <3>1, LeastNumber
    <3> HIDE DEF answering
    <3> QED BY <1>4, <3>2 DEF Min
  <2>2. last \in 1..Len(chain) /\ Verdict(chain[last], q) # 0
    BY <1>2, <2>1
  <2>3. \A i \in 1..(last - 1) : Verdict(chain[i], q) = 0
    <3> SUFFICES ASSUME NEW i \in 1..(last - 1), Verdict(chain[i], q) # 0 PROVE FALSE
      OBVIOUS
    <3>1. i \in 1..Len(chain) /\ ~(last <= i)  BY <1>2, <2>2
    <3>2. i \in answering  BY <1>2, <3>1
    <3> QED BY <2>1, <3>1, <3>2
  <2> HIDE DEF last
  <2> QED BY <1>1, <1>4, <2>2, <2>3
<1> QED BY <1>3, <1>4

\* Where the first ones let a request pass, it enters the next.
LEMMA Enters ==
  ASSUME NEW q, NEW c, Chain(q, c) \in Seq(Middlewares), NEW k \in 1..Len(Chain(q, c)),
         \A i \in 1..(k - 1) : Verdict(Chain(q, c)[i], q) = 0
  PROVE  /\ Down(q, c).entered \in Seq(Middlewares) /\ Len(Down(q, c).entered) >= k
         /\ \A i \in 1..k : /\ Down(q, c).entered[i] = Chain(q, c)[i]
                            /\ Headers(Chain(q, c)[i], q) \subseteq Down(q, c).headers
<1> DEFINE chain == Chain(q, c)
<1>1. PICK last \in 0..Len(chain) :
        /\ Down(q, c).headers = UNION {Headers(chain[i], q) : i \in 1..last}
        /\ Down(q, c).entered = SubSeq(chain, 1, last)
        /\ last = Len(chain) \/ (last # 0 /\ Verdict(chain[last], q) # 0)
  BY DownIs
<1> HIDE DEF chain
<1>2. chain \in Seq(Middlewares) /\ k \in 1..Len(chain) /\ Len(chain) \in Nat
  BY DEF chain
<1>3. last >= k  BY <1>1, <1>2 DEF chain
<1>4. /\ SubSeq(chain, 1, last) \in Seq(Middlewares) /\ Len(SubSeq(chain, 1, last)) = last
      /\ \A i \in 1..last : SubSeq(chain, 1, last)[i] = chain[i]
  BY <1>1, <1>2
<1>5. \A i \in 1..k : i \in 1..last  BY <1>1, <1>2, <1>3
<1>6. \A i \in 1..last : Headers(chain[i], q) \subseteq Down(q, c).headers  BY <1>1
<1> QED BY <1>1, <1>3, <1>4, <1>5, <1>6 DEF chain

\* A chain is a sequence of middlewares, whatever the request and the configuration.
LEMMA ChainType == \A q, c : Chain(q, c) \in Seq(Middlewares)
<1> SUFFICES ASSUME NEW q, NEW c PROVE Chain(q, c) \in Seq(Middlewares)  OBVIOUS
<1>1. CASE q.route = "metrics" /\ c.metrics  BY <1>1, MetricsChainIs DEF Chain
<1>2. CASE ~(q.route = "metrics" /\ c.metrics)
  <2>1. PICK o \in 0..1 : o = IF c.metrics THEN 1 ELSE 0  OBVIOUS
  <2> QED BY <1>2, <2>1, PlainChain
<1> QED BY <1>1, <1>2

-----------------------------------------------------------------------------
(* The way up.                                                             *)

\* What n steps do, one after the other, can be listed.
CanRun(n, S, s, step) ==
  \E f \in [0..n -> S] : f[0] = s /\ \A i \in 1..n : f[i] = step[i][f[i - 1]]

\* A run of n steps exists: if not, take the least n without one. This is what recursion
\* over a chain or a header stands on.
LEMMA StepsExist ==
  ASSUME NEW n \in Nat, NEW S, NEW s \in S, NEW step \in [1..n -> [S -> S]]
  PROVE  CanRun(n, S, s, step)
<1> DEFINE Lists(f, m) == f \in [0..m -> S] /\ f[0] = s
                          /\ \A i \in 1..m : f[i] = step[i][f[i - 1]]
           B == {m \in 0..n : ~ \E f : Lists(f, m)}
<1>1. B = {}
  <2> SUFFICES ASSUME B # {} PROVE FALSE
    OBVIOUS
  <2>1. PICK m \in B : \A k \in B : m <= k
    <3>1. B \in SUBSET Nat  OBVIOUS
    <3> HIDE DEF B
    <3> QED BY <3>1, LeastNumber
  <2>2. m # 0
    <3> DEFINE zero == [i \in 0..0 |-> s]
    <3>1. Lists(zero, 0)  OBVIOUS
    <3> QED BY <3>1
  <2>3. m \in 1..n  BY <2>2
  <2>4. m - 1 \in 0..n /\ m - 1 \notin B
    <3>1. m - 1 \in 0..n /\ ~(m <= m - 1)  BY <2>3
    <3> HIDE DEF B
    <3> QED BY <2>1, <3>1
  <2>5. PICK f : Lists(f, m - 1)  BY <2>4
  <2> DEFINE g == [i \in 0..m |-> IF i = m THEN step[m][f[m - 1]] ELSE f[i]]
  <2>6. f[m - 1] \in S /\ step[m][f[m - 1]] \in S  BY <2>3, <2>5
  <2>7. \A i \in 0..m : i # m => i \in 0..(m - 1) /\ g[i] = f[i]  BY <2>3
  <2>8. g \in [0..m -> S]  BY <2>3, <2>5, <2>6
  <2>9. g[0] = s  BY <2>3, <2>5
  <2>10. \A i \in 1..m : g[i] = step[i][g[i - 1]]
    <3> SUFFICES ASSUME NEW i \in 1..m PROVE g[i] = step[i][g[i - 1]]
      OBVIOUS
    <3>1. i - 1 \in 0..m /\ i - 1 # m  BY <2>3
    <3>2. g[i - 1] = f[i - 1]  BY <2>7, <3>1
    <3>3. CASE i = m  BY <2>3, <3>2, <3>3
    <3>4. CASE i # m
      <4>1. i \in 1..(m - 1) /\ g[i] = f[i]  BY <2>3, <2>7, <3>4
      <4> QED BY <2>5, <3>2, <4>1
    <3> QED BY <3>3, <3>4
  <2>11. Lists(g, m)  BY <2>8, <2>9, <2>10
  <2> HIDE DEF g, Lists
  <2> QED BY <2>11
<1>2. n \notin B  BY <1>1
<1>3. \E f : Lists(f, n)  BY <1>2
<1> QED BY <1>3 DEF CanRun

\* What is under way when a middleware returns: all answers have the same headers.
Sent(h) == {NoReply} \cup [status : 200..599, headers : {h}]
Under(h) == [panic : {"none", "bug", "brokenPipe"},
             sent : Sent(h),
             counted : 0..599]

\* Between two returns on the way up, the status is a status and the headers are those
\* set on the way down.
LEMMA StatusIs ==
  ASSUME NEW h \in SUBSET HeaderNames, NEW u \in Under(h)
  PROVE  /\ StatusSent(u) \in 200..599
         /\ u.sent # NoReply => u.sent.headers = h /\ u.sent.status \in 200..599
BY DEF StatusSent, Under, Sent

\* What a middleware does when the next returns to it, field by field.
LEMMA ReturnIs ==
  ASSUME NEW r, NEW m, NEW h \in SUBSET HeaderNames, trail[r].headers = h, NEW u \in Under(h)
  PROVE  /\ Return(r, u, m) \in Under(h)
         /\ u.panic = "none" \/ m = "Recovery" => Return(r, u, m).panic = "none"
         /\ m = "HTTPMetrics" /\ u.panic = "none" =>
              /\ Return(r, u, m).counted = StatusSent(u)
              /\ StatusSent(Return(r, u, m)) = StatusSent(u)
         /\ m = "RequestID" => Return(r, u, m) = u
<1>1. ContextStatus(r) \in 200..599  BY DEF ContextStatus
<1>2. StatusSent(u) \in 200..599  BY StatusIs
<1>3. CASE m = "Recovery" /\ u.panic # "none"
  <2>1. Return(r, u, m) = Recover(u, h)  BY <1>3 DEF Return
  <2>2. PICK x : x = IF u.panic = "brokenPipe" \/ u.sent # NoReply THEN u.sent
                    ELSE Reply(500, h)
    OBVIOUS
  <2>3. x \in Sent(h)  BY <2>2 DEF Under, Sent, Reply
  <2>4. Recover(u, h) = [u EXCEPT !.panic = "none", !.sent = x]
    BY <2>2, Zenon DEF Recover
  <2>5. PICK v : v = [u EXCEPT !.panic = "none"]  OBVIOUS
  <2>6. v \in Under(h) /\ v.panic = "none"  BY <2>5 DEF Under
  <2>7. Recover(u, h) = [v EXCEPT !.sent = x]  BY <2>4, <2>5
  <2>8. Recover(u, h) \in Under(h) /\ Recover(u, h).panic = "none"
    BY <2>3, <2>6, <2>7 DEF Under
  <2> QED BY <1>3, <2>1, <2>8
<1>4. CASE /\ m = "RequestTimeout" /\ u.panic = "none" /\ cfg.deadline
           /\ u.sent = NoReply /\ ctx[r] # "live"
  <2>1. Return(r, u, m) = [u EXCEPT !.sent = Reply(ContextStatus(r), h)]
    BY <1>4 DEF Return
  <2>2. Reply(ContextStatus(r), h) \in Sent(h)  BY <1>1 DEF Sent, Reply
  <2> QED BY <1>4, <2>1, <2>2 DEF Under
<1>5. CASE m = "HTTPMetrics" /\ u.panic = "none"
  <2>1. Return(r, u, m) = [u EXCEPT !.counted = StatusSent(u)]  BY <1>5 DEF Return
  <2>2. /\ Return(r, u, m) \in Under(h) /\ Return(r, u, m).panic = "none"
        /\ Return(r, u, m).counted = StatusSent(u) /\ Return(r, u, m).sent = u.sent
    BY <1>2, <1>5, <2>1 DEF Under
  <2> QED BY <1>5, <2>2 DEF StatusSent
<1>6. CASE /\ ~(m = "Recovery" /\ u.panic # "none")
           /\ ~(m = "HTTPMetrics" /\ u.panic = "none")
           /\ ~(/\ m = "RequestTimeout" /\ u.panic = "none" /\ cfg.deadline
                /\ u.sent = NoReply /\ ctx[r] # "live")
  <2>1. Return(r, u, m) = u  BY <1>6 DEF Return
  <2> QED BY <1>6, <2>1
<1> QED BY <1>3, <1>4, <1>5, <1>6

\* The states between the returns.
LEMMA UpIs ==
  ASSUME NEW r, NEW ending, NEW h \in SUBSET HeaderNames, trail[r].headers = h,
         trail[r].entered \in Seq(Middlewares),
         [panic |-> ending.panic, sent |-> Written(r, ending), counted |-> 0] \in Under(h)
  PROVE  \E up \in [0..Len(trail[r].entered) -> Under(h)] :
           /\ Up(r, ending) = up[Len(trail[r].entered)]
           /\ \A i \in 1..Len(trail[r].entered) :
                up[i] = Return(r, up[i - 1],
                               trail[r].entered[Len(trail[r].entered) - i + 1])
<1> DEFINE e == trail[r].entered
           n == Len(e)
           s == [panic |-> ending.panic, sent |-> Written(r, ending), counted |-> 0]
           Runs(f) == f = [k \in 0..n |-> IF k = 0 THEN s
                                          ELSE Return(r, f[k - 1], e[n - k + 1])]
<1>1. Up(r, ending) = (CHOOSE f : Runs(f))[n]  BY DEF Up
<1>2. n \in Nat  OBVIOUS
<1>3. s \in Under(h)  OBVIOUS
<1> HIDE DEF s, e, n
<1> DEFINE step == [i \in 1..n |-> [u \in Under(h) |-> Return(r, u, e[n - i + 1])]]
<1>4. step \in [1..n -> [Under(h) -> Under(h)]]
  <2>1. \A i \in 1..n, u \in Under(h) : Return(r, u, e[n - i + 1]) \in Under(h)
    BY ReturnIs
  <2> QED BY <2>1
<1>5. \A i \in 1..n, u \in Under(h) : step[i][u] = Return(r, u, e[n - i + 1])
  OBVIOUS
<1> HIDE DEF step
<1>6. PICK f \in [0..n -> Under(h)] : f[0] = s /\ \A i \in 1..n : f[i] = step[i][f[i - 1]]
  <2>1. CanRun(n, Under(h), s, step)  BY <1>2, <1>3, <1>4, StepsExist
  <2> QED BY <2>1 DEF CanRun
<1>7. \A i \in 1..n : f[i] = Return(r, f[i - 1], e[n - i + 1])
  <2> SUFFICES ASSUME NEW i \in 1..n PROVE f[i] = Return(r, f[i - 1], e[n - i + 1])
    OBVIOUS
  <2>1. i - 1 \in 0..n  BY <1>2
  <2>2. f[i - 1] \in Under(h)  BY <2>1
  <2>3. f[i] = step[i][f[i - 1]]  BY <1>6
  <2> QED BY <1>5, <2>2, <2>3, Zenon
<1>8. Runs(f)
  <2> DEFINE g == [k \in 0..n |-> IF k = 0 THEN s ELSE Return(r, f[k - 1], e[n - k + 1])]
  <2>1. \A k \in 0..n : f[k] = g[k]  BY <1>2, <1>6, <1>7
  <2>2. DOMAIN f = 0..n /\ DOMAIN g = 0..n  OBVIOUS
  <2>3. f = [k \in 0..n |-> f[k]] /\ g = [k \in 0..n |-> g[k]]  OBVIOUS
  <2> HIDE DEF g
  <2>4. f = g  BY <2>1, <2>3, Zenon
  <2> QED BY <2>4 DEF g
<1>9. PICK up : up = CHOOSE x : Runs(x)  OBVIOUS
<1>10. Runs(up)
  <2> HIDE DEF Runs
  <2> QED BY <1>8, <1>9
<1>11. up[0] = s /\ \A i \in 1..n : up[i] = Return(r, up[i - 1], e[n - i + 1])
  BY <1>2, <1>10
<1>12. up \in [0..n -> Under(h)]
  <2> DEFINE B == {i \in 0..n : up[i] \notin Under(h)}
  <2>1. B = {}
    <3> SUFFICES ASSUME B # {} PROVE FALSE
      OBVIOUS
    <3>1. PICK m \in B : \A k \in B : m <= k
      <4>1. B \in SUBSET Nat  OBVIOUS
      <4> HIDE DEF B
      <4> QED BY <4>1, LeastNumber
    <3>2. m \in 1..n /\ m - 1 \in 0..n  BY <1>2, <1>3, <1>11
    <3>3. m - 1 \notin B
      <4>1. ~(m <= m - 1)  BY <3>2
      <4> HIDE DEF B
      <4> QED BY <3>1, <4>1
    <3>4. up[m - 1] \in Under(h)  BY <3>2, <3>3
    <3>5. up[m] \in Under(h)  BY <1>11, <3>2, <3>4, ReturnIs
    <3> QED BY <3>5
  <2>2. up = [k \in 0..n |-> up[k]]  BY <1>10
  <2> QED BY <2>1, <2>2
<1> QED BY <1>1, <1>9, <1>11, <1>12 DEF e, n

-----------------------------------------------------------------------------
(* Negotiation.                                                            *)

\* What the parser makes of a media range.
LEMMA WeightsType ==
  ASSUME NEW range
  PROVE  Specificity(range) \in 0..3 /\ Quality(range) \in {NotANumber, 0, 5, 10}
BY DEF Specificity, Quality

\* The f-th range is the first of the most specific of the first i that match.
FirstMatch(f, i, ranges, media) ==
  /\ f \in 1..i /\ Matches(ranges[f], media)
  /\ \A k \in 1..i : Matches(ranges[k], media) =>
       \/ Specificity(ranges[k]) < Specificity(ranges[f])
       \/ Specificity(ranges[k]) = Specificity(ranges[f]) /\ f <= k

\* The j-th range is the weightiest of the first i that match as specifically as the f-th.
Weightiest(j, f, i, ranges, media) ==
  /\ j \in 1..i /\ Matches(ranges[j], media)
  /\ Specificity(ranges[j]) = Specificity(ranges[f])
  /\ Quality(ranges[j]) # NotANumber
  /\ \A k \in 1..i :
       Matches(ranges[k], media) /\ Specificity(ranges[k]) = Specificity(ranges[f])
         => Quality(ranges[k]) <= Quality(ranges[j])

\* What the ranges from the first to the i-th make of a type: nothing, or no number
\* when that is the weight of the first of the most specific, or the greatest weight.
BestOf(b, i, ranges, media) ==
  \/ /\ b.specificity = -1 /\ b.quality = 0
     /\ \A k \in 1..i : ~Matches(ranges[k], media)
  \/ \E f \in 1..i :
       /\ FirstMatch(f, i, ranges, media)
       /\ b.specificity = Specificity(ranges[f])
       /\ \/ Quality(ranges[f]) = NotANumber /\ b.quality = NotANumber
          \/ /\ Quality(ranges[f]) # NotANumber
             /\ \E j \in 1..i : /\ Weightiest(j, f, i, ranges, media)
                                /\ b.quality = Quality(ranges[j])

Weights == [specificity : -1..3, quality : -1..10]

\* What one more range makes of it.
NextBest(b, range, media) ==
  IF Better(range, media, b)
  THEN [specificity |-> Specificity(range), quality |-> Quality(range)] ELSE b

\* One more range: the best so far stays the best so far.
LEMMA NextBestIs ==
  ASSUME NEW ranges, NEW media, NEW i \in Nat, NEW b \in Weights,
         BestOf(b, i, ranges, media)
  PROVE  /\ NextBest(b, ranges[i + 1], media) \in Weights
         /\ BestOf(NextBest(b, ranges[i + 1], media), i + 1, ranges, media)
<1> DEFINE n == i + 1
           new == ranges[n]
           c == NextBest(b, new, media)
<1>1. \A k \in 1..n : /\ Specificity(ranges[k]) \in 0..3
                      /\ Quality(ranges[k]) \in {NotANumber, 0, 5, 10}
  BY WeightsType
<1>2. \A k \in 1..n : k # n => k \in 1..i  OBVIOUS
<1>3. n \in 1..n /\ \A k \in 1..i : k \in 1..n /\ k <= n /\ k # n  OBVIOUS
<1>4. b.specificity \in -1..3 /\ b.quality \in -1..10  BY DEF Weights
<1>5. Specificity(new) \in 0..3 /\ Quality(new) \in {NotANumber, 0, 5, 10}  BY WeightsType
<1>6. c \in Weights  BY <1>5 DEF NextBest, Weights, NotANumber
<1>7. Better(new, media, b) => c.specificity = Specificity(new) /\ c.quality = Quality(new)
  BY DEF NextBest
<1>8. ~Better(new, media, b) => c = b  BY DEF NextBest
<1> HIDE DEF c, n
<1>9. CASE \A k \in 1..i : ~Matches(ranges[k], media)
  <2>1. b.specificity = -1 /\ b.quality = 0  BY <1>9 DEF BestOf, FirstMatch
  <2>2. CASE ~Matches(new, media)
    <3>1. c = b  BY <1>8, <2>2 DEF Better
    <3>2. \A k \in 1..n : ~Matches(ranges[k], media)  BY <1>2, <1>9, <2>2
    <3> QED BY <1>6, <2>1, <3>1, <3>2 DEF BestOf, c, n
  <2>3. CASE Matches(new, media)
    <3>1. c.specificity = Specificity(new) /\ c.quality = Quality(new)
      BY <1>5, <1>7, <2>1, <2>3 DEF Better
    <3>2. FirstMatch(n, n, ranges, media)
      BY <1>2, <1>3, <1>9, <2>3 DEF FirstMatch
    <3>3. Quality(new) # NotANumber => Weightiest(n, n, n, ranges, media)
      BY <1>1, <1>2, <1>3, <1>9, <2>3 DEF Weightiest, NotANumber
    <3>4. BestOf(c, n, ranges, media)  BY <1>3, <3>1, <3>2, <3>3 DEF BestOf
    <3> QED BY <1>6, <3>4 DEF c, n
  <2> QED BY <2>2, <2>3
<1>10. CASE ~ \A k \in 1..i : ~Matches(ranges[k], media)
  <2>1. PICK f \in 1..i :
          /\ FirstMatch(f, i, ranges, media)
          /\ b.specificity = Specificity(ranges[f])
          /\ \/ Quality(ranges[f]) = NotANumber /\ b.quality = NotANumber
             \/ /\ Quality(ranges[f]) # NotANumber
                /\ \E j \in 1..i : /\ Weightiest(j, f, i, ranges, media)
                                   /\ b.quality = Quality(ranges[j])
    BY <1>10 DEF BestOf
  <2>2. f \in 1..n  BY <1>3
  <2>3. Specificity(ranges[f]) \in 0..3 /\ Quality(ranges[f]) \in {NotANumber, 0, 5, 10}
    BY <1>1, <2>2
  <2>4. CASE Matches(new, media) /\ Specificity(new) > Specificity(ranges[f])
    <3>1. c.specificity = Specificity(new) /\ c.quality = Quality(new)
      BY <1>7, <2>1, <2>4 DEF Better
    <3>2. \A k \in 1..i : Matches(ranges[k], media) => Specificity(ranges[k]) < Specificity(new)
      BY <1>1, <1>3, <1>5, <2>1, <2>3, <2>4 DEF FirstMatch
    <3>3. FirstMatch(n, n, ranges, media)
      BY <1>2, <1>3, <2>4, <3>2 DEF FirstMatch
    <3>4. \A k \in 1..i : Matches(ranges[k], media) => Specificity(ranges[k]) # Specificity(new)
      BY <1>1, <1>3, <1>5, <3>2
    <3>5. Quality(new) # NotANumber => Weightiest(n, n, n, ranges, media)
      BY <1>2, <1>3, <1>5, <2>4, <3>4 DEF Weightiest, NotANumber
    <3>6. BestOf(c, n, ranges, media)  BY <1>3, <3>1, <3>3, <3>5 DEF BestOf
    <3> QED BY <1>6, <3>6 DEF c, n
  <2>5. CASE ~(Matches(new, media) /\ Specificity(new) > Specificity(ranges[f]))
    <3>1. FirstMatch(f, n, ranges, media)
      BY <1>2, <1>3, <1>5, <2>1, <2>2, <2>3, <2>5 DEF FirstMatch
    <3>2. c.specificity = Specificity(ranges[f])
      BY <1>5, <1>7, <1>8, <2>1, <2>3, <2>5 DEF Better
    <3>3. CASE Quality(ranges[f]) = NotANumber
      <4>1. b.quality = NotANumber  BY <2>1, <3>3
      <4>2. c = b  BY <1>5, <1>8, <2>1, <2>3, <2>5, <4>1 DEF Better, Exceeds
      <4>3. BestOf(c, n, ranges, media)  BY <2>2, <3>1, <3>2, <3>3, <4>1, <4>2 DEF BestOf
      <4> QED BY <1>6, <4>3 DEF c, n
    <3>4. CASE Quality(ranges[f]) # NotANumber
      <4>1. PICK j \in 1..i : Weightiest(j, f, i, ranges, media) /\ b.quality = Quality(ranges[j])
        BY <2>1, <3>4
      <4>2. j \in 1..n /\ Quality(ranges[j]) \in {NotANumber, 0, 5, 10}  BY <1>1, <1>3
      <4>3. CASE Better(new, media, b)
        <5>1. /\ Matches(new, media) /\ Specificity(new) = Specificity(ranges[f])
              /\ Exceeds(Quality(new), b.quality)
          BY <1>5, <2>1, <2>3, <2>5, <4>3 DEF Better
        <5>2. Weightiest(n, f, n, ranges, media)
          BY <1>1, <1>2, <1>3, <4>1, <4>2, <5>1 DEF Weightiest, Exceeds, NotANumber
        <5>3. c.quality = Quality(new)  BY <1>7, <4>3
        <5>4. BestOf(c, n, ranges, media)
          BY <1>3, <2>2, <3>1, <3>2, <3>4, <5>2, <5>3 DEF BestOf
        <5> QED BY <1>6, <5>4 DEF c, n
      <4>4. CASE ~Better(new, media, b)
        <5>1. c = b  BY <1>8, <4>4
        <5>2. Matches(new, media) /\ Specificity(new) = Specificity(ranges[f])
                => Quality(new) <= b.quality
          BY <1>5, <2>1, <2>3, <4>1, <4>2, <4>4 DEF Better, Exceeds, NotANumber, Weightiest
        <5>3. Weightiest(j, f, n, ranges, media)
          BY <1>2, <1>3, <4>1, <4>2, <5>2 DEF Weightiest
        <5>4. BestOf(c, n, ranges, media)
          BY <2>2, <3>1, <3>2, <3>4, <4>1, <4>2, <5>1, <5>3 DEF BestOf
        <5> QED BY <1>6, <5>4 DEF c, n
      <4> QED BY <4>3, <4>4
    <3> QED BY <3>3, <3>4
  <2> QED BY <2>4, <2>5
<1> QED BY <1>9, <1>10

\* The loop over the header comes to the best of all its ranges.
LEMMA LoopIsBest ==
  ASSUME NEW media, NEW S, NEW ranges \in Seq(S)
  PROVE  \E b \in Weights :
           /\ BestOf(b, Len(ranges), ranges, media)
           /\ MediaTypeAccepted(media, ranges) <=> b.specificity >= 0 /\ Exceeds(b.quality, 0)
<1> DEFINE n == Len(ranges)
           none == [specificity |-> -1, quality |-> 0]
           Runs(f) == f = [i \in 0..n |->
             IF i = 0 THEN none
             ELSE IF Better(ranges[i], media, f[i - 1])
             THEN [specificity |-> Specificity(ranges[i]), quality |-> Quality(ranges[i])]
             ELSE f[i - 1]]
<1>1. PICK best : best = CHOOSE f : Runs(f)  OBVIOUS
<1>2. MediaTypeAccepted(media, ranges)
        <=> best[n].specificity >= 0 /\ Exceeds(best[n].quality, 0)
  BY <1>1 DEF MediaTypeAccepted
<1>3. n \in Nat  OBVIOUS
<1>4. none \in Weights  BY DEF Weights
<1> HIDE DEF n
<1> DEFINE step == [i \in 1..n |-> [b \in Weights |-> NextBest(b, ranges[i], media)]]
<1>5. step \in [1..n -> [Weights -> Weights]]
  <2>1. \A i \in 1..n, b \in Weights : NextBest(b, ranges[i], media) \in Weights
    <3> SUFFICES ASSUME NEW i \in 1..n, NEW b \in Weights
                 PROVE  NextBest(b, ranges[i], media) \in Weights
      OBVIOUS
    <3>1. Specificity(ranges[i]) \in 0..3 /\ Quality(ranges[i]) \in {NotANumber, 0, 5, 10}
      BY WeightsType
    <3> QED BY <3>1 DEF NextBest, Weights, NotANumber
  <2> QED BY <2>1
<1>6. \A i \in 1..n, b \in Weights : step[i][b] = NextBest(b, ranges[i], media)
  OBVIOUS
<1> HIDE DEF step, none
<1>7. PICK f \in [0..n -> Weights] : f[0] = none /\ \A i \in 1..n : f[i] = step[i][f[i - 1]]
  <2>1. CanRun(n, Weights, none, step)  BY <1>3, <1>4, <1>5, StepsExist
  <2> QED BY <2>1 DEF CanRun
<1>8. \A i \in 1..n : f[i] = NextBest(f[i - 1], ranges[i], media)
  <2> SUFFICES ASSUME NEW i \in 1..n PROVE f[i] = NextBest(f[i - 1], ranges[i], media)
    OBVIOUS
  <2>1. i - 1 \in 0..n  BY <1>3
  <2>2. f[i - 1] \in Weights  BY <2>1
  <2>3. f[i] = step[i][f[i - 1]]  BY <1>7
  <2> QED BY <1>6, <2>2, <2>3, Zenon
<1>9. Runs(f)
  <2> DEFINE g == [i \in 0..n |->
               IF i = 0 THEN none
               ELSE IF Better(ranges[i], media, f[i - 1])
               THEN [specificity |-> Specificity(ranges[i]), quality |-> Quality(ranges[i])]
               ELSE f[i - 1]]
  <2>1. \A i \in 0..n : f[i] = g[i]
    <3> SUFFICES ASSUME NEW i \in 0..n PROVE f[i] = g[i]
      OBVIOUS
    <3>1. CASE i = 0  BY <1>7, <3>1
    <3>2. CASE i # 0
      <4>1. i \in 1..n  BY <1>3, <3>2
      <4>2. g[i] = NextBest(f[i - 1], ranges[i], media)
        BY <3>2, Zenon DEF NextBest
      <4> QED BY <1>8, <4>1, <4>2
    <3> QED BY <3>1, <3>2
  <2>2. f = [i \in 0..n |-> f[i]] /\ g = [i \in 0..n |-> g[i]]  OBVIOUS
  <2> HIDE DEF g
  <2>3. f = g  BY <2>1, <2>2, Zenon
  <2> QED BY <2>3 DEF g
<1>10. Runs(best)
  <2> HIDE DEF Runs
  <2> QED BY <1>1, <1>9
<1>11. best[0] = none /\ \A i \in 1..n : best[i] = NextBest(best[i - 1], ranges[i], media)
  BY <1>3, <1>10 DEF NextBest
<1>12. best[n] \in Weights /\ BestOf(best[n], n, ranges, media)
  <2> DEFINE Good(i) == best[i] \in Weights /\ BestOf(best[i], i, ranges, media)
             B == {i \in 0..n : ~Good(i)}
  <2>1. B = {}
    <3> SUFFICES ASSUME B # {} PROVE FALSE
      OBVIOUS
    <3>1. PICK m \in B : \A k \in B : m <= k
      <4>1. B \in SUBSET Nat  OBVIOUS
      <4> HIDE DEF B
      <4> QED BY <4>1, LeastNumber
    <3>2. Good(0)  BY <1>4, <1>11 DEF BestOf, none
    <3>3. m \in 1..n /\ m - 1 \in 0..n /\ m - 1 \in Nat /\ m - 1 + 1 = m
      <4> HIDE DEF Good
      <4> QED BY <1>3, <3>2
    <3>4. m - 1 \notin B
      <4>1. ~(m <= m - 1)  BY <3>3
      <4> HIDE DEF B
      <4> QED BY <3>1, <4>1
    <3>5. Good(m - 1)
      <4> HIDE DEF Good
      <4> QED BY <3>3, <3>4
    <3>6. PICK k : k = m - 1  OBVIOUS
    <3>7. k \in Nat /\ k + 1 = m /\ Good(k)  BY <3>3, <3>5, <3>6
    <3>8. /\ NextBest(best[k], ranges[k + 1], media) \in Weights
          /\ BestOf(NextBest(best[k], ranges[k + 1], media), k + 1, ranges, media)
      BY <3>7, NextBestIs
    <3>9. best[m] = NextBest(best[k], ranges[m], media)  BY <1>11, <3>3, <3>6
    <3>10. Good(m)  BY <3>7, <3>8, <3>9
    <3> QED BY <3>10
  <2>2. n \in 0..n  BY <1>3
  <2> HIDE DEF Good
  <2>3. Good(n)  BY <2>1, <2>2
  <2> QED BY <2>3 DEF Good
<1> QED BY <1>2, <1>12 DEF n

\* An item of a header that is a media range.
Proper(item) == item.type # ""

\* A type that a header wants by its weights.
Wanted(media, header) ==
  \E range \in {item \in ToSet(header) : Proper(item)} :
    /\ Matches(range, media) /\ Exceeds(Quality(range), 0)
    /\ \A other \in {item \in ToSet(header) : Proper(item)} :
         Matches(other, media) => Specificity(other) <= Specificity(range)

\* The server takes a type when the weights of the header want it and no weight that
\* is no number hides it.
LEMMA TakenAsWanted ==
  ASSUME NEW S, NEW header \in Seq(S), NEW media, Proper(media)
  PROVE  MediaTypeAccepted(media, header) <=> Wanted(media, header) /\ ~Shadowed(header, media)
<1> DEFINE ranges == {item \in ToSet(header) : Proper(item)}
           n == Len(header)
<1>1. ToSet(header) = {header[i] : i \in 1..n}  BY DEF ToSet
<1>2. PICK b \in Weights :
        /\ BestOf(b, n, header, media)
        /\ MediaTypeAccepted(media, header) <=> b.specificity >= 0 /\ Exceeds(b.quality, 0)
  BY LoopIsBest
<1>3. \A range : Matches(range, media) => Proper(range)
  BY Zenon DEF Matches, Named, Anything, Proper
<1>4. \A x : Specificity(x) \in 0..3 /\ Quality(x) \in {NotANumber, 0, 5, 10}  BY WeightsType
<1>5. n \in Nat /\ DOMAIN header = 1..n  OBVIOUS
<1> HIDE DEF n
<1>6. \A k \in 1..n : Matches(header[k], media) => header[k] \in ranges  BY <1>1, <1>3
<1>7. ranges \subseteq {header[k] : k \in 1..n}  BY <1>1
<1> HIDE DEF ranges
<1>8. Wanted(media, header) <=>
        \E range \in ranges :
          /\ Matches(range, media) /\ Exceeds(Quality(range), 0)
          /\ \A other \in ranges : Matches(other, media) => Specificity(other) <= Specificity(range)
  BY Zenon DEF Wanted, ranges
<1>9. CASE \A k \in 1..n : ~Matches(header[k], media)
  <2>1. b.specificity = -1  BY <1>2, <1>9 DEF BestOf, FirstMatch
  <2>2. ~Wanted(media, header)  BY <1>7, <1>8, <1>9
  <2> QED BY <1>2, <2>1, <2>2
<1>10. CASE ~ \A k \in 1..n : ~Matches(header[k], media)
  <2>1. PICK f \in 1..n :
          /\ FirstMatch(f, n, header, media)
          /\ b.specificity = Specificity(header[f])
          /\ \/ Quality(header[f]) = NotANumber /\ b.quality = NotANumber
             \/ /\ Quality(header[f]) # NotANumber
                /\ \E j \in 1..n : /\ Weightiest(j, f, n, header, media)
                                   /\ b.quality = Quality(header[j])
    BY <1>2, <1>10 DEF BestOf
  <2>2. header[f] \in ranges /\ Matches(header[f], media)  BY <1>6, <2>1 DEF FirstMatch
  <2>3. \A k \in 1..n : Matches(header[k], media)
                          => Specificity(header[k]) <= Specificity(header[f])
    BY <1>4, <2>1 DEF FirstMatch
  <2>4. Shadowed(header, media) <=> Quality(header[f]) = NotANumber
    <3>1. ASSUME Quality(header[f]) = NotANumber PROVE Shadowed(header, media)
      BY <1>5, <2>1, <3>1 DEF Shadowed, FirstMatch
    <3>2. ASSUME Shadowed(header, media) PROVE Quality(header[f]) = NotANumber
      <4>1. PICK i \in 1..n :
              /\ Matches(header[i], media) /\ Quality(header[i]) = NotANumber
              /\ \A k \in 1..n : Matches(header[k], media) =>
                   \/ Specificity(header[k]) < Specificity(header[i])
                   \/ Specificity(header[k]) = Specificity(header[i]) /\ i <= k
        BY <1>5, <3>2 DEF Shadowed
      <4>2. i = f
        <5>1. Specificity(header[i]) = Specificity(header[f]) /\ f <= i
          BY <1>4, <2>1, <2>2, <4>1 DEF FirstMatch
        <5>2. i <= f  BY <1>4, <2>2, <4>1, <5>1
        <5> QED BY <1>5, <5>1, <5>2
      <4> QED BY <4>1, <4>2
    <3> QED BY <3>1, <3>2
  <2>5. CASE Quality(header[f]) = NotANumber
    <3>1. ~Exceeds(b.quality, 0)  BY <2>1, <2>5 DEF Exceeds
    <3> QED BY <1>2, <2>4, <2>5, <3>1
  <2>6. CASE Quality(header[f]) # NotANumber
    <3>1. PICK j \in 1..n : Weightiest(j, f, n, header, media) /\ b.quality = Quality(header[j])
      BY <2>1, <2>6
    <3>2. header[j] \in ranges  BY <1>6, <3>1 DEF Weightiest
    <3>3. b.specificity >= 0  BY <1>4, <2>1
    <3>4. ASSUME Exceeds(b.quality, 0) PROVE Wanted(media, header)
      <4>1. \A other \in ranges : Matches(other, media)
                                    => Specificity(other) <= Specificity(header[j])
        BY <1>7, <2>3, <3>1 DEF Weightiest
      <4> QED BY <1>8, <3>1, <3>2, <3>4, <4>1 DEF Weightiest
    <3>5. ASSUME Wanted(media, header) PROVE Exceeds(b.quality, 0)
      <4>1. PICK range \in ranges :
              /\ Matches(range, media) /\ Exceeds(Quality(range), 0)
              /\ \A other \in ranges : Matches(other, media)
                                         => Specificity(other) <= Specificity(range)
        BY <1>8, <3>5
      <4>2. PICK i \in 1..n : range = header[i]  BY <1>7
      <4>3. Specificity(header[i]) = Specificity(header[f])
        BY <1>4, <2>2, <2>3, <4>1, <4>2
      <4>4. Quality(header[i]) <= b.quality  BY <3>1, <4>1, <4>2, <4>3 DEF Weightiest
      <4> QED BY <1>4, <3>1, <4>1, <4>2, <4>4 DEF Exceeds, NotANumber, Weightiest
    <3> QED BY <1>2, <2>4, <2>6, <3>3, <3>4, <3>5
  <2> QED BY <2>5, <2>6
<1> QED BY <1>9, <1>10

\* A header is taken as its weights want, but for the types that are hidden.
LEMMA AcceptsAsWanted ==
  ASSUME NEW S, NEW header \in Seq(S), NEW offered, \A media \in offered : Proper(media)
  PROVE  /\ AcceptsAny(header, offered) => Wants(header, offered)
         /\ ~AcceptsAny(header, offered) =>
              \A media \in offered : Wants(header, {media}) => Shadowed(header, media)
<1>1. \A types : Wants(header, types) <=> header = <<>> \/ \E media \in types : Wanted(media, header)
  BY Zenon DEF Wants, Wanted, Proper
<1>2. \A media \in offered :
        MediaTypeAccepted(media, header) <=> Wanted(media, header) /\ ~Shadowed(header, media)
  BY TakenAsWanted
<1>3. AcceptsAny(header, offered) => Wants(header, offered)
  BY <1>1, <1>2, Zenon DEF AcceptsAny
<1>4. ASSUME ~AcceptsAny(header, offered), NEW media \in offered, Wants(header, {media})
      PROVE  Shadowed(header, media)
  <2>1. header # <<>> /\ ~MediaTypeAccepted(media, header)  BY <1>4, Zenon DEF AcceptsAny
  <2>2. PICK types : types = {media}  OBVIOUS
  <2>3. \E m \in types : Wanted(m, header)
    <3>1. Wants(header, types)  BY <1>4, <2>2
    <3> QED BY <1>1, <2>1, <3>1, Zenon
  <2>4. Wanted(media, header)  BY <2>2, <2>3
  <2> QED BY <1>2, <2>1, <2>4
<1> QED BY <1>3, <1>4

-----------------------------------------------------------------------------
(* What every request meets on its way down.                               *)

\* The headers an answer to q owes.
Guarded(q, headers) ==
  /\ {"X-Request-ID", "security"} \subseteq headers
  /\ UnderAPI(q) => "no-store" \in headers
  /\ q.route = "livez" /\ q.origin = "none" /\ q.size # "declared" => "no-cache" \in headers
  /\ q.origin = "listed" /\ q.route # "metrics" => "CORS" \in headers

\* Who sets the headers that Guarded asks for.
LEMMA HeadersSet ==
  ASSUME NEW q
  PROVE  /\ Headers("RequestID", q) = {"X-Request-ID"}
         /\ Headers("SecurityHeaders", q) = {"security"}
         /\ UnderAPI(q) => Headers("NoStoreAPI", q) = {"no-store"}
         /\ q.origin = "listed" => Headers("CORS", q) = {"CORS"}
         /\ Headers("NoCache", q) = {"no-cache"}
BY DEF Headers

\* The first middlewares let everything pass, up to the check of the origin.
LEMMA FirstPass ==
  ASSUME NEW q, NEW c, NEW o \in 0..1, o = IF c.metrics THEN 1 ELSE 0,
         ~(q.route = "metrics" /\ c.metrics)
  PROVE  \A i \in 1..(6 + o) : Verdict(Chain(q, c)[i], q) = 0
<1>1. PICK h : h = Chain(q, c)  OBVIOUS
<1>2. GlobalFirst(h, c.metrics)  BY <1>1, PlainChain
<1>3. \A m \in {"RequestID", "HTTPMetrics", "RequestTimeout", "Logger", "Recovery",
                "SecurityHeaders", "NoStoreAPI"} : Verdict(m, q) = 0
  BY Verdicts
<1>4. CASE c.metrics
  <2>1. /\ h[1] = "RequestID" /\ h[2] = "HTTPMetrics" /\ h[3] = "RequestTimeout"
        /\ h[4] = "Logger" /\ h[5] = "Recovery" /\ h[6] = "SecurityHeaders"
        /\ h[7] = "NoStoreAPI"
    BY <1>2, <1>4 DEF GlobalFirst
  <2>2. /\ Verdict(h[1], q) = 0 /\ Verdict(h[2], q) = 0 /\ Verdict(h[3], q) = 0
        /\ Verdict(h[4], q) = 0 /\ Verdict(h[5], q) = 0 /\ Verdict(h[6], q) = 0
        /\ Verdict(h[7], q) = 0
    BY <1>3, <2>1
  <2>3. \A i \in 1..7 : i \in {1, 2, 3, 4, 5, 6, 7}  OBVIOUS
  <2> QED BY <1>1, <1>4, <2>2, <2>3
<1>5. CASE ~c.metrics
  <2>1. /\ h[1] = "RequestID" /\ h[2] = "RequestTimeout"
        /\ h[3] = "Logger" /\ h[4] = "Recovery" /\ h[5] = "SecurityHeaders"
        /\ h[6] = "NoStoreAPI"
    BY <1>2, <1>5 DEF GlobalFirst
  <2>2. /\ Verdict(h[1], q) = 0 /\ Verdict(h[2], q) = 0 /\ Verdict(h[3], q) = 0
        /\ Verdict(h[4], q) = 0 /\ Verdict(h[5], q) = 0 /\ Verdict(h[6], q) = 0
    BY <1>3, <2>1
  <2>3. \A i \in 1..6 : i \in {1, 2, 3, 4, 5, 6}  OBVIOUS
  <2> QED BY <1>1, <1>5, <2>2, <2>3
<1> QED BY <1>4, <1>5

\* What no answer has a place for: a probe meets no other middleware that answers.
LEMMA ProbesPass ==
  ASSUME NEW q, NEW c, NEW o \in 0..1, o = IF c.metrics THEN 1 ELSE 0,
         q.route = "livez", q.origin = "none", q.size # "declared"
  PROVE  \A i \in 1..(10 + o) : Verdict(Chain(q, c)[i], q) = 0
<1>1. PICK h : h = Chain(q, c)  OBVIOUS
<1>2. q.route # "metrics"  OBVIOUS
<1>3. GlobalFirst(h, c.metrics) /\ \A i \in 1..(6 + o) : Verdict(h[i], q) = 0
  BY <1>1, <1>2, PlainChain, FirstPass
<1>4. /\ h[7 + o] = "CORS" /\ h[8 + o] = "BodyLimit" /\ h[9 + o] = "ContentType"
      /\ h[10 + o] = "Accept"
  BY <1>3 DEF GlobalFirst
<1>5. /\ Verdict("CORS", q) = 0 /\ Verdict("BodyLimit", q) = 0
      /\ Verdict("ContentType", q) = 0 /\ Verdict("Accept", q) = 0
  BY DEF Verdict, Origin, BodyLimit, ContentType, Accept, BodyTypes, JsonRoutes
<1>6. /\ Verdict(h[7 + o], q) = 0 /\ Verdict(h[8 + o], q) = 0 /\ Verdict(h[9 + o], q) = 0
      /\ Verdict(h[10 + o], q) = 0
  BY <1>4, <1>5
<1>7. \A i \in 1..(10 + o) : \/ i \in 1..(6 + o) \/ i = 7 + o \/ i = 8 + o
                             \/ i = 9 + o \/ i = 10 + o
  OBVIOUS
<1> QED BY <1>1, <1>3, <1>6, <1>7, Zenon

\* Wherever the way down ends, the headers of the route have been set before.
LEMMA GuardedDown ==
  ASSUME NEW q, NEW c
  PROVE  Down(q, c).headers \in SUBSET HeaderNames /\ Guarded(q, Down(q, c).headers)
<1>1. PICK h : h = Chain(q, c)  OBVIOUS
<1>2. PICK d : d = Down(q, c)  OBVIOUS
<1>3. h \in Seq(Middlewares)  BY <1>1, ChainType
<1>4. d.headers \in SUBSET HeaderNames
  <2>1. PICK last \in 0..Len(h) : d.headers = UNION {Headers(h[i], q) : i \in 1..last}
    BY <1>1, <1>2, <1>3, DownIs
  <2> QED BY <2>1, HeadersType
<1>5. CASE q.route = "metrics" /\ c.metrics
  <2>1. /\ h = MetricsChain(c)  BY <1>1, <1>5 DEF Chain
  <2>2. /\ Len(h) \in 4..5 /\ h[1] = "RequestID" /\ h[2] = "Recovery"
        /\ h[3] = "SecurityHeaders"
    BY <2>1, MetricsChainIs
  <2>3. Verdict(h[1], q) = 0 /\ Verdict(h[2], q) = 0  BY <2>2, Verdicts
  <2>4. \A i \in 1..(3 - 1) : Verdict(h[i], q) = 0
    <3>1. \A i \in 1..(3 - 1) : i = 1 \/ i = 2  OBVIOUS
    <3> QED BY <2>3, <3>1
  <2>5. 3 \in 1..Len(h)  BY <2>2
  <2>6. \A i \in 1..3 : Headers(h[i], q) \subseteq d.headers
    BY <1>1, <1>2, <1>3, <2>4, <2>5, Enters
  <2>7. Headers(h[1], q) \subseteq d.headers /\ Headers(h[3], q) \subseteq d.headers
    BY <2>6
  <2>8. {"X-Request-ID", "security"} \subseteq d.headers
    BY <2>2, <2>7, HeadersSet
  <2>9. ~UnderAPI(q)  BY <1>5 DEF UnderAPI, JsonRoutes
  <2> QED BY <1>2, <1>4, <1>5, <2>8, <2>9 DEF Guarded
<1>6. CASE ~(q.route = "metrics" /\ c.metrics)
  <2>1. PICK o \in 0..1 : o = IF c.metrics THEN 1 ELSE 0  OBVIOUS
  <2>2. /\ GlobalFirst(h, c.metrics) /\ Len(h) \in (11 + o)..(12 + o)
        /\ q.route = "livez" => h[11 + o] = "NoCache"
    BY <1>1, <1>6, <2>1, PlainChain
  <2>3. /\ h[1] = "RequestID" /\ h[5 + o] = "SecurityHeaders" /\ h[6 + o] = "NoStoreAPI"
        /\ h[7 + o] = "CORS"
    BY <2>1, <2>2 DEF GlobalFirst
  <2>4. PICK k : k = 7 + o  OBVIOUS
  <2>5. k \in 1..Len(h) /\ k - 1 = 6 + o /\ \A i \in {1, 5 + o, 6 + o, 7 + o} : i \in 1..k
    BY <2>2, <2>4
  <2>6. \A i \in 1..(k - 1) : Verdict(h[i], q) = 0
    BY <1>1, <1>6, <2>1, <2>5, FirstPass
  <2>7. \A i \in 1..k : Headers(h[i], q) \subseteq d.headers
    BY <1>1, <1>2, <1>3, <2>5, <2>6, Enters
  <2>8. /\ Headers(h[1], q) \subseteq d.headers /\ Headers(h[5 + o], q) \subseteq d.headers
        /\ Headers(h[6 + o], q) \subseteq d.headers /\ Headers(h[7 + o], q) \subseteq d.headers
    BY <2>5, <2>7
  <2>9. /\ {"X-Request-ID", "security"} \subseteq d.headers
        /\ UnderAPI(q) => "no-store" \in d.headers
        /\ q.origin = "listed" => "CORS" \in d.headers
    BY <2>3, <2>8, HeadersSet
  <2>10. ASSUME q.route = "livez", q.origin = "none", q.size # "declared"
         PROVE  "no-cache" \in d.headers
    <3>1. PICK l : l = 11 + o  OBVIOUS
    <3>2. l \in 1..Len(h) /\ l - 1 = 10 + o /\ l \in 1..l /\ h[l] = "NoCache"
      BY <2>2, <2>10, <3>1
    <3>3. \A i \in 1..(l - 1) : Verdict(h[i], q) = 0
      BY <1>1, <2>1, <2>10, <3>2, ProbesPass
    <3>4. Headers(h[l], q) \subseteq d.headers
      BY <1>1, <1>2, <1>3, <3>2, <3>3, Enters
    <3> QED BY <3>2, <3>4, HeadersSet
  <2> QED BY <1>2, <1>4, <2>9, <2>10 DEF Guarded
<1> QED BY <1>5, <1>6

\* The server is asked to offer media types.
LEMMA OffersProper == \A q : \A media \in Offers(q) : Proper(media)
<1>1. Proper(Json) /\ Proper(Csv) /\ Proper(Xlsx)
  BY Zenon DEF Proper, Json, Csv, Xlsx
<1>2. \A format : Formats(format) \subseteq {Csv, Xlsx}
  BY DEF Formats
<1> QED BY <1>1, <1>2 DEF Offers

\* q passed, or was refused with 406, as its header wants.
Negotiated(q, sent) ==
  /\ sent = NoReply /\ q.route \in JsonRoutes \cup {"export"} => Wants(q.accept, Offers(q))
  /\ sent # NoReply /\ sent.status = 406 =>
       \A media \in Offers(q) : Wants(q.accept, {media}) => Shadowed(q.accept, media)

\* The way down ends as the header wants.
LEMMA NegotiatedDown ==
  ASSUME NEW q, NEW c, NEW S, q.accept \in Seq(S)
  PROVE  Negotiated(q, Down(q, c).sent)
<1>1. /\ AcceptsAny(q.accept, Offers(q)) => Wants(q.accept, Offers(q))
      /\ ~AcceptsAny(q.accept, Offers(q)) =>
           \A media \in Offers(q) : Wants(q.accept, {media}) => Shadowed(q.accept, media)
  BY AcceptsAsWanted, OffersProper
<1>2. PICK h : h = Chain(q, c)  OBVIOUS
<1>3. h \in Seq(Middlewares)  BY <1>2, ChainType
<1>4. PICK last \in 0..Len(h) :
        \/ /\ last = Len(h) /\ Down(q, c).sent = NoReply
           /\ \A i \in 1..last : Verdict(h[i], q) = 0
        \/ /\ Verdict(h[last], q) # 0
           /\ Down(q, c).sent = Reply(Verdict(h[last], q), Down(q, c).headers)
  BY <1>2, <1>3, DownIs
<1>5. ASSUME Down(q, c).sent = NoReply, q.route \in JsonRoutes \cup {"export"}
      PROVE  Wants(q.accept, Offers(q))
  <2>1. Verdict("Accept", q) = Accept(q)  BY DEF Verdict
  <2>2. q.route # "metrics"  BY <1>5 DEF JsonRoutes
  <2>3. PICK o \in 0..1 : o = IF c.metrics THEN 1 ELSE 0  OBVIOUS
  <2>4. GlobalFirst(h, c.metrics) /\ Len(h) \in (11 + o)..(12 + o)
    BY <1>2, <2>2, <2>3, PlainChain
  <2>5. h[10 + o] = "Accept" /\ 10 + o \in 1..Len(h)  BY <2>3, <2>4 DEF GlobalFirst
  <2>6. \A i \in 1..Len(h) : Verdict(h[i], q) = 0
    <3>1. Down(q, c).headers \in SUBSET HeaderNames  BY GuardedDown
    <3>2. Verdict(h[last], q) # 0 => Verdict(h[last], q) \in 200..599  BY Verdicts
    <3>3. Verdict(h[last], q) # 0
            => Reply(Verdict(h[last], q), Down(q, c).headers) # NoReply
      BY <3>1, <3>2, GatewayAssumption DEF Reply
    <3> QED BY <1>4, <1>5, <3>3
  <2>7. Accept(q) = 0  BY <2>1, <2>5, <2>6
  <2> QED BY <1>1, <1>5, <2>7 DEF Accept
<1>6. ASSUME Down(q, c).sent # NoReply, Down(q, c).sent.status = 406
      PROVE  \A media \in Offers(q) : Wants(q.accept, {media}) => Shadowed(q.accept, media)
  <2>1. Verdict(h[last], q) = 406  BY <1>4, <1>6 DEF Reply
  <2>2. Accept(q) = 406  BY <2>1, Verdicts
  <2> QED BY <1>1, <2>2 DEF Accept
<1> QED BY <1>5, <1>6 DEF Negotiated
\* What was sent on the way down has its headers.
LEMMA SentDown ==
  ASSUME NEW q, NEW c
  PROVE  /\ Down(q, c).entered \in Seq(Middlewares)
         /\ Down(q, c).sent \in Sent(Down(q, c).headers)
<1>1. PICK h : h = Chain(q, c)  OBVIOUS
<1>2. h \in Seq(Middlewares)  BY <1>1, ChainType
<1>3. PICK last \in 0..Len(h) :
        /\ Down(q, c).entered = SubSeq(h, 1, last)
        /\ \/ Down(q, c).sent = NoReply
           \/ /\ Verdict(h[last], q) # 0
              /\ Down(q, c).sent = Reply(Verdict(h[last], q), Down(q, c).headers)
  BY <1>1, <1>2, DownIs
<1>4. Down(q, c).entered \in Seq(Middlewares)  BY <1>2, <1>3
<1>5. Verdict(h[last], q) # 0 => Verdict(h[last], q) \in 200..599  BY Verdicts
<1>6. Down(q, c).sent \in Sent(Down(q, c).headers)
  <2>1. PICK h2 : h2 = Down(q, c).headers  OBVIOUS
  <2>2. \A s \in 200..599 : Reply(s, h2) \in Sent(h2)  BY DEF Sent, Reply
  <2>3. NoReply \in Sent(h2)  BY DEF Sent
  <2>4. CASE Down(q, c).sent = NoReply  BY <2>1, <2>3, <2>4
  <2>5. CASE Down(q, c).sent # NoReply  BY <1>3, <1>5, <2>1, <2>2, <2>5, Zenon
  <2> QED BY <2>4, <2>5
<1> QED BY <1>4, <1>6

\* Where requests are counted, all but those for the metrics enter the count, and
\* below it the recovery from panics.
LEMMA CountedDown ==
  ASSUME NEW q, NEW c, c.metrics, q.route # "metrics"
  PROVE  /\ Len(Down(q, c).entered) >= 5
         /\ Down(q, c).entered[1] = "RequestID" /\ Down(q, c).entered[2] = "HTTPMetrics"
         /\ Down(q, c).entered[5] = "Recovery"
<1>1. PICK h : h = Chain(q, c)  OBVIOUS
<1>2. h \in Seq(Middlewares)  BY <1>1, ChainType
<1>3. PICK o \in 0..1 : o = 1 /\ o = IF c.metrics THEN 1 ELSE 0  OBVIOUS
<1>4. GlobalFirst(h, c.metrics) /\ Len(h) \in (11 + o)..(12 + o)
  BY <1>1, <1>3, PlainChain
<1>5. h[1] = "RequestID" /\ h[2] = "HTTPMetrics" /\ h[5] = "Recovery"
  BY <1>4 DEF GlobalFirst
<1>6. 5 \in 1..Len(h) /\ \A i \in 1..(5 - 1) : i \in 1..(6 + o)
  <2>1. PICK n : n = Len(h)  OBVIOUS
  <2>2. n \in (11 + o)..(12 + o)  BY <1>4, <2>1
  <2>3. 5 \in 1..n  BY <2>2
  <2> QED BY <2>1, <2>3
<1>7. \A i \in 1..(5 - 1) : Verdict(h[i], q) = 0
  BY <1>1, <1>3, <1>6, FirstPass
<1>8. /\ Len(Down(q, c).entered) >= 5
      /\ \A i \in 1..5 : Down(q, c).entered[i] = h[i]
  BY <1>1, <1>2, <1>6, <1>7, Enters
<1> QED BY <1>5, <1>8

Phases == {"idle", "handling", "rejected", "answered"}

GatewayShape ==
  /\ server \in {"off", "refused", "panicked", "booted", "up"}
  /\ at \in [Reqs -> Phases] /\ ctx \in [Reqs -> {"live", "deadline", "gone"}]
  /\ DOMAIN req = Reqs /\ DOMAIN trail = Reqs /\ DOMAIN reply = Reqs /\ DOMAIN counted = Reqs

\* A request has gone down the chain of the configuration the server listens
\* with, or has the answer it is owed.
Connected(r) ==
  /\ at[r] # "idle" => server = "up" /\ req[r] \in Visits \cup Operations
  /\ at[r] \in {"handling", "rejected"} =>
       trail[r] = Down(req[r], cfg) /\ (at[r] = "handling" <=> trail[r].sent = NoReply)
  /\ pc[r] \notin {"idle", "done"} => at[r] = "handling"
  /\ at[r] = "answered" =>
       /\ reply[r].status \in 200..599 /\ Guarded(req[r], reply[r].headers)
       /\ cfg.metrics /\ req[r].route # "metrics" => counted[r] = reply[r].status

GatewayInv == PlanInv /\ GatewayShape /\ \A r \in Reqs : Connected(r)

\* Before the start: no requests, empty tables.
LEMMA GatewayInit == Init => GatewayInv
<1> SUFFICES ASSUME Init PROVE GatewayInv
  OBVIOUS
<1>1. PlanInv  BY PlanInitInv DEF Init
<1>2. GatewayShape  BY DEF Init, GatewayShape, Phases
<1>3. \A r \in Reqs : Connected(r)  BY DEF Init, PlanInit, Connected
<1> QED BY <1>1, <1>2, <1>3 DEF GatewayInv

\* Nothing of a request changes but, perhaps, the statements of its handler.
LEMMA ConnectedSame ==
  ASSUME NEW r \in Reqs, Connected(r), server' = server, cfg' = cfg,
         req'[r] = req[r], at'[r] = at[r], trail'[r] = trail[r], reply'[r] = reply[r],
         counted'[r] = counted[r],
         pc'[r] \in {"idle", "done"} \/ pc[r] \notin {"idle", "done"}
  PROVE  Connected(r)'
<1>1. req'[r] = req[r] /\ cfg' = cfg /\ trail'[r] = trail[r] /\ reply'[r] = reply[r]
  OBVIOUS
<1>2. /\ Down(req'[r], cfg') = Down(req[r], cfg)
      /\ Guarded(req'[r], reply'[r].headers) <=> Guarded(req[r], reply[r].headers)
  BY <1>1
<1> QED BY <1>2 DEF Connected

\* A handler goes from statement to statement until it ends.
LEMMA StatementIs ==
  ASSUME PlanInv, NEW r \in Reqs, Step(r)
  PROVE  pc[r] \notin {"idle", "done"} /\ \A o \in Reqs : o # r => pc'[o] = pc[o]
<1> USE DEF PlanInv, Shape, End, Goto
<1>1. CASE Build(r)  BY <1>1 DEF Build, AfterValidation
<1>2. CASE LoadBudget(r)  BY <1>2 DEF LoadBudget, AfterValidation
<1>3. CASE Insert(r)  BY <1>3 DEF Insert, Write
<1>4. CASE Save(r)  BY <1>4 DEF Save, Write
<1>5. CASE Delete(r)  BY <1>5 DEF Delete
<1>6. ASSUME NEW write \in {"insert", "save"}, CheckCategory(r, write)
      PROVE  pc[r] \notin {"idle", "done"} /\ \A o \in Reqs : o # r => pc'[o] = pc[o]
  <2>1. pc[r] \in {"checkinsert", "checksave"}  BY <1>6 DEF CheckCategory, CheckBefore
  <2>2. \E next : pc' = [pc EXCEPT ![r] = next]
    <3>1. \/ kind[job[r].key.cat] = "deleted" \/ kind[job[r].key.cat] = "income"
          \/ kind[job[r].key.cat] \notin {"deleted", "income"}
      OBVIOUS
    <3> QED BY <1>6, <3>1 DEF CheckCategory
  <2> QED BY <2>1, <2>2
<1>7. CASE SnapDays(r)  BY <1>7 DEF SnapDays
<1>8. CASE SnapMonth(r)  BY <1>8 DEF SnapMonth
<1>9. CASE FindRow(r)  BY <1>9 DEF FindRow
<1>10. CASE Upsert(r)
  <2>1. \E next : pc' = [pc EXCEPT ![r] = next]  BY <1>10 DEF Upsert
  <2> QED BY <1>10, <2>1 DEF Upsert
<1> QED BY <1>1, <1>2, <1>3, <1>4, <1>5, <1>6, <1>7, <1>8, <1>9, <1>10 DEF Step

\* A handler begins.
LEMMA BeginIs ==
  ASSUME PlanInv, NEW r \in Reqs, NEW q \in Operations, Begin(r, q.op)
  PROVE  \A o \in Reqs : o # r => pc'[o] = pc[o]
<1> USE DEF PlanInv, Shape, Start, Goto
<1>1. CASE q.op.do = "create"
  <2>1. BeginCreate(r, q.op.key, q.op.valid)  BY <1>1 DEF Begin
  <2> QED BY <2>1 DEF BeginCreate
<1>2. CASE q.op.do = "update"
  <2>1. BeginUpdate(r, q.op.id, q.op.key, q.op.valid)  BY <1>2 DEF Begin
  <2> QED BY <2>1 DEF BeginUpdate
<1>3. CASE q.op.do = "delete"
  <2>1. BeginDelete(r, q.op.id)  BY <1>3 DEF Begin
  <2> QED BY <2>1 DEF BeginDelete
<1>4. CASE q.op.do = "report"
  <2>1. BeginReport(r, q.op.range)  BY <1>4 DEF Begin
  <2> QED BY <2>1 DEF BeginReport
<1> QED BY <1>1, <1>2, <1>3, <1>4, GatewayAssumption
-----------------------------------------------------------------------------
(* The answer.                                                             *)

\* A handler ends with a status, or leaves it open.
LEMMA EndingsType ==
  ASSUME PlanInv, NEW r \in Reqs, NEW ending \in Endings(r) \cup {Ends(0, "none")}
  PROVE  ending.panic \in {"none", "bug", "brokenPipe"} /\ ending.status \in {0} \cup 200..599
<1>1. ContextStatus(r) \in {499, 504}  BY DEF ContextStatus
<1>2. job[r].result \in Results  BY DEF PlanInv, Shape, JobRec
<1>3. StatusOf(r) \in {200, 201, 400, 404, 500, 499, 504}
  <2>1. CASE job[r].result = "ok"  BY <2>1 DEF StatusOf
  <2>2. CASE job[r].result = "created"  BY <2>2 DEF StatusOf
  <2>3. CASE job[r].result = "invalid"  BY <2>3 DEF StatusOf
  <2>4. CASE job[r].result = "notFound"  BY <2>4 DEF StatusOf
  <2>5. CASE job[r].result = "failed"  BY <2>5 DEF StatusOf
  <2>6. CASE job[r].result = "cut"  BY <1>1, <2>6 DEF StatusOf
  <2> QED BY <1>2, <2>1, <2>2, <2>3, <2>4, <2>5, <2>6 DEF Results
<1>4. \E s \in {0, 200, 201, 400, 404, 413, 499, 500, 504}, p \in {"none", "bug", "brokenPipe"} :
        ending = Ends(s, p)
  <2>1. CASE req[r].op # NoOp  BY <1>3, <2>1 DEF Endings
  <2>2. CASE req[r].op = NoOp /\ req[r].size = "streamed"  BY <2>2 DEF Endings
  <2>3. CASE req[r].op = NoOp /\ req[r].size # "streamed"
    <3>1. \/ \E s \in {0, 200}, p \in {"none", "bug", "brokenPipe"} : ending = Ends(s, p)
          \/ ending \in {Ends(500, "none"), Ends(ContextStatus(r), "none"), Ends(0, "none")}
      BY <2>3 DEF Endings
    <3> QED BY <1>1, <3>1
  <2> QED BY <2>1, <2>2, <2>3
<1>5. \A s \in {0, 200, 201, 400, 404, 413, 499, 500, 504} : s \in {0} \cup 200..599
  OBVIOUS
<1> QED BY <1>4, <1>5 DEF Ends

\* The client gets the headers of the way down, and is counted as it is answered.
LEMMA AnswerIs ==
  ASSUME GatewayInv, NEW r \in Reqs, Answer(r)
  PROVE  /\ reply'[r].status \in 200..599 /\ Guarded(req[r], reply'[r].headers)
         /\ cfg.metrics /\ req[r].route # "metrics" => counted'[r] = reply'[r].status
<1>1. /\ at[r] \in {"handling", "rejected"} /\ trail[r] = Down(req[r], cfg)
      /\ at[r] = "handling" <=> trail[r].sent = NoReply
  BY DEF GatewayInv, Connected, Answer, Returned
<1>2. PICK h : h = trail[r].headers  OBVIOUS
<1>3. h \in SUBSET HeaderNames /\ Guarded(req[r], h)  BY <1>1, <1>2, GuardedDown
<1>4. PICK e : e = trail[r].entered  OBVIOUS
<1>5. e \in Seq(Middlewares) /\ trail[r].sent \in Sent(h)  BY <1>1, <1>2, <1>4, SentDown
<1>6. PICK ending \in Endings(r) \cup {Ends(0, "none")} :
        /\ reply' = [reply EXCEPT ![r] = IF Up(r, ending).sent = NoReply
                                         THEN Reply(200, trail[r].headers)
                                         ELSE Up(r, ending).sent]
        /\ counted' = [counted EXCEPT ![r] = Up(r, ending).counted]
  BY DEF Answer
<1>7. ending.panic \in {"none", "bug", "brokenPipe"} /\ ending.status \in {0} \cup 200..599
  BY EndingsType DEF GatewayInv
<1>8. [panic |-> ending.panic, sent |-> Written(r, ending), counted |-> 0] \in Under(h)
  <2>1. \A s \in 200..599 : Reply(s, h) \in Sent(h)  BY DEF Sent, Reply
  <2>2. NoReply \in Sent(h)  BY DEF Sent
  <2>3. Written(r, ending) \in Sent(h)
    <3>1. CASE trail[r].sent # NoReply  BY <1>5, <3>1 DEF Written
    <3>2. CASE trail[r].sent = NoReply /\ ending.status = 0  BY <2>2, <3>2 DEF Written
    <3>3. CASE trail[r].sent = NoReply /\ ending.status # 0
      <4>1. Written(r, ending) = Reply(ending.status, h)  BY <1>2, <3>3 DEF Written
      <4> QED BY <1>7, <2>1, <3>3, <4>1
    <3> QED BY <3>1, <3>2, <3>3
  <2>4. PICK w \in Sent(h) : w = Written(r, ending)  BY <2>3
  <2> QED BY <1>7, <2>4 DEF Under
<1>9. PICK n : n = Len(e)  OBVIOUS
<1>10. n \in Nat  BY <1>5, <1>9
<1>11. PICK up \in [0..n -> Under(h)] :
         /\ Up(r, ending) = up[n]
         /\ \A i \in 1..n : up[i] = Return(r, up[i - 1], e[n - i + 1])
  BY <1>2, <1>3, <1>4, <1>5, <1>8, <1>9, UpIs
<1>12. PICK u \in Under(h) : u = Up(r, ending)  BY <1>10, <1>11
<1>13. StatusSent(u) \in 200..599 /\ (u.sent # NoReply => u.sent.headers = h)
  BY <1>3, <1>12, StatusIs
<1>14. reply'[r].status = StatusSent(u) /\ reply'[r].headers = h /\ counted'[r] = u.counted
  <2>1. /\ reply'[r] = IF u.sent = NoReply THEN Reply(200, h) ELSE u.sent
        /\ counted'[r] = u.counted
    BY <1>2, <1>6, <1>12 DEF GatewayInv, GatewayShape
  <2>2. CASE u.sent = NoReply  BY <2>1, <2>2 DEF Reply, StatusSent
  <2>3. CASE u.sent # NoReply  BY <1>13, <2>1, <2>3 DEF StatusSent
  <2> QED BY <2>2, <2>3
<1>15. ASSUME cfg.metrics, req[r].route # "metrics" PROVE u.counted = StatusSent(u)
  <2>1. n >= 5 /\ e[1] = "RequestID" /\ e[2] = "HTTPMetrics" /\ e[5] = "Recovery"
    BY <1>1, <1>4, <1>9, <1>15, CountedDown
  <2>2. /\ n - 4 \in 1..n /\ n - 3 \in 1..n /\ n - 2 \in 1..n /\ n - 1 \in 1..n /\ n \in 1..n
        /\ n - 5 \in 0..n /\ n - 4 \in 0..n /\ n - 3 \in 0..n /\ n - 2 \in 0..n
        /\ n - 1 \in 0..n /\ n \in 0..n
        /\ n - 4 - 1 = n - 5 /\ n - 3 - 1 = n - 4 /\ n - 2 - 1 = n - 3 /\ n - 1 - 1 = n - 2
        /\ n - (n - 4) + 1 = 5 /\ n - (n - 3) + 1 = 4 /\ n - (n - 2) + 1 = 3
        /\ n - (n - 1) + 1 = 2 /\ n - n + 1 = 1
    BY <1>10, <2>1
  <2>3. /\ up[n - 4] = Return(r, up[n - 5], e[5]) /\ up[n - 3] = Return(r, up[n - 4], e[4])
        /\ up[n - 2] = Return(r, up[n - 3], e[3]) /\ up[n - 1] = Return(r, up[n - 2], e[2])
        /\ up[n] = Return(r, up[n - 1], e[1])
    BY <1>11, <2>2
  <2>4. /\ up[n - 5] \in Under(h) /\ up[n - 4] \in Under(h) /\ up[n - 3] \in Under(h)
        /\ up[n - 2] \in Under(h) /\ up[n - 1] \in Under(h)
    BY <1>11, <2>2
  <2>5. up[n - 4].panic = "none"  BY <1>2, <1>3, <2>1, <2>3, <2>4, ReturnIs
  <2>6. up[n - 3].panic = "none"  BY <1>2, <1>3, <2>3, <2>4, <2>5, ReturnIs
  <2>7. up[n - 2].panic = "none"  BY <1>2, <1>3, <2>3, <2>4, <2>6, ReturnIs
  <2>8. up[n - 1].counted = StatusSent(up[n - 2]) /\ StatusSent(up[n - 1]) = StatusSent(up[n - 2])
    BY <1>2, <1>3, <2>1, <2>3, <2>4, <2>7, ReturnIs
  <2>9. up[n] = up[n - 1]  BY <1>2, <1>3, <2>1, <2>3, <2>4, ReturnIs
  <2> QED BY <1>11, <1>12, <2>8, <2>9
<1> QED BY <1>3, <1>13, <1>14, <1>15

\* The steps of one connection leave the others alone.
LEMMA GatewayKeeps ==
  ASSUME GatewayInv, [Next]_vars
  PROVE  GatewayInv'
<1>1. PlanInv'  BY PlanKeeps DEF GatewayInv
<1> USE DEF GatewayInv
<1>2. CASE UNCHANGED vars
  <2>1. GatewayShape'  BY <1>2 DEF vars, bootVars, connVars, GatewayShape
  <2>2. ASSUME NEW r \in Reqs PROVE Connected(r)'
    BY <1>2, ConnectedSame DEF vars, bootVars, connVars, planVars
  <2> QED BY <1>1, <2>1, <2>2
<1>3. CASE Boot \/ Listen
  <2>1. /\ server \in {"off", "booted"} /\ server' \in {"refused", "panicked", "booted", "up"}
        /\ UNCHANGED <<connVars, planVars>>
    BY <1>3 DEF Boot, Listen
  <2>2. GatewayShape'  BY <2>1 DEF connVars, GatewayShape
  <2>3. ASSUME NEW r \in Reqs PROVE Connected(r)'
    <3>1. at[r] = "idle"  BY <2>1 DEF Connected, GatewayShape
    <3> QED BY <2>1, <3>1 DEF Connected, connVars, planVars
  <2> QED BY <1>1, <2>2, <2>3
<1>4. ASSUME NEW r \in Reqs, NEW q \in Visits \cup Operations, Arrive(r, q) PROVE GatewayInv'
  <2>1. PICK t : t = Down(q, cfg)  OBVIOUS
  <2>2. /\ server = "up" /\ at[r] = "idle" /\ req' = [req EXCEPT ![r] = q]
        /\ trail' = [trail EXCEPT ![r] = t]
        /\ at' = [at EXCEPT ![r] = IF t.sent = NoReply THEN "handling" ELSE "rejected"]
        /\ UNCHANGED <<bootVars, ctx, reply, counted>>
    BY <1>4, <2>1 DEF Arrive
  <2>3. pc[r] \in {"idle", "done"}  BY <2>2 DEF Connected
  <2>4. /\ \A o \in Reqs : o # r => pc'[o] = pc[o]
        /\ t.sent # NoReply => pc'[r] = pc[r]
    <3>1. CASE t.sent = NoReply /\ q.op # NoOp
      <4>1. Begin(r, q.op)  BY <1>4, <2>1, <3>1 DEF Arrive
      <4>2. q \in Operations  BY <3>1, GatewayAssumption
      <4> QED BY <3>1, <4>1, <4>2, BeginIs
    <3>2. CASE ~(t.sent = NoReply /\ q.op # NoOp)
      <4>1. UNCHANGED planVars  BY <1>4, <2>1, <3>2 DEF Arrive
      <4> QED BY <4>1 DEF planVars
    <3> QED BY <3>1, <3>2
  <2>5. GatewayShape'  BY <2>2 DEF GatewayShape, Phases, bootVars
  <2>6. /\ at'[r] = (IF t.sent = NoReply THEN "handling" ELSE "rejected")
        /\ req'[r] = q /\ trail'[r] = t
    BY <2>2 DEF GatewayShape
  <2>7. Connected(r)'
    <3>1. trail'[r] = Down(req'[r], cfg')  BY <2>1, <2>2, <2>6 DEF bootVars
    <3> QED BY <2>2, <2>3, <2>4, <2>6, <3>1 DEF Connected, bootVars
  <2>8. ASSUME NEW o \in Reqs, o # r PROVE Connected(o)'
    <3>1. /\ req'[o] = req[o] /\ at'[o] = at[o] /\ trail'[o] = trail[o] /\ reply'[o] = reply[o]
          /\ counted'[o] = counted[o] /\ pc'[o] = pc[o] /\ server' = server /\ cfg' = cfg
      BY <2>2, <2>4, <2>8 DEF GatewayShape, bootVars
    <3> QED BY <3>1, ConnectedSame
  <2> QED BY <1>1, <2>5, <2>7, <2>8
<1>5. ASSUME NEW r \in Reqs, Expire(r) PROVE GatewayInv'
  <2>1. /\ ctx' \in [Reqs -> {"live", "deadline", "gone"}]
        /\ UNCHANGED <<bootVars, req, at, trail, reply, counted, planVars>>
    BY <1>5 DEF Expire, Ways, GatewayShape
  <2>2. GatewayShape'  BY <2>1 DEF GatewayShape, bootVars
  <2>3. ASSUME NEW o \in Reqs PROVE Connected(o)'
    BY <2>1, ConnectedSame DEF bootVars, planVars
  <2> QED BY <1>1, <2>2, <2>3
<1>6. ASSUME NEW r \in Reqs, Handle(r) \/ Fail(r) PROVE GatewayInv'
  <2>1. UNCHANGED <<bootVars, connVars>>  BY <1>6 DEF Handle, Fail
  <2>2. /\ pc[r] \notin {"idle", "done"} \/ pc'[r] = "done"
        /\ \A o \in Reqs : o # r => pc'[o] = pc[o]
    <3>1. CASE Handle(r)  BY <3>1, StatementIs DEF Handle
    <3>2. CASE Fail(r)
      <4>1. pc' = [pc EXCEPT ![r] = "done"]
        BY <3>2 DEF Fail, Interrupt, LoseAnswer, End, Goto
      <4> QED BY <4>1 DEF PlanInv, Shape
    <3> QED BY <1>6, <3>1, <3>2
  <2>3. GatewayShape'  BY <2>1 DEF GatewayShape, bootVars, connVars
  <2>4. ASSUME NEW o \in Reqs PROVE Connected(o)'
    <3>1. /\ req'[o] = req[o] /\ at'[o] = at[o] /\ trail'[o] = trail[o] /\ reply'[o] = reply[o]
          /\ counted'[o] = counted[o] /\ server' = server /\ cfg' = cfg
      BY <2>1 DEF bootVars, connVars
    <3>2. pc'[o] \in {"idle", "done"} \/ pc[o] \notin {"idle", "done"}  BY <2>2
    <3> QED BY <3>1, <3>2, ConnectedSame
  <2> QED BY <1>1, <2>3, <2>4
<1>7. ASSUME NEW r \in Reqs, Answer(r) PROVE GatewayInv'
  <2>1. /\ Returned(r) /\ at' = [at EXCEPT ![r] = "answered"]
        /\ ctx' = [ctx EXCEPT ![r] = "live"] /\ DOMAIN trail' = DOMAIN trail
        /\ \A o \in Reqs : o # r => trail'[o] = trail[o]
        /\ UNCHANGED <<bootVars, req, planVars>>
    BY <1>7 DEF Answer, GatewayShape
  <2>2. /\ DOMAIN reply' = Reqs /\ DOMAIN counted' = Reqs
        /\ \A o \in Reqs : o # r => reply'[o] = reply[o] /\ counted'[o] = counted[o]
    BY <1>7 DEF Answer, GatewayShape
  <2>3. /\ reply'[r].status \in 200..599 /\ Guarded(req[r], reply'[r].headers)
        /\ cfg.metrics /\ req[r].route # "metrics" => counted'[r] = reply'[r].status
    BY <1>7, AnswerIs
  <2>4. GatewayShape'  BY <2>1, <2>2 DEF GatewayShape, Phases, bootVars
  <2>5. Connected(r)'
    <3>1. /\ at'[r] = "answered" /\ req'[r] = req[r] /\ cfg' = cfg /\ server' = server
          /\ pc'[r] = pc[r]
      BY <2>1 DEF GatewayShape, bootVars, planVars
    <3>2. server = "up" /\ req[r] \in Visits \cup Operations /\ pc[r] \in {"idle", "done"}
      BY <2>1 DEF Connected, Returned
    <3>3. Guarded(req'[r], reply'[r].headers)  BY <2>3, <3>1
    <3> QED BY <2>3, <3>1, <3>2, <3>3 DEF Connected
  <2>6. ASSUME NEW o \in Reqs, o # r PROVE Connected(o)'
    <3>1. /\ req'[o] = req[o] /\ at'[o] = at[o] /\ trail'[o] = trail[o] /\ reply'[o] = reply[o]
          /\ counted'[o] = counted[o] /\ pc'[o] = pc[o] /\ server' = server /\ cfg' = cfg
      BY <2>1, <2>2, <2>6 DEF GatewayShape, bootVars, planVars
    <3> QED BY <3>1, ConnectedSame
  <2> QED BY <1>1, <2>4, <2>5, <2>6
<1>8. ASSUME NEW r \in Reqs, Close(r) PROVE GatewayInv'
  <2>1. /\ at' = [at EXCEPT ![r] = "idle"] /\ req' = [req EXCEPT ![r] = NoReq]
        /\ reply' = [reply EXCEPT ![r] = NoReply] /\ counted' = [counted EXCEPT ![r] = 0]
        /\ pc' = [pc EXCEPT ![r] = "idle"] /\ UNCHANGED <<bootVars, ctx, trail>>
    BY <1>8 DEF Close
  <2>2. GatewayShape'  BY <2>1 DEF GatewayShape, Phases, bootVars
  <2>3. Connected(r)'
    <3>1. at'[r] = "idle" /\ pc'[r] = "idle"  BY <2>1 DEF GatewayShape, PlanInv, Shape
    <3> QED BY <3>1 DEF Connected
  <2>4. ASSUME NEW o \in Reqs, o # r PROVE Connected(o)'
    <3>1. /\ req'[o] = req[o] /\ at'[o] = at[o] /\ trail'[o] = trail[o] /\ reply'[o] = reply[o]
          /\ counted'[o] = counted[o] /\ pc'[o] = pc[o] /\ server' = server /\ cfg' = cfg
      BY <2>1, <2>4 DEF GatewayShape, bootVars, PlanInv, Shape
    <3> QED BY <3>1, ConnectedSame
  <2> QED BY <1>1, <2>2, <2>3, <2>4
<1>9. CASE LedgerMoves
  <2>1. UNCHANGED <<bootVars, connVars>> /\ pc' = pc
    BY <1>9 DEF LedgerMoves, CategoriesChange, FiguresChange, ChangeCategory, ChangeFigures
  <2>2. GatewayShape'  BY <2>1 DEF GatewayShape, bootVars, connVars
  <2>3. ASSUME NEW o \in Reqs PROVE Connected(o)'
    BY <2>1, ConnectedSame DEF bootVars, connVars
  <2> QED BY <1>1, <2>2, <2>3
<1> QED BY <1>2, <1>3, <1>4, <1>5, <1>6, <1>7, <1>8, <1>9 DEF Next

\* The invariant of the connections.
THEOREM GatewayInvariant == Spec => []GatewayInv
<1>1. Init => GatewayInv  BY GatewayInit
<1>2. GatewayInv /\ [Next]_vars => GatewayInv'  BY GatewayKeeps
<1> QED BY <1>1, <1>2, PTL DEF Spec

\* Every variable of the server has its type, and a statement of a handler runs only
\* while its request is handled.
THEOREM TypeCorrect == Spec => []TypeOK
<1>1. GatewayInv => TypeOK
  <2> SUFFICES ASSUME GatewayInv PROVE TypeOK
    OBVIOUS
  <2>1. PlanTypeOK
    <3>1. \A r \in Reqs : job[r].result \in Results
      BY DEF GatewayInv, PlanInv, Shape, JobRec
    <3>2. \A p \in Periods : snap[p] = NoRow \/ (snap[p].inc \in Nat /\ snap[p].exp \in Nat)
      BY DEF GatewayInv, PlanInv, Shape, Fig
    <3> QED BY <3>1, <3>2 DEF GatewayInv, PlanInv, Shape, PlanTypeOK
  <2> QED BY <2>1 DEF GatewayInv, GatewayShape, Phases, Connected, TypeOK
<1> QED BY <1>1, GatewayInvariant, PTL

\* Whoever answers a request, its answer has the headers that were promised.
THEOREM EveryAnswerGuardedHolds == Spec => []EveryAnswerGuarded
<1>1. GatewayInv => EveryAnswerGuarded
  BY DEF GatewayInv, Connected, Guarded, EveryAnswerGuarded
<1> QED BY <1>1, GatewayInvariant, PTL

\* A request is counted under the status its client gets, panics and timeouts included.
THEOREM CountedAsAnsweredHolds == Spec => []CountedAsAnswered
<1>1. GatewayInv => CountedAsAnswered
  BY DEF GatewayInv, Connected, CountedAsAnswered
<1> QED BY <1>1, GatewayInvariant, PTL

\* What passes offers a type its header wants; what is refused with 406 offers none
\* but what a weight that is no number hides.
THEOREM NegotiatedByWeightHolds == Spec => []NegotiatedByWeight
<1>1. GatewayInv => NegotiatedByWeight
  <2> SUFFICES ASSUME GatewayInv, NEW r \in Reqs
               PROVE  /\ /\ at[r] = "handling"
                         /\ req[r].route \in JsonRoutes \cup {"export"}
                         => Wants(req[r].accept, Offers(req[r]))
                      /\ at[r] = "rejected" /\ trail[r].sent.status = 406
                         => \A media \in Offers(req[r]) :
                              Wants(req[r].accept, {media}) => Shadowed(req[r].accept, media)
    BY DEF NegotiatedByWeight
  <2> SUFFICES ASSUME at[r] \in {"handling", "rejected"}
               PROVE  /\ /\ at[r] = "handling"
                         /\ req[r].route \in JsonRoutes \cup {"export"}
                         => Wants(req[r].accept, Offers(req[r]))
                      /\ at[r] = "rejected" /\ trail[r].sent.status = 406
                         => \A media \in Offers(req[r]) :
                              Wants(req[r].accept, {media}) => Shadowed(req[r].accept, media)
    OBVIOUS
  <2>1. /\ req[r] \in Visits \cup Operations /\ trail[r] = Down(req[r], cfg)
        /\ at[r] = "handling" <=> trail[r].sent = NoReply
    BY DEF GatewayInv, Connected
  <2>2. \E S : req[r].accept \in Seq(S)  BY <2>1, GatewayAssumption
  <2>3. Negotiated(req[r], trail[r].sent)  BY <2>1, <2>2, NegotiatedDown
  <2> QED BY <2>1, <2>3 DEF Negotiated
<1> QED BY <1>1, GatewayInvariant, PTL

=============================================================================
