------------------------------- MODULE Import -------------------------------
(***************************************************************************)
(* Imports of one user (modules/dataio/service.go): a file uploaded to     *)
(* POST /io/import, whose handler imports it, or to POST /io/import/jobs,  *)
(* whose handler stores a job and leaves the import to a goroutine.        *)
(*                                                                         *)
(* A record is what identifies a transaction to hasExistingDuplicate; Key  *)
(* is its duplicateKey within a file, which folds the case of the names    *)
(* and may be the same for two records; Name is the category and account   *)
(* it is filed under, found by name or created.  Blank rows are ignored by *)
(* the code throughout and left out.  Balances are the subject of Ledger.  *)
(***************************************************************************)
EXTENDS Naturals, Sequences

CONSTANTS
  Uploads,     \* uploads, each of them one request
  Recs,        \* records a row may hold
  Bad,         \* a row that parseImportRecord refuses
  Key, Name,   \* functions of Recs
  InitNames,   \* names that exist at the start
  Files,       \* files clients upload: sequences of Recs and Bad
  Options,     \* values of skipDuplicates clients send
  Faults,      \* whether statements may fail and the process stop
  None

Rows == Recs \cup {Bad}
Names == {Name[x] : x \in Recs}
Owner == "user"          \* who created the names that exist at the start

ASSUME ImportAssumption ==
  /\ Bad \notin Recs /\ DOMAIN Key = Recs /\ DOMAIN Name = Recs
  /\ InitNames \subseteq Names /\ Files \subseteq Seq(Rows) \ {<< >>}
  /\ Options \subseteq BOOLEAN /\ Faults \in BOOLEAN
  /\ Owner \notin Uploads

VARIABLES
  stored,   \* transactions table: [rec, parent, by]
  parents,  \* categories and accounts: [name, id, by]
  nextId,   \* sequence of their ids
  job,      \* row of import_jobs of each upload, or None
  pc,       \* where the goroutine of each upload is
  up,       \* its request: [file, skip], or None
  next,     \* the row it looks at next, later the record it resolves next
  seen,     \* keys of the records it has accepted
  recs,     \* the records it has accepted
  filed,    \* per record, the parent it found or created
  made,     \* parents it has created and not committed
  res,      \* counters: [success, failed, skipped]
  before,   \* history: uploads that had ended when it began
  lost,     \* history: jobs whose row could not be brought up to date
  unsure,   \* history: uploads a duplicate query of which failed
  unheard   \* history: uploads whose COMMIT took effect and was not answered

local == <<up, next, seen, recs, filed, made, res>>
history == <<before, lost, unsure, unheard>>
vars == <<stored, parents, nextId, job, pc, local, history>>

NoCount == [success |-> 0, failed |-> 0, skipped |-> 0]
JobRow(status, total, counts) ==
  [status |-> status, total |-> total,
   success |-> counts.success, failed |-> counts.failed, skipped |-> counts.skipped]

Init ==
  /\ stored = {}
  /\ parents = {[name |-> n, id |-> 0, by |-> Owner] : n \in InitNames}
  /\ nextId = 1
  /\ job = [i \in Uploads |-> None]
  /\ pc = [i \in Uploads |-> "new"]
  /\ up = [i \in Uploads |-> None]
  /\ next = [i \in Uploads |-> 1]
  /\ seen = [i \in Uploads |-> {}]
  /\ recs = [i \in Uploads |-> << >>]
  /\ filed = [i \in Uploads |-> << >>]
  /\ made = [i \in Uploads |-> {}]
  /\ res = [i \in Uploads |-> NoCount]
  /\ before = [i \in Uploads |-> {}]
  /\ lost = {}
  /\ unsure = {}
  /\ unheard = {}

Ended(i) == pc[i] = "done"
Goto(i, label) == pc' = [pc EXCEPT ![i] = label]
Count(i, field) == res' = [res EXCEPT ![i][field] = @ + 1]

-----------------------------------------------------------------------------
\* importData (ImportWithOptions, ImportText): the request does the import.
Upload(i) ==
  /\ pc[i] = "new"
  /\ \E f \in Files, s \in Options : up' = [up EXCEPT ![i] = [file |-> f, skip |-> s]]
  /\ before' = [before EXCEPT ![i] = {j \in Uploads : Ended(j)}]
  /\ Goto(i, "scan")
  /\ UNCHANGED <<stored, parents, nextId, job, next, seen, recs, filed, made, res, lost, unsure, unheard>>

\* StartImportJob: the job row is created, then the goroutine is started.
StartImportJob(i) ==
  /\ pc[i] = "new"
  /\ \E f \in Files, s \in Options :
       /\ up' = [up EXCEPT ![i] = [file |-> f, skip |-> s]]
       /\ job' = [job EXCEPT ![i] = JobRow("queued", Len(f), NoCount)]
  /\ before' = [before EXCEPT ![i] = {j \in Uploads : Ended(j)}]
  /\ Goto(i, "queued")
  /\ UNCHANGED <<stored, parents, nextId, next, seen, recs, filed, made, res, lost, unsure, unheard>>

\* updateImportJob; the error of the UPDATE is dropped.
UpdateImportJob(i, status, counts) ==
  job' = [job EXCEPT ![i] = JobRow(status, @.total, counts)]

MarkRunning(i) ==
  /\ pc[i] = "queued"
  /\ \/ UpdateImportJob(i, "running", NoCount)
     \/ Faults /\ UNCHANGED job
  /\ Goto(i, "scan")
  /\ UNCHANGED <<stored, parents, nextId, local, history>>

-----------------------------------------------------------------------------
(* ImportRowsWithOptions, the first loop.                                  *)

\* First of the parents called n that r can see: ORDER BY id LIMIT 1.
Called(n, P) == {p \in P : p.name = n}
First(n, P) == CHOOSE p \in Called(n, P) : \A q \in Called(n, P) : p.id <= q.id

\* hasExistingDuplicate
Exists(x) ==
  /\ Called(Name[x], parents) # {}
  /\ \E t \in stored : t.rec = x /\ t.parent = First(Name[x], parents).id

Row(i) == up[i].file[next[i]]
Scanning(i) == pc[i] = "scan" /\ next[i] <= Len(up[i].file)

ScanBad(i) ==
  /\ Scanning(i) /\ Row(i) = Bad
  /\ Count(i, "failed")
  /\ next' = [next EXCEPT ![i] = @ + 1]
  /\ UNCHANGED <<stored, parents, nextId, job, pc, up, seen, recs, filed, made, history>>

\* A duplicate, in the file or in the ledger; its key does not enter seen.
Skip(i) ==
  /\ Scanning(i) /\ Row(i) # Bad /\ up[i].skip
  /\ Key[Row(i)] \in seen[i] \/ Exists(Row(i))
  /\ Count(i, "skipped")
  /\ next' = [next EXCEPT ![i] = @ + 1]
  /\ UNCHANGED <<stored, parents, nextId, job, pc, up, seen, recs, filed, made, history>>

\* Faulty variant: the ledger is not asked.
AcceptUnasked(i) ==
  /\ Scanning(i) /\ Row(i) # Bad
  /\ up[i].skip => Key[Row(i)] \notin seen[i]
  /\ seen' = [seen EXCEPT ![i] = @ \cup {Key[Row(i)]}]
  /\ recs' = [recs EXCEPT ![i] = Append(@, Row(i))]
  /\ next' = [next EXCEPT ![i] = @ + 1]
  /\ UNCHANGED <<stored, parents, nextId, job, pc, up, filed, made, res, history>>

\* A query that fails counts as no duplicate.
Accept(i) ==
  /\ Scanning(i) /\ Row(i) # Bad
  /\ up[i].skip => Key[Row(i)] \notin seen[i]
  /\ \/ (up[i].skip => ~Exists(Row(i))) /\ UNCHANGED unsure
     \/ Faults /\ Exists(Row(i)) /\ unsure' = unsure \cup {i}
  /\ seen' = [seen EXCEPT ![i] = @ \cup {Key[Row(i)]}]
  /\ recs' = [recs EXCEPT ![i] = Append(@, Row(i))]
  /\ next' = [next EXCEPT ![i] = @ + 1]
  /\ UNCHANGED <<stored, parents, nextId, job, pc, up, filed, made, res, before, lost, unheard>>

\* After the loop: a transaction, when there is something to write in it.
EndScan(i) ==
  /\ pc[i] = "scan" /\ next[i] > Len(up[i].file)
  /\ next' = [next EXCEPT ![i] = 1]
  /\ Goto(i, IF recs[i] # << >> THEN "resolve" ELSE "report")
  /\ UNCHANGED <<stored, parents, nextId, job, up, seen, recs, filed, made, res, history>>

-----------------------------------------------------------------------------
(* Its transaction.                                                        *)

\* Faulty variant: the name is created without looking for it.
ResolveCreates(i) ==
  /\ pc[i] = "resolve" /\ next[i] <= Len(recs[i])
  /\ filed' = [filed EXCEPT ![i] = Append(@, nextId)]
  /\ made' = [made EXCEPT ![i] = @ \cup {[name |-> Name[recs[i][next[i]]], id |-> nextId, by |-> i]}]
  /\ nextId' = nextId + 1
  /\ next' = [next EXCEPT ![i] = @ + 1]
  /\ UNCHANGED <<stored, parents, job, pc, up, seen, recs, res, history>>

\* FindOrCreate*WithDB for the next record.  Nothing makes a name unique.
Resolve(i) ==
  /\ pc[i] = "resolve" /\ next[i] <= Len(recs[i])
  /\ LET n == Name[recs[i][next[i]]]
         found == Called(n, parents \cup made[i])
     IN IF found # {}
        THEN /\ filed' = [filed EXCEPT ![i] = Append(@, First(n, found).id)]
             /\ UNCHANGED <<nextId, made>>
        ELSE /\ filed' = [filed EXCEPT ![i] = Append(@, nextId)]
             /\ made' = [made EXCEPT ![i] = @ \cup {[name |-> n, id |-> nextId, by |-> i]}]
             /\ nextId' = nextId + 1
  /\ next' = [next EXCEPT ![i] = @ + 1]
  /\ UNCHANGED <<stored, parents, job, pc, up, seen, recs, res, history>>

Drop(i) ==
  /\ next' = [next EXCEPT ![i] = 1]
  /\ seen' = [seen EXCEPT ![i] = {}]
  /\ recs' = [recs EXCEPT ![i] = << >>]
  /\ filed' = [filed EXCEPT ![i] = << >>]
  /\ made' = [made EXCEPT ![i] = {}]

\* Faulty variant: what the transaction created is not part of it.
CommitOrphans(i) ==
  /\ pc[i] = "resolve" /\ next[i] > Len(recs[i])
  /\ stored' = stored \cup {[rec |-> recs[i][k], parent |-> filed[i][k], by |-> i] : k \in DOMAIN recs[i]}
  /\ res' = [res EXCEPT ![i].success = Len(recs[i])]
  /\ Goto(i, "report")
  /\ Drop(i)
  /\ UNCHANGED <<parents, nextId, job, up, history>>

\* CreateManyWithDB and a COMMIT that takes effect.
Install(i) ==
  /\ pc[i] = "resolve" /\ next[i] > Len(recs[i])
  /\ stored' = stored \cup {[rec |-> recs[i][k], parent |-> filed[i][k], by |-> i] : k \in DOMAIN recs[i]}
  /\ parents' = parents \cup made[i]
  /\ Goto(i, "report")
  /\ Drop(i)
  /\ UNCHANGED <<nextId, job, up, before, lost, unsure>>

Commit(i) ==
  /\ Install(i)
  /\ res' = [res EXCEPT ![i].success = Len(recs[i])]
  /\ UNCHANGED unheard

\* The answer of the COMMIT is lost: an error for the code, which counts the
\* batch as failed.
LoseCommit(i) ==
  /\ Faults
  /\ Install(i)
  /\ res' = [res EXCEPT ![i].failed = @ + Len(recs[i])]
  /\ unheard' = unheard \cup {i}

\* Faulty variant: success is counted before the transaction has ended.
FailBatchCounted(i) ==
  /\ Faults /\ pc[i] = "resolve"
  /\ res' = [res EXCEPT ![i].success = Len(recs[i])]
  /\ Goto(i, "report")
  /\ Drop(i)
  /\ UNCHANGED <<stored, parents, nextId, job, up, history>>

\* A statement of the transaction fails, or its COMMIT without taking effect:
\* every record of the batch has failed.
FailBatch(i) ==
  /\ Faults /\ pc[i] = "resolve"
  /\ res' = [res EXCEPT ![i].failed = @ + Len(recs[i])]
  /\ Goto(i, "report")
  /\ Drop(i)
  /\ UNCHANGED <<stored, parents, nextId, job, up, history>>

-----------------------------------------------------------------------------
\* The result: the reply of a request, the row of a job.
Report(i) ==
  /\ pc[i] = "report"
  /\ IF job[i] = None
     THEN UNCHANGED <<job, lost>>
     ELSE \/ /\ UpdateImportJob(i, IF res[i].failed > 0 THEN "failed" ELSE "completed", res[i])
             /\ UNCHANGED lost
          \/ Faults /\ UNCHANGED job /\ lost' = lost \cup {i}
  /\ Goto(i, "done")
  /\ res' = [res EXCEPT ![i] = NoCount]
  /\ Drop(i)
  /\ UNCHANGED <<stored, parents, nextId, up, before, unsure, unheard>>

\* The process stops, with everything that runs in it; nothing takes up the
\* jobs it leaves.
Crash ==
  /\ Faults
  /\ LET running == {i \in Uploads : pc[i] \notin {"new", "done"}} IN
       /\ running # {}
       /\ pc' = [i \in Uploads |-> IF i \in running THEN "done" ELSE pc[i]]
       /\ next' = [i \in Uploads |-> 1]
       /\ seen' = [i \in Uploads |-> {}]
       /\ recs' = [i \in Uploads |-> << >>]
       /\ filed' = [i \in Uploads |-> << >>]
       /\ made' = [i \in Uploads |-> {}]
       /\ res' = [i \in Uploads |-> NoCount]
       /\ lost' = lost \cup {i \in running : job[i] # None}
  /\ UNCHANGED <<stored, parents, nextId, job, up, before, unsure, unheard>>

\* All uploads have been made.
Quiet == (\A i \in Uploads : Ended(i)) /\ UNCHANGED vars

Next ==
  \/ \E i \in Uploads :
       \/ Upload(i) \/ StartImportJob(i) \/ MarkRunning(i)
       \/ ScanBad(i) \/ Skip(i) \/ Accept(i) \/ EndScan(i)
       \/ Resolve(i) \/ Commit(i) \/ LoseCommit(i) \/ FailBatch(i) \/ Report(i)
  \/ Crash
  \/ Quiet

Spec == Init /\ [][Next]_vars

-----------------------------------------------------------------------------
(* Properties.                                                             *)

\* Types: ids come from the sequence, the counters are those of the rows.
TypeOK ==
  /\ \A t \in stored : t.rec \in Recs /\ t.by \in Uploads /\ \E p \in parents : p.id = t.parent
  /\ \A p \in parents : p.name \in Names /\ p.id < nextId
  /\ \A i \in Uploads : job[i] # None =>
       /\ job[i].status \in {"queued", "running", "completed", "failed"}
       /\ job[i].total = Len(up[i].file)
  /\ \A i \in Uploads : up[i] # None => up[i].file \in Files /\ up[i].skip \in BOOLEAN
  /\ res \in [Uploads -> [success : Nat, failed : Nat, skipped : Nat]]
  /\ \A i \in Uploads : next[i] \in Nat \ {0} /\ Len(filed[i]) <= Len(recs[i])

StoredBy(i) == {t \in stored : t.by = i}

\* The row of a job that ended tells what is in the ledger: every row of the
\* file is counted once, a success only with rows in the ledger, and rows of a
\* batch counted as failed are there only when the answer of its COMMIT was
\* lost.  Only a job whose last UPDATE was lost, or whose process stopped, keeps
\* an older row (service.go:168-202, 252-285).
JobTellsTheLedger ==
  \A i \in Uploads : Ended(i) /\ job[i] # None /\ i \notin lost =>
    /\ job[i].status = IF job[i].failed > 0 THEN "failed" ELSE "completed"
    /\ job[i].success + job[i].failed + job[i].skipped = job[i].total
    /\ IF i \in unheard THEN job[i].success = 0 /\ StoredBy(i) # {}
       ELSE job[i].success = 0 <=> StoredBy(i) = {}

\* Two uploads that are not under way together create no name twice, although
\* no index keeps names unique (store/store.go:280-339).
TwinsNeedOverlap ==
  \A p, q \in parents :
    p # q /\ p.name = q.name => p.by \notin before[q.by] /\ q.by \notin before[p.by]

Twin(n) == \E p, q \in Called(n, parents) : p # q

\* A record the ledger holds is not recorded again by an upload that begins
\* later and skips duplicates - unless its duplicate query failed, or the name
\* it is filed under exists twice: a crashed or repeated import may be retried
\* (service.go:235-246 and 310).
RetryRecordsNothingTwice ==
  \A t, u \in stored :
    t.rec = u.rec /\ t.by \in before[u.by] /\ up[u.by].skip /\ u.by \notin unsure
      => Twin(Name[t.rec])

\* "多次上传同一文件也不重复记账": whoever uploads a file again, with duplicates
\* skipped, records none of it a second time (service.go:310).
SameFileRecordedOnce ==
  \A t, u \in stored :
    t.by # u.by /\ up[t.by].file = up[u.by].file /\ up[t.by].skip /\ up[u.by].skip
      => t.rec # u.rec

=============================================================================
