---------------------------- MODULE ImportProofs ----------------------------
(***************************************************************************)
(* Proofs about Import: the row of a job tells what the ledger holds, no   *)
(* two uploads create a name twice unless they overlap, and a retry        *)
(* records nothing twice, for any number of uploads, any files, keys and   *)
(* names, whatever fails.                                                  *)
(***************************************************************************)
EXTENDS Import, WellFoundedInduction, TLAPS

PCs == {"new", "queued", "scan", "resolve", "report", "done"}
Counts == [success : Nat, failed : Nat, skipped : Nat]
Parent == [name : Names, id : Nat, by : Uploads \cup {Owner}]
Stored == [rec : Recs, parent : Nat, by : Uploads]

Shape ==
  /\ pc \in [Uploads -> PCs]
  /\ next \in [Uploads -> Nat \ {0}]
  /\ recs \in [Uploads -> Seq(Recs)]
  /\ filed \in [Uploads -> Seq(Nat)]
  /\ res \in [Uploads -> Counts]
  /\ before \in [Uploads -> SUBSET Uploads]
  /\ made \in [Uploads -> SUBSET Parent]
  /\ parents \subseteq Parent /\ stored \subseteq Stored
  /\ nextId \in Nat \ {0}
  /\ DOMAIN job = Uploads /\ DOMAIN up = Uploads

\* What has been counted where the goroutine of an upload is.
Phase(i) ==
  /\ pc[i] = "new" => job[i] = None /\ up[i] = None
  /\ pc[i] # "new" => up[i].file \in Files /\ up[i].skip \in BOOLEAN
  /\ pc[i] \in {"new", "queued"} =>
       /\ next[i] = 1
       /\ res[i].success = 0 /\ res[i].failed = 0 /\ res[i].skipped = 0
  /\ pc[i] = "queued" => job[i].total = Len(up[i].file)
  /\ pc[i] = "scan" =>
       /\ next[i] <= Len(up[i].file) + 1 /\ res[i].success = 0
       /\ res[i].failed + res[i].skipped + Len(recs[i]) = next[i] - 1
  /\ pc[i] = "resolve" =>
       /\ next[i] <= Len(recs[i]) + 1 /\ Len(filed[i]) = next[i] - 1
       /\ recs[i] # << >> /\ res[i].success = 0
       /\ res[i].failed + res[i].skipped + Len(recs[i]) = Len(up[i].file)
  /\ pc[i] = "report" =>
       /\ res[i].success + res[i].failed + res[i].skipped = Len(up[i].file)
       /\ IF i \in unheard THEN res[i].success = 0 /\ StoredBy(i) # {}
          ELSE res[i].success = 0 <=> StoredBy(i) = {}
  /\ pc[i] \notin {"scan", "resolve"} => recs[i] = << >>
  /\ pc[i] # "resolve" => filed[i] = << >> /\ made[i] = {}
  /\ pc[i] \in {"new", "queued", "scan", "resolve"} => StoredBy(i) = {} /\ i \notin unheard

\* The row of a job counts every row of the file.
Rowed(i) ==
  job[i] # None =>
    /\ job[i].status \in {"queued", "running", "completed", "failed"}
    /\ job[i].total = Len(up[i].file)

\* An upload that had ended when another began has ended.
EndedBefore == \A i \in Uploads : i \notin before[i] /\ \A j \in before[i] : Ended(j)

\* Ids come from the sequence.
Sequenced ==
  /\ \A p \in parents : p.id < nextId
  /\ \A i \in Uploads : \A p \in made[i] : p.id < nextId

\* What an upload creates is there when its transaction has ended.
CommittedBy == \A p \in parents : p.by \in Uploads => pc[p.by] \in {"report", "done"}

\* A record is filed under a parent of its name.
Filed ==
  /\ \A t \in stored : \E p \in parents : p.id = t.parent /\ p.name = Name[t.rec]
  /\ \A i \in Uploads : \A k \in 1..Len(filed[i]) :
       \E p \in parents \cup made[i] : p.id = filed[i][k] /\ p.name = Name[recs[i][k]]

\* What an upload is about to create was there neither when it began nor twice.
MadeOnce ==
  \A i \in Uploads : \A p \in made[i] :
    /\ p.by = i
    /\ \A q \in made[i] : q.name = p.name => q = p
    /\ \A q \in parents : q.name = p.name => q.by \in Uploads \ {i} /\ q.by \notin before[i]
TwinsByUploads == \A p, q \in parents : p # q /\ p.name = q.name => p.by \in Uploads

\* What an upload has accepted is not in the ledger of the uploads before it.
AcceptedIsNew ==
  \A i \in Uploads : pc[i] # "new" /\ up[i].skip /\ i \notin unsure =>
    \A k \in 1..Len(recs[i]) : \A t \in stored :
      t.rec = recs[i][k] /\ t.by \in before[i] => Twin(Name[t.rec])

ImportInv ==
  /\ Shape /\ (\A i \in Uploads : Phase(i) /\ Rowed(i))
  /\ EndedBefore /\ Sequenced /\ CommittedBy /\ Filed /\ MadeOnce /\ TwinsByUploads
  /\ AcceptedIsNew /\ JobTellsTheLedger /\ TwinsNeedOverlap /\ RetryRecordsNothingTwice

-----------------------------------------------------------------------------
(* What each step does to the upload that takes it.                        *)

\* The other uploads stay where they are.
Others(i) ==
  \A j \in Uploads \ {i} :
    /\ pc'[j] = pc[j] /\ job'[j] = job[j] /\ up'[j] = up[j] /\ next'[j] = next[j]
    /\ recs'[j] = recs[j] /\ filed'[j] = filed[j] /\ made'[j] = made[j]
    /\ res'[j] = res[j] /\ before'[j] = before[j] /\ (j \in unheard' <=> j \in unheard)

\* The tables that only a commit changes, and the counter of ids.
Tables == <<stored, parents>>

\* The parts of an upload that a step leaves alone.
Kept(i) == up'[i] = up[i] /\ before'[i] = before[i]

\* A file has rows.
LEMMA FileLengths == \A f \in Files : Len(f) \in Nat
BY ImportAssumption

\* A request imports, or creates a job: either way the upload begins.
LEMMA BeginLeads ==
  ASSUME Shape, NEW i \in Uploads, Upload(i) \/ StartImportJob(i)
  PROVE  /\ Shape' /\ Others(i) /\ UNCHANGED <<Tables, nextId, unsure, unheard>>
         /\ pc[i] = "new" /\ pc'[i] \in {"scan", "queued"}
         /\ next'[i] = next[i] /\ recs'[i] = recs[i] /\ filed'[i] = filed[i]
         /\ made'[i] = made[i] /\ res'[i] = res[i]
         /\ before'[i] = {j \in Uploads : Ended(j)}
         /\ up'[i].file \in Files /\ up'[i].skip \in BOOLEAN
         /\ pc'[i] = "scan" => job'[i] = job[i]
         /\ pc'[i] = "queued" =>
              job'[i].status = "queued" /\ job'[i].total = Len(up'[i].file)
<1>1. PICK f \in Files, s \in Options :
        /\ up' = [up EXCEPT ![i] = [file |-> f, skip |-> s]]
        /\ \/ job' = job /\ pc' = [pc EXCEPT ![i] = "scan"]
           \/ /\ job' = [job EXCEPT ![i] = JobRow("queued", Len(f), NoCount)]
              /\ pc' = [pc EXCEPT ![i] = "queued"]
  BY DEF Upload, StartImportJob, Goto
<1>2. /\ before' = [before EXCEPT ![i] = {j \in Uploads : Ended(j)}] /\ pc[i] = "new"
      /\ UNCHANGED <<stored, parents, nextId, next, recs, filed, made, res, unsure, unheard>>
  BY DEF Upload, StartImportJob
<1>3. s \in BOOLEAN  BY ImportAssumption
<1>4. DOMAIN up = Uploads /\ DOMAIN job = Uploads /\ pc \in [Uploads -> PCs]
      /\ before \in [Uploads -> SUBSET Uploads]
  BY DEF Shape
<1>5. /\ up'[i].file = f /\ up'[i].skip = s /\ DOMAIN up' = Uploads
      /\ \A j \in Uploads \ {i} : up'[j] = up[j]
  BY <1>1, <1>4
<1>6. /\ DOMAIN job' = Uploads /\ \A j \in Uploads \ {i} : job'[j] = job[j]
      /\ pc' \in [Uploads -> PCs] /\ pc'[i] \in {"scan", "queued"}
      /\ \A j \in Uploads \ {i} : pc'[j] = pc[j]
      /\ pc'[i] = "scan" => job'[i] = job[i]
      /\ pc'[i] = "queued" => job'[i].status = "queued" /\ job'[i].total = Len(f)
  BY <1>1, <1>4 DEF JobRow, PCs
<1>7. /\ before' \in [Uploads -> SUBSET Uploads] /\ before'[i] = {j \in Uploads : Ended(j)}
      /\ \A j \in Uploads \ {i} : before'[j] = before[j]
  BY <1>2, <1>4
<1> QED BY <1>2, <1>3, <1>5, <1>6, <1>7 DEF Shape, Others, Tables

\* The goroutine of a job begins.
LEMMA RunningLeads ==
  ASSUME Shape, NEW i \in Uploads, MarkRunning(i)
  PROVE  /\ Shape' /\ Others(i) /\ Kept(i) /\ UNCHANGED <<Tables, nextId, unsure, unheard>>
         /\ pc[i] = "queued" /\ pc'[i] = "scan"
         /\ next'[i] = next[i] /\ recs'[i] = recs[i] /\ filed'[i] = filed[i]
         /\ made'[i] = made[i] /\ res'[i] = res[i]
         /\ \/ job'[i] = job[i]
            \/ job'[i].status = "running" /\ job'[i].total = job[i].total
<1>1. /\ pc' = [pc EXCEPT ![i] = "scan"] /\ pc[i] = "queued"
      /\ UNCHANGED <<stored, parents, nextId, up, next, recs, filed, made, res, before, unsure, unheard>>
      /\ \/ job' = job \/ job' = [job EXCEPT ![i] = JobRow("running", job[i].total, NoCount)]
  BY Zenon DEF MarkRunning, UpdateImportJob, Goto, local, history, Shape
<1> QED BY <1>1 DEF Shape, Others, Kept, Tables, PCs, JobRow

\* A row that cannot be read has failed, a duplicate is skipped.
LEMMA CountLeads ==
  ASSUME Shape, NEW i \in Uploads, ScanBad(i) \/ Skip(i)
  PROVE  /\ Shape' /\ Others(i) /\ Kept(i) /\ UNCHANGED <<Tables, nextId, unsure, unheard>>
         /\ pc[i] = "scan" /\ next[i] <= Len(up[i].file) /\ pc'[i] = "scan"
         /\ next'[i] = next[i] + 1 /\ recs'[i] = recs[i] /\ filed'[i] = filed[i]
         /\ made'[i] = made[i] /\ job'[i] = job[i]
         /\ res'[i].success = res[i].success
         /\ res'[i].failed + res'[i].skipped = res[i].failed + res[i].skipped + 1
<1>1. /\ pc[i] = "scan" /\ next[i] <= Len(up[i].file)
      /\ next' = [next EXCEPT ![i] = next[i] + 1]
      /\ UNCHANGED <<stored, parents, nextId, job, pc, up, recs, filed, made, before, unsure, unheard>>
      /\ \/ res' = [res EXCEPT ![i] = [res[i] EXCEPT !.failed = res[i].failed + 1]]
         \/ res' = [res EXCEPT ![i] = [res[i] EXCEPT !.skipped = res[i].skipped + 1]]
  BY Zenon DEF ScanBad, Skip, Scanning, Count, history, Shape
<1> DEFINE f == [res[i] EXCEPT !.failed = res[i].failed + 1]
           s == [res[i] EXCEPT !.skipped = res[i].skipped + 1]
           More(c) == /\ c \in Counts /\ c.success = res[i].success
                      /\ c.failed + c.skipped = res[i].failed + res[i].skipped + 1
<1>2. res[i] \in Counts  BY DEF Shape
<1>3. More(f) /\ More(s)  BY <1>2 DEF Counts
<1>4. res' = [res EXCEPT ![i] = f] \/ res' = [res EXCEPT ![i] = s]  BY <1>1
<1> HIDE DEF f, s
<1>5. /\ res' \in [Uploads -> Counts] /\ \A j \in Uploads \ {i} : res'[j] = res[j]
      /\ res'[i] = f \/ res'[i] = s
  BY <1>3, <1>4 DEF Shape
<1>6. More(res'[i])  BY <1>3, <1>5
<1>7. /\ next' \in [Uploads -> Nat \ {0}] /\ next'[i] = next[i] + 1
      /\ \A j \in Uploads \ {i} : next'[j] = next[j]
  BY <1>1 DEF Shape
<1> QED BY <1>1, <1>5, <1>6, <1>7 DEF Shape, Others, Kept, Tables

\* A row is accepted.
LEMMA AcceptLeads ==
  ASSUME Shape, NEW i \in Uploads, Accept(i), up[i].file \in Files
  PROVE  /\ Shape' /\ Others(i) /\ Kept(i) /\ UNCHANGED <<Tables, nextId, unheard>>
         /\ pc[i] = "scan" /\ next[i] <= Len(up[i].file) /\ pc'[i] = "scan"
         /\ next'[i] = next[i] + 1 /\ filed'[i] = filed[i]
         /\ made'[i] = made[i] /\ job'[i] = job[i] /\ res'[i] = res[i]
         /\ Row(i) \in Recs /\ Len(recs'[i]) = Len(recs[i]) + 1
         /\ recs'[i][Len(recs[i]) + 1] = Row(i)
         /\ \A k \in 1..Len(recs[i]) : recs'[i][k] = recs[i][k]
         /\ unsure \subseteq unsure' /\ unsure' \subseteq unsure \cup {i}
         /\ up[i].skip => ~Exists(Row(i)) \/ i \in unsure'
<1>1. /\ pc[i] = "scan" /\ next[i] <= Len(up[i].file) /\ Row(i) # Bad
      /\ next' = [next EXCEPT ![i] = next[i] + 1]
      /\ recs' = [recs EXCEPT ![i] = Append(recs[i], Row(i))]
      /\ UNCHANGED <<stored, parents, nextId, job, pc, up, filed, made, res, before, unheard>>
      /\ unsure \subseteq unsure' /\ unsure' \subseteq unsure \cup {i}
      /\ up[i].skip => ~Exists(Row(i)) \/ i \in unsure'
  BY DEF Accept, Scanning, Shape
<1>2. next[i] \in Nat \ {0} /\ recs[i] \in Seq(Recs)  BY DEF Shape
<1>3. Row(i) \in Recs
  <2>1. up[i].file \in Seq(Rows)  BY ImportAssumption
  <2>2. next[i] \in 1..Len(up[i].file)  BY <1>1, <1>2, <2>1
  <2>3. Row(i) \in Rows  BY <2>1, <2>2 DEF Row
  <2> QED BY <1>1, <2>3 DEF Rows
<1> DEFINE s == Append(recs[i], Row(i))
<1>4. /\ s \in Seq(Recs) /\ Len(s) = Len(recs[i]) + 1 /\ s[Len(recs[i]) + 1] = Row(i)
      /\ \A k \in 1..Len(recs[i]) : s[k] = recs[i][k]
  BY <1>2, <1>3
<1>5. recs' = [recs EXCEPT ![i] = s]  BY <1>1
<1> HIDE DEF s
<1>6. /\ recs' \in [Uploads -> Seq(Recs)] /\ recs'[i] = s
      /\ \A j \in Uploads \ {i} : recs'[j] = recs[j]
  BY <1>4, <1>5 DEF Shape
<1>7. /\ next' \in [Uploads -> Nat \ {0}] /\ next'[i] = next[i] + 1
      /\ \A j \in Uploads \ {i} : next'[j] = next[j]
  BY <1>1 DEF Shape
<1> QED BY <1>1, <1>3, <1>4, <1>6, <1>7 DEF Shape, Others, Kept, Tables

\* The loop over the rows ends.
LEMMA EndScanLeads ==
  ASSUME Shape, NEW i \in Uploads, EndScan(i)
  PROVE  /\ Shape' /\ Others(i) /\ Kept(i) /\ UNCHANGED <<Tables, nextId, unsure, unheard>>
         /\ pc[i] = "scan" /\ next[i] > Len(up[i].file) /\ next'[i] = 1
         /\ pc'[i] = IF recs[i] # << >> THEN "resolve" ELSE "report"
         /\ recs'[i] = recs[i] /\ filed'[i] = filed[i] /\ made'[i] = made[i]
         /\ job'[i] = job[i] /\ res'[i] = res[i]
<1>1. /\ pc[i] = "scan" /\ next[i] > Len(up[i].file)
      /\ next' = [next EXCEPT ![i] = 1]
      /\ pc' = [pc EXCEPT ![i] = IF recs[i] # << >> THEN "resolve" ELSE "report"]
      /\ UNCHANGED <<stored, parents, nextId, job, up, recs, filed, made, res, before, unsure, unheard>>
  BY Zenon DEF EndScan, Goto, history
<1>2. /\ pc' \in [Uploads -> PCs] /\ pc'[i] = IF recs[i] # << >> THEN "resolve" ELSE "report"
      /\ \A j \in Uploads \ {i} : pc'[j] = pc[j]
  BY <1>1 DEF Shape, PCs
<1>3. /\ next' \in [Uploads -> Nat \ {0}] /\ next'[i] = 1
      /\ \A j \in Uploads \ {i} : next'[j] = next[j]
  BY <1>1 DEF Shape
<1> QED BY <1>1, <1>2, <1>3 DEF Shape, Others, Kept, Tables

\* Of the parents of a name there is a first one.
LEMMA FirstExists ==
  ASSUME NEW P \in SUBSET Parent, NEW n, Called(n, P) # {}
  PROVE  /\ First(n, P) \in Called(n, P)
         /\ \A q \in Called(n, P) : First(n, P).id <= q.id
<1> DEFINE T == {q.id : q \in Called(n, P)}
           R == OpToRel(<, Nat)
<1>1. T \in SUBSET Nat /\ T # {}  BY DEF Called, Parent
<1>2. \E a \in T : \A b \in T : <<b, a>> \notin R
  BY <1>1, NatLessThanWellFounded, WFMin, Zenon
<1>3. \A a, b \in Nat : <<b, a>> \in R <=> b < a  BY DEF OpToRel
<1> HIDE DEF R
<1>4. \E a \in T : \A b \in T : a <= b
  <2>1. PICK a \in T : \A b \in T : <<b, a>> \notin R  BY <1>2
  <2>2. a \in Nat  BY <1>1
  <2>3. \A b \in T : b \in Nat /\ ~(b < a)  BY Zenon, <1>1, <1>3, <2>1, <2>2
  <2> HIDE DEF T
  <2> QED BY <2>1, <2>2, <2>3
<1>5. \E p \in Called(n, P) : \A q \in Called(n, P) : p.id <= q.id  BY <1>4
<1> QED BY <1>5, Zenon DEF First

\* The name the next record is to be filed under.
Wanted(i) == Name[recs[i][next[i]]]

\* A record finds the parent of its name, or one is made with the next id.
LEMMA ResolveLeads ==
  ASSUME Shape, NEW i \in Uploads, Resolve(i),
         NEW n, n = Wanted(i), NEW g, g = filed'[i][Len(filed[i]) + 1]
  PROVE  /\ Shape' /\ Others(i) /\ Kept(i) /\ UNCHANGED <<Tables, unsure, unheard>>
         /\ pc[i] = "resolve" /\ pc'[i] = "resolve" /\ next[i] <= Len(recs[i])
         /\ next'[i] = next[i] + 1 /\ recs'[i] = recs[i] /\ job'[i] = job[i] /\ res'[i] = res[i]
         /\ Len(filed'[i]) = Len(filed[i]) + 1
         /\ \A k \in 1..Len(filed[i]) : filed'[i][k] = filed[i][k]
         /\ \/ /\ nextId' = nextId /\ made'[i] = made[i]
               /\ \E p \in parents \cup made[i] : p.id = g /\ p.name = n
            \/ /\ nextId' = nextId + 1 /\ g = nextId
               /\ \A p \in parents \cup made[i] : p.name # n
               /\ made'[i] = made[i] \cup {[name |-> n, id |-> nextId, by |-> i]}
<1> DEFINE all == parents \cup made[i]
           new == [name |-> n, id |-> nextId, by |-> i]
           f == IF Called(n, all) # {} THEN First(n, Called(n, all)).id ELSE nextId
           m == IF Called(n, all) # {} THEN made[i] ELSE made[i] \cup {new}
           s == Append(filed[i], f)
<1>1. /\ pc[i] = "resolve" /\ next[i] <= Len(recs[i])
      /\ next' = [next EXCEPT ![i] = next[i] + 1]
      /\ UNCHANGED <<stored, parents, pc, job, up, recs, res, before, unsure, unheard>>
      /\ filed' = [filed EXCEPT ![i] = s]
      /\ IF Called(n, all) # {}
         THEN UNCHANGED <<nextId, made>>
         ELSE made' = [made EXCEPT ![i] = made[i] \cup {new}] /\ nextId' = nextId + 1
  <2>1. /\ pc[i] = "resolve" /\ next[i] <= Len(recs[i])
        /\ next' = [next EXCEPT ![i] = next[i] + 1]
        /\ UNCHANGED <<stored, parents, pc, job, up, recs, res, before, unsure, unheard>>
    BY Zenon DEF Resolve, history, Shape
  <2>2. IF Called(n, all) # {}
        THEN /\ filed' = [filed EXCEPT ![i] = Append(@, First(n, Called(n, all)).id)]
             /\ UNCHANGED <<nextId, made>>
        ELSE /\ filed' = [filed EXCEPT ![i] = Append(@, nextId)]
             /\ made' = [made EXCEPT ![i] = @ \cup {new}]
             /\ nextId' = nextId + 1
    BY DEF Resolve, Wanted
  <2> HIDE DEF new, all
  <2>3. CASE Called(n, all) # {}  BY <2>1, <2>2, <2>3 DEF Shape
  <2>4. CASE Called(n, all) = {}  BY <2>1, <2>2, <2>4 DEF Shape
  <2> QED BY <2>3, <2>4
<1>2. /\ next[i] \in Nat \ {0} /\ recs[i] \in Seq(Recs) /\ filed[i] \in Seq(Nat)
      /\ made[i] \in SUBSET Parent /\ all \in SUBSET Parent /\ nextId \in Nat \ {0}
  BY DEF Shape
<1>3. recs[i][next[i]] \in Recs  BY <1>1, <1>2
<1>4. n \in Names  BY <1>3 DEF Names, Wanted
<1>5. new \in Parent  BY <1>2, <1>4 DEF Parent
<1>6. Called(n, all) # {} =>
        f \in Nat /\ \E p \in all : p.id = f /\ p.name = n
  <2> HAVE Called(n, all) # {}
  <2>1. Called(n, Called(n, all)) = Called(n, all) /\ Called(n, all) \in SUBSET Parent
    BY <1>2 DEF Called
  <2>2. First(n, Called(n, all)) \in Called(n, all)  BY <2>1, FirstExists
  <2>3. First(n, Called(n, all)) \in Parent  BY <1>2, <2>2 DEF Called
  <2> QED BY <2>2, <2>3 DEF Called, Parent
<1>7. f \in Nat /\ (Called(n, all) = {} => f = nextId)  BY <1>2, <1>6
<1>8. m \in SUBSET Parent  BY <1>2, <1>5
<1>9. made' = [made EXCEPT ![i] = m]
  <2>1. made = [made EXCEPT ![i] = made[i]]  BY DEF Shape
  <2> QED BY <1>1, <2>1
<1>10. \/ /\ nextId' = nextId /\ m = made[i]
          /\ \E p \in all : p.id = f /\ p.name = n
       \/ /\ nextId' = nextId + 1 /\ f = nextId /\ m = made[i] \cup {new}
          /\ \A p \in all : p.name # n
  <2>1. CASE Called(n, all) # {}  BY <1>1, <1>6, <2>1
  <2>2. CASE Called(n, all) = {}
    <3>1. \A p \in all : p.name # n  BY <2>2 DEF Called
    <3> QED BY <1>1, <2>2, <3>1
  <2> QED BY <2>1, <2>2
<1> HIDE DEF f, m, new
<1>11. s \in Seq(Nat) /\ Len(s) = Len(filed[i]) + 1 /\ s[Len(filed[i]) + 1] = f
       /\ \A k \in 1..Len(filed[i]) : s[k] = filed[i][k]
  BY <1>2, <1>7
<1> HIDE DEF s, all
<1>12. /\ filed' \in [Uploads -> Seq(Nat)] /\ filed'[i] = s
       /\ \A j \in Uploads \ {i} : filed'[j] = filed[j]
  BY <1>1, <1>11 DEF Shape
<1>13. /\ made' \in [Uploads -> SUBSET Parent] /\ made'[i] = m
       /\ \A j \in Uploads \ {i} : made'[j] = made[j]
  BY <1>8, <1>9 DEF Shape
<1>14. /\ next' \in [Uploads -> Nat \ {0}] /\ next'[i] = next[i] + 1
       /\ \A j \in Uploads \ {i} : next'[j] = next[j]
  BY <1>1 DEF Shape
<1>15. g = f /\ nextId' \in Nat \ {0}  BY <1>1, <1>2, <1>10, <1>11, <1>12
<1>16. Shape' /\ Others(i) /\ Kept(i) /\ UNCHANGED <<Tables, unsure, unheard>>
  BY <1>1, <1>12, <1>13, <1>14, <1>15 DEF Shape, Others, Kept, Tables
<1> QED BY <1>1, <1>10, <1>11, <1>12, <1>13, <1>14, <1>15, <1>16 DEF all, new

\* What an upload has under way is gone.
Dropped(i) == next'[i] = 1 /\ recs'[i] = << >> /\ filed'[i] = << >> /\ made'[i] = {}

\* The rows a commit writes.
Batch(i) == {[rec |-> recs[i][k], parent |-> filed[i][k], by |-> i] : k \in DOMAIN recs[i]}

\* Dropping keeps the shape.
LEMMA DropLeads ==
  ASSUME Shape, NEW i \in Uploads, Drop(i)
  PROVE  /\ next' \in [Uploads -> Nat \ {0}] /\ recs' \in [Uploads -> Seq(Recs)]
         /\ filed' \in [Uploads -> Seq(Nat)] /\ made' \in [Uploads -> SUBSET Parent]
         /\ Dropped(i)
         /\ \A j \in Uploads \ {i} : /\ next'[j] = next[j] /\ recs'[j] = recs[j]
                                     /\ filed'[j] = filed[j] /\ made'[j] = made[j]
<1>1. << >> \in Seq(Recs) /\ << >> \in Seq(Nat)  OBVIOUS
<1> QED BY <1>1 DEF Shape, Drop, Dropped

\* What the result of an upload whose COMMIT took effect counts.
Answered(i) ==
  \/ /\ res'[i].success = Len(recs[i]) /\ res'[i].failed = res[i].failed
     /\ res'[i].skipped = res[i].skipped /\ unheard' = unheard
  \/ /\ res'[i].success = res[i].success /\ res'[i].failed = res[i].failed + Len(recs[i])
     /\ res'[i].skipped = res[i].skipped /\ unheard' = unheard \cup {i}

\* A batch is committed, whether the answer arrives or not.
LEMMA CommitLeads ==
  ASSUME Shape, NEW i \in Uploads, Commit(i) \/ LoseCommit(i), Len(filed[i]) = next[i] - 1
  PROVE  /\ Shape' /\ Others(i) /\ Kept(i) /\ UNCHANGED <<nextId, unsure>> /\ Dropped(i)
         /\ pc[i] = "resolve" /\ pc'[i] = "report" /\ Len(filed[i]) >= Len(recs[i])
         /\ job'[i] = job[i] /\ stored' = stored \cup Batch(i) /\ parents' = parents \cup made[i]
         /\ Answered(i)
<1> DEFINE c == [res[i] EXCEPT !.success = Len(recs[i])]
           d == [res[i] EXCEPT !.failed = res[i].failed + Len(recs[i])]
<1>1. /\ pc[i] = "resolve" /\ next[i] > Len(recs[i])
      /\ stored' = stored \cup Batch(i) /\ parents' = parents \cup made[i]
      /\ pc' = [pc EXCEPT ![i] = "report"] /\ Drop(i)
      /\ UNCHANGED <<nextId, job, up, before, unsure>>
  BY Zenon DEF Commit, LoseCommit, Install, Goto, Batch
<1>2. /\ next[i] \in Nat \ {0} /\ recs[i] \in Seq(Recs) /\ filed[i] \in Seq(Nat)
      /\ made[i] \in SUBSET Parent /\ res[i] \in Counts
  BY DEF Shape
<1>3. Len(recs[i]) \in Nat /\ Len(filed[i]) >= Len(recs[i])  BY <1>1, <1>2
<1>4. Batch(i) \subseteq Stored
  <2> SUFFICES ASSUME NEW k \in DOMAIN recs[i]
               PROVE  [rec |-> recs[i][k], parent |-> filed[i][k], by |-> i] \in Stored
    BY DEF Batch
  <2>1. recs[i][k] \in Recs /\ filed[i][k] \in Nat  BY <1>2, <1>3
  <2> QED BY <2>1 DEF Stored
<1>5. /\ c \in Counts /\ c.success = Len(recs[i])
      /\ c.failed = res[i].failed /\ c.skipped = res[i].skipped
      /\ d \in Counts /\ d.success = res[i].success
      /\ d.failed = res[i].failed + Len(recs[i]) /\ d.skipped = res[i].skipped
  BY <1>2, <1>3 DEF Counts
<1>6. \/ res' = [res EXCEPT ![i] = c] /\ unheard' = unheard
      \/ res' = [res EXCEPT ![i] = d] /\ unheard' = unheard \cup {i}
  BY Zenon DEF Commit, LoseCommit
<1> HIDE DEF c, d
<1>7. /\ res' \in [Uploads -> Counts]
      /\ \/ res'[i] = c /\ unheard' = unheard
         \/ res'[i] = d /\ unheard' = unheard \cup {i}
      /\ \A j \in Uploads \ {i} : res'[j] = res[j] /\ (j \in unheard' <=> j \in unheard)
  BY <1>5, <1>6 DEF Shape
<1>8. /\ pc' \in [Uploads -> PCs] /\ pc'[i] = "report"
      /\ \A j \in Uploads \ {i} : pc'[j] = pc[j]
  BY <1>1 DEF Shape, PCs
<1> HIDE DEF Batch
<1>9. Answered(i)  BY <1>5, <1>7 DEF Answered
<1> QED BY <1>1, <1>2, <1>3, <1>4, <1>7, <1>8, <1>9, DropLeads DEF Shape, Others, Kept

\* A batch is rolled back.
LEMMA FailBatchLeads ==
  ASSUME Shape, NEW i \in Uploads, FailBatch(i)
  PROVE  /\ Shape' /\ Others(i) /\ Kept(i) /\ UNCHANGED <<Tables, nextId, unsure, unheard>> /\ Dropped(i)
         /\ pc[i] = "resolve" /\ pc'[i] = "report" /\ job'[i] = job[i]
         /\ res'[i].failed = res[i].failed + Len(recs[i])
         /\ res'[i].success = res[i].success /\ res'[i].skipped = res[i].skipped
<1> DEFINE c == [res[i] EXCEPT !.failed = res[i].failed + Len(recs[i])]
<1>1. /\ pc[i] = "resolve"
      /\ res' = [res EXCEPT ![i] = c]
      /\ pc' = [pc EXCEPT ![i] = "report"] /\ Drop(i)
      /\ UNCHANGED <<stored, parents, nextId, job, up, before, unsure, unheard>>
  BY Zenon DEF FailBatch, Goto, history
<1>2. recs[i] \in Seq(Recs) /\ res[i] \in Counts  BY DEF Shape
<1>3. /\ c \in Counts /\ c.failed = res[i].failed + Len(recs[i])
      /\ c.success = res[i].success /\ c.skipped = res[i].skipped
  BY <1>2 DEF Counts
<1> HIDE DEF c
<1>4. /\ res' \in [Uploads -> Counts] /\ res'[i] = c
      /\ \A j \in Uploads \ {i} : res'[j] = res[j]
  BY <1>1, <1>3 DEF Shape
<1>5. /\ pc' \in [Uploads -> PCs] /\ pc'[i] = "report"
      /\ \A j \in Uploads \ {i} : pc'[j] = pc[j]
  BY <1>1 DEF Shape, PCs
<1> QED BY <1>1, <1>3, <1>4, <1>5, DropLeads DEF Shape, Others, Kept, Tables

\* The result is reported.
LEMMA ReportLeads ==
  ASSUME Shape, NEW i \in Uploads, Report(i)
  PROVE  /\ Shape' /\ Others(i) /\ Kept(i) /\ UNCHANGED <<Tables, nextId, unsure, unheard>> /\ Dropped(i)
         /\ pc[i] = "report" /\ pc'[i] = "done" /\ lost \subseteq lost'
         /\ res'[i].success = 0 /\ res'[i].failed = 0 /\ res'[i].skipped = 0
         /\ \/ job'[i] = job[i] /\ (job[i] # None => i \in lost')
            \/ /\ job'[i].status = IF res[i].failed > 0 THEN "failed" ELSE "completed"
               /\ job'[i].total = job[i].total /\ job'[i].success = res[i].success
               /\ job'[i].failed = res[i].failed /\ job'[i].skipped = res[i].skipped
               /\ job[i] # None
<1>1. /\ pc[i] = "report" /\ pc' = [pc EXCEPT ![i] = "done"] /\ Drop(i)
      /\ res' = [res EXCEPT ![i] = NoCount]
      /\ UNCHANGED <<stored, parents, nextId, up, before, unsure, unheard>>
  BY Zenon DEF Report, Goto
<1>2. \/ job' = job /\ lost \subseteq lost' /\ (job[i] # None => i \in lost')
      \/ /\ job' = [job EXCEPT ![i] = JobRow(IF res[i].failed > 0 THEN "failed" ELSE "completed",
                                             job[i].total, res[i])]
         /\ lost' = lost /\ job[i] # None
  BY DEF Report, UpdateImportJob, Shape
<1>3. /\ DOMAIN job' = Uploads /\ (\A j \in Uploads \ {i} : job'[j] = job[j])
      /\ lost \subseteq lost'
      /\ \/ job'[i] = job[i] /\ (job[i] # None => i \in lost')
         \/ /\ job'[i].status = IF res[i].failed > 0 THEN "failed" ELSE "completed"
            /\ job'[i].total = job[i].total /\ job'[i].success = res[i].success
            /\ job'[i].failed = res[i].failed /\ job'[i].skipped = res[i].skipped
            /\ job[i] # None
  BY <1>2 DEF Shape, JobRow
<1>4. NoCount \in Counts  BY DEF NoCount, Counts
<1>5. /\ res' \in [Uploads -> Counts] /\ res'[i] = NoCount
      /\ \A j \in Uploads \ {i} : res'[j] = res[j]
  BY <1>1, <1>4 DEF Shape
<1>6. /\ pc' \in [Uploads -> PCs] /\ pc'[i] = "done"
      /\ \A j \in Uploads \ {i} : pc'[j] = pc[j]
  BY <1>1 DEF Shape, PCs
<1>7. NoCount.success = 0 /\ NoCount.failed = 0 /\ NoCount.skipped = 0  BY DEF NoCount
<1> QED BY <1>1, <1>3, <1>5, <1>6, <1>7, DropLeads DEF Shape, Others, Kept, Tables

\* The process stops with all it has under way.
LEMMA CrashLeads ==
  ASSUME Shape, Crash
  PROVE  /\ Shape' /\ UNCHANGED <<Tables, nextId, unsure, unheard, up, before, job>>
         /\ \A j \in Uploads :
              /\ Dropped(j)
              /\ res'[j].success = 0 /\ res'[j].failed = 0 /\ res'[j].skipped = 0
              /\ \/ pc[j] \in {"new", "done"} /\ pc'[j] = pc[j]
                 \/ pc'[j] = "done" /\ pc[j] # "new" /\ (job[j] # None => j \in lost')
         /\ lost \subseteq lost'
<1>1. /\ pc' = [j \in Uploads |-> IF pc[j] \notin {"new", "done"} THEN "done" ELSE pc[j]]
      /\ next' = [j \in Uploads |-> 1] /\ recs' = [j \in Uploads |-> << >>]
      /\ filed' = [j \in Uploads |-> << >>] /\ made' = [j \in Uploads |-> {}]
      /\ res' = [j \in Uploads |-> NoCount]
      /\ lost \subseteq lost'
      /\ \A j \in Uploads : pc[j] \notin {"new", "done"} /\ job[j] # None => j \in lost'
      /\ UNCHANGED <<stored, parents, nextId, job, up, before, unsure, unheard>>
  BY DEF Crash
<1>2. NoCount \in Counts /\ NoCount.success = 0 /\ NoCount.failed = 0 /\ NoCount.skipped = 0
  BY DEF NoCount, Counts
<1>3. << >> \in Seq(Recs) /\ << >> \in Seq(Nat)  OBVIOUS
<1>4. pc' \in [Uploads -> PCs]  BY <1>1 DEF Shape, PCs
<1>5. /\ next' \in [Uploads -> Nat \ {0}] /\ recs' \in [Uploads -> Seq(Recs)]
      /\ filed' \in [Uploads -> Seq(Nat)] /\ made' \in [Uploads -> SUBSET Parent]
      /\ res' \in [Uploads -> Counts]
  BY <1>1, <1>2, <1>3
<1>6. \A j \in Uploads :
        /\ Dropped(j) /\ res'[j] = NoCount
        /\ \/ pc[j] \in {"new", "done"} /\ pc'[j] = pc[j]
           \/ pc'[j] = "done" /\ pc[j] # "new" /\ (job[j] # None => j \in lost')
  BY <1>1 DEF Dropped
<1> QED BY <1>1, <1>2, <1>4, <1>5, <1>6 DEF Shape, Tables

-----------------------------------------------------------------------------
(* Where the goroutine of an upload is, and what it has counted.           *)

\* What JobTellsTheLedger says of one job.
Told(i) ==
  Ended(i) /\ job[i] # None /\ i \notin lost =>
    /\ job[i].status = IF job[i].failed > 0 THEN "failed" ELSE "completed"
    /\ job[i].success + job[i].failed + job[i].skipped = job[i].total
    /\ IF i \in unheard THEN job[i].success = 0 /\ StoredBy(i) # {}
       ELSE job[i].success = 0 <=> StoredBy(i) = {}

\* JobTellsTheLedger, job by job.
LEMMA AllTold == JobTellsTheLedger <=> \A i \in Uploads : Told(i)
BY DEF JobTellsTheLedger, Told

Counted(i) == Phase(i) /\ Rowed(i) /\ Told(i)

\* A step that writes only rows of its own upload leaves the others as they were.
LEMMA OthersCounted ==
  ASSUME NEW i \in Uploads, Others(i), lost \subseteq lost',
         NEW j \in Uploads \ {i}, Counted(j), StoredBy(j)' = StoredBy(j)
  PROVE  Counted(j)'
<1>1. /\ pc'[j] = pc[j] /\ job'[j] = job[j] /\ up'[j] = up[j] /\ next'[j] = next[j]
      /\ recs'[j] = recs[j] /\ filed'[j] = filed[j] /\ made'[j] = made[j] /\ res'[j] = res[j]
      /\ (j \in unheard' <=> j \in unheard)
  BY DEF Others
<1>2. Phase(j)'  BY <1>1 DEF Counted, Phase
<1>3. Rowed(j)'  BY <1>1 DEF Counted, Rowed
<1>4. Told(j)'  BY <1>1 DEF Counted, Told, Ended
<1> QED BY <1>2, <1>3, <1>4 DEF Counted

\* Only Report and Crash touch the history of lost jobs, and they add to it.
LEMMA LostGrows == Next => lost \subseteq lost'
<1> SUFFICES ASSUME Next PROVE lost \subseteq lost'
  OBVIOUS
<1>1. ASSUME NEW i \in Uploads,
             \/ Upload(i) \/ StartImportJob(i) \/ MarkRunning(i)
             \/ ScanBad(i) \/ Skip(i) \/ Accept(i) \/ EndScan(i)
             \/ Resolve(i) \/ Commit(i) \/ LoseCommit(i) \/ FailBatch(i)
      PROVE  lost' = lost
  BY <1>1 DEF Upload, StartImportJob, MarkRunning, ScanBad, Skip, Accept, EndScan, Resolve,
              Commit, LoseCommit, Install, FailBatch, history
<1>2. ASSUME NEW i \in Uploads, Report(i) PROVE lost \subseteq lost'
  BY <1>2 DEF Report
<1>3. CASE Crash  BY <1>3 DEF Crash
<1>4. CASE Quiet  BY <1>4 DEF Quiet, vars, history
<1> QED BY <1>1, <1>2, <1>3, <1>4 DEF Next

\* What a step of an upload counts, case by case.
LEMMA StepCounted ==
  ASSUME Shape, NEW i \in Uploads, Counted(i),
         \/ Upload(i) \/ StartImportJob(i) \/ MarkRunning(i)
         \/ ScanBad(i) \/ Skip(i) \/ Accept(i) \/ EndScan(i)
         \/ Resolve(i) \/ Commit(i) \/ LoseCommit(i) \/ FailBatch(i) \/ Report(i)
  PROVE  /\ Counted(i)' /\ Shape' /\ Others(i)
         /\ stored \subseteq stored' /\ \A t \in stored' \ stored : t.by = i
<1> USE DEF Counted
<1>1. /\ next[i] \in Nat \ {0} /\ recs[i] \in Seq(Recs) /\ filed[i] \in Seq(Nat)
      /\ res[i].success \in Nat /\ res[i].failed \in Nat /\ res[i].skipped \in Nat
      /\ Len(recs[i]) \in Nat
  BY DEF Shape, Counts
<1>2. pc[i] # "new" => Len(up[i].file) \in Nat  BY FileLengths DEF Phase
<1>3. CASE Upload(i) \/ StartImportJob(i)
  <2>1. /\ Shape' /\ Others(i) /\ stored' = stored /\ unheard' = unheard
        /\ pc[i] = "new" /\ pc'[i] \in {"scan", "queued"}
        /\ next'[i] = next[i] /\ recs'[i] = recs[i] /\ filed'[i] = filed[i]
        /\ made'[i] = made[i] /\ res'[i] = res[i]
        /\ up'[i].file \in Files /\ up'[i].skip \in BOOLEAN
        /\ pc'[i] = "scan" => job'[i] = job[i]
        /\ pc'[i] = "queued" =>
             job'[i].status = "queued" /\ job'[i].total = Len(up'[i].file)
    BY <1>3, BeginLeads DEF Tables
  <2>2. StoredBy(i)' = StoredBy(i)  BY <2>1 DEF StoredBy
  <2>3. Len(up'[i].file) \in Nat  BY <2>1, FileLengths
  <2>4. Phase(i)'
    <3>1. /\ next'[i] = 1 /\ recs'[i] = << >> /\ filed'[i] = << >> /\ made'[i] = {}
          /\ res'[i].success = 0 /\ res'[i].failed = 0 /\ res'[i].skipped = 0
          /\ StoredBy(i)' = {} /\ Len(recs'[i]) = 0
      BY <2>1, <2>2 DEF Phase
    <3> QED BY <2>1, <2>3, <3>1 DEF Phase
  <2>5. Rowed(i)'  BY <2>1 DEF Phase, Rowed
  <2>6. Told(i)'  BY <2>1 DEF Told, Ended
  <2> QED BY <2>1, <2>4, <2>5, <2>6
<1>4. CASE MarkRunning(i)
  <2>1. /\ Shape' /\ Others(i) /\ stored' = stored /\ unheard' = unheard
        /\ pc[i] = "queued" /\ pc'[i] = "scan" /\ up'[i] = up[i]
        /\ next'[i] = next[i] /\ recs'[i] = recs[i] /\ filed'[i] = filed[i]
        /\ made'[i] = made[i] /\ res'[i] = res[i]
        /\ \/ job'[i] = job[i]
           \/ job'[i].status = "running" /\ job'[i].total = job[i].total
    BY <1>4, RunningLeads DEF Tables, Kept
  <2>2. StoredBy(i)' = StoredBy(i)  BY <2>1 DEF StoredBy
  <2>4. Phase(i)'
    <3>1. /\ next'[i] = 1 /\ recs'[i] = << >> /\ filed'[i] = << >> /\ made'[i] = {}
          /\ res'[i].success = 0 /\ res'[i].failed = 0 /\ res'[i].skipped = 0
          /\ StoredBy(i)' = {} /\ Len(recs'[i]) = 0
          /\ up'[i].file \in Files /\ up'[i].skip \in BOOLEAN
      BY <2>1, <2>2 DEF Phase
    <3> QED BY <1>2, <2>1, <3>1 DEF Phase
  <2>5. Rowed(i)'  BY <2>1 DEF Phase, Rowed
  <2>6. Told(i)'  BY <2>1 DEF Told, Ended
  <2> QED BY <2>1, <2>4, <2>5, <2>6
<1>5. CASE ScanBad(i) \/ Skip(i) \/ Accept(i)
  <2>1. /\ Shape' /\ Others(i) /\ stored' = stored /\ unheard' = unheard /\ up'[i] = up[i]
        /\ pc[i] = "scan" /\ next[i] <= Len(up[i].file) /\ pc'[i] = "scan"
        /\ next'[i] = next[i] + 1 /\ filed'[i] = filed[i]
        /\ made'[i] = made[i] /\ job'[i] = job[i]
        /\ res'[i].success = res[i].success
        /\ \/ /\ recs'[i] = recs[i]
              /\ res'[i].failed + res'[i].skipped = res[i].failed + res[i].skipped + 1
           \/ Len(recs'[i]) = Len(recs[i]) + 1 /\ res'[i] = res[i]
    <3>1. CASE ScanBad(i) \/ Skip(i)  BY <3>1, CountLeads DEF Tables, Kept
    <3>2. CASE Accept(i)
      <4>1. up[i].file \in Files  BY <3>2 DEF Phase, Accept, Scanning
      <4> QED BY <3>2, <4>1, AcceptLeads DEF Tables, Kept
    <3> QED BY <1>5, <3>1, <3>2
  <2>2. StoredBy(i)' = StoredBy(i)  BY <2>1 DEF StoredBy
  <2>3. /\ res'[i].success \in Nat /\ res'[i].failed \in Nat /\ res'[i].skipped \in Nat
        /\ recs'[i] \in Seq(Recs)
    BY <2>1 DEF Shape, Counts
  <2>4. Phase(i)'
    <3>1. /\ filed'[i] = << >> /\ made'[i] = {} /\ StoredBy(i)' = {} /\ res'[i].success = 0
          /\ up'[i].file \in Files /\ up'[i].skip \in BOOLEAN
      BY <2>1, <2>2 DEF Phase
    <3>2. /\ next'[i] <= Len(up'[i].file) + 1
          /\ res'[i].failed + res'[i].skipped + Len(recs'[i]) = next'[i] - 1
      <4>1. /\ next[i] <= Len(up[i].file) /\ Len(up[i].file) \in Nat
            /\ res[i].failed + res[i].skipped + Len(recs[i]) = next[i] - 1
        BY <1>2, <2>1 DEF Phase
      <4>2. /\ up'[i].file = up[i].file /\ next'[i] = next[i] + 1
            /\ \/ /\ Len(recs'[i]) = Len(recs[i])
                  /\ res'[i].failed + res'[i].skipped = res[i].failed + res[i].skipped + 1
               \/ /\ Len(recs'[i]) = Len(recs[i]) + 1
                  /\ res'[i].failed = res[i].failed /\ res'[i].skipped = res[i].skipped
        BY <2>1
      <4>3. /\ next[i] \in Nat /\ Len(recs[i]) \in Nat /\ Len(recs'[i]) \in Nat
            /\ res[i].failed \in Nat /\ res[i].skipped \in Nat
            /\ res'[i].failed \in Nat /\ res'[i].skipped \in Nat
        BY <1>1, <2>3
      <4> DEFINE n == next[i]  l == Len(recs[i])  f == res[i].failed  s == res[i].skipped
                 nn == next'[i]  ll == Len(recs'[i])  ff == res'[i].failed  ss == res'[i].skipped
                 m == Len(up[i].file)  mm == Len(up'[i].file)
      <4>4. /\ n \in Nat /\ l \in Nat /\ ll \in Nat /\ f \in Nat /\ s \in Nat
            /\ ff \in Nat /\ ss \in Nat /\ m \in Nat /\ mm = m /\ nn = n + 1
            /\ n <= m /\ f + s + l = n - 1
            /\ \/ ll = l /\ ff + ss = f + s + 1
               \/ ll = l + 1 /\ ff = f /\ ss = s
        BY <4>1, <4>2, <4>3
      <4> HIDE DEF n, l, f, s, nn, ll, ff, ss, m, mm
      <4>5. nn <= mm + 1 /\ ff + ss + ll = nn - 1  BY <4>4
      <4> QED BY <4>5 DEF nn, mm, ff, ss, ll
    <3> QED BY <2>1, <3>1, <3>2 DEF Phase
  <2>5. Rowed(i)'  BY <2>1 DEF Rowed
  <2>6. Told(i)'  BY <2>1 DEF Told, Ended
  <2> QED BY <2>1, <2>4, <2>5, <2>6
<1>6. CASE EndScan(i)
  <2>1. /\ Shape' /\ Others(i) /\ stored' = stored /\ unheard' = unheard /\ up'[i] = up[i]
        /\ pc[i] = "scan" /\ next[i] > Len(up[i].file) /\ next'[i] = 1
        /\ pc'[i] = IF recs[i] # << >> THEN "resolve" ELSE "report"
        /\ recs'[i] = recs[i] /\ filed'[i] = filed[i] /\ made'[i] = made[i]
        /\ job'[i] = job[i] /\ res'[i] = res[i]
    BY <1>6, EndScanLeads DEF Tables, Kept
  <2>2. StoredBy(i)' = StoredBy(i)  BY <2>1 DEF StoredBy
  <2>4. Phase(i)'
    <3>1. /\ filed'[i] = << >> /\ made'[i] = {} /\ StoredBy(i)' = {} /\ res'[i].success = 0
          /\ up'[i].file \in Files /\ up'[i].skip \in BOOLEAN /\ Len(filed'[i]) = 0
          /\ next'[i] = 1
      BY <2>1, <2>2 DEF Phase
    <3>2. res'[i].failed + res'[i].skipped + Len(recs'[i]) = Len(up'[i].file)
      <4>1. /\ next[i] <= Len(up[i].file) + 1 /\ Len(up[i].file) \in Nat
            /\ res[i].failed + res[i].skipped + Len(recs[i]) = next[i] - 1
        BY <1>2, <2>1 DEF Phase
      <4>2. /\ next[i] > Len(up[i].file) /\ up'[i].file = up[i].file /\ recs'[i] = recs[i]
            /\ res'[i].failed = res[i].failed /\ res'[i].skipped = res[i].skipped
        BY <2>1
      <4> QED BY <1>1, <4>1, <4>2
    <3>3. CASE recs[i] # << >>  BY <1>1, <2>1, <3>1, <3>2, <3>3 DEF Phase
    <3>4. CASE recs[i] = << >>  BY <1>1, <2>1, <3>1, <3>2, <3>4 DEF Phase
    <3> QED BY <3>3, <3>4
  <2>5. Rowed(i)'  BY <2>1 DEF Rowed
  <2>6. Told(i)'  BY <2>1 DEF Told, Ended
  <2> QED BY <2>1, <2>4, <2>5, <2>6
<1>7. CASE Resolve(i)
  <2>1. /\ Shape' /\ Others(i) /\ stored' = stored /\ unheard' = unheard /\ up'[i] = up[i]
        /\ pc[i] = "resolve" /\ pc'[i] = "resolve" /\ next[i] <= Len(recs[i])
        /\ next'[i] = next[i] + 1 /\ recs'[i] = recs[i] /\ job'[i] = job[i] /\ res'[i] = res[i]
        /\ Len(filed'[i]) = Len(filed[i]) + 1
    BY <1>7, ResolveLeads DEF Tables, Kept
  <2>2. StoredBy(i)' = StoredBy(i)  BY <2>1 DEF StoredBy
  <2>4. Phase(i)'
    <3>1. /\ next'[i] <= Len(recs'[i]) + 1 /\ Len(filed'[i]) = next'[i] - 1
      BY <1>1, <2>1 DEF Phase
    <3> QED BY <1>1, <1>2, <2>1, <2>2, <3>1 DEF Phase
  <2>5. Rowed(i)'  BY <2>1 DEF Rowed
  <2>6. Told(i)'  BY <2>1 DEF Told, Ended
  <2> QED BY <2>1, <2>4, <2>5, <2>6
<1>8. CASE Commit(i) \/ LoseCommit(i)
  <2>0. Len(filed[i]) = next[i] - 1  BY <1>8 DEF Phase, Commit, LoseCommit, Install
  <2>1. /\ Shape' /\ Others(i) /\ up'[i] = up[i]
        /\ next'[i] = 1 /\ recs'[i] = << >> /\ filed'[i] = << >> /\ made'[i] = {}
        /\ pc[i] = "resolve" /\ pc'[i] = "report"
        /\ job'[i] = job[i] /\ stored' = stored \cup Batch(i)
        /\ Answered(i)
    BY <1>8, <2>0, CommitLeads DEF Kept, Dropped
  <2>2. recs[i] # << >> /\ Len(recs[i]) > 0  BY <1>1, <2>1 DEF Phase
  <2>3. StoredBy(i)' # {}
    <3>1. [rec |-> recs[i][1], parent |-> filed[i][1], by |-> i] \in Batch(i)
      BY <1>1, <2>2 DEF Batch
    <3> QED BY <2>1, <3>1 DEF StoredBy
  <2>4. Phase(i)'
    <3>1. /\ res[i].success = 0 /\ i \notin unheard
          /\ res[i].failed + res[i].skipped + Len(recs[i]) = Len(up[i].file)
      BY <2>1 DEF Phase
    <3>2. IF i \in unheard' THEN res'[i].success = 0 ELSE res'[i].success # 0
      BY <1>1, <2>1, <2>2, <3>1 DEF Answered
    <3>3. res'[i].success + res'[i].failed + res'[i].skipped = Len(up'[i].file)
      BY <1>1, <1>2, <2>1, <3>1 DEF Answered
    <3> QED BY <1>1, <1>2, <2>1, <2>3, <3>2, <3>3 DEF Phase
  <2>5. Rowed(i)'  BY <2>1 DEF Rowed
  <2>6. Told(i)'  BY <2>1 DEF Told, Ended
  <2>7. \A t \in Batch(i) : t.by = i  BY DEF Batch
  <2> QED BY <2>1, <2>4, <2>5, <2>6, <2>7
<1>9. CASE FailBatch(i)
  <2>1. /\ Shape' /\ Others(i) /\ stored' = stored /\ unheard' = unheard /\ up'[i] = up[i]
        /\ next'[i] = 1 /\ recs'[i] = << >> /\ filed'[i] = << >> /\ made'[i] = {}
        /\ pc[i] = "resolve" /\ pc'[i] = "report" /\ job'[i] = job[i]
        /\ res'[i].failed = res[i].failed + Len(recs[i])
        /\ res'[i].success = res[i].success /\ res'[i].skipped = res[i].skipped
    BY <1>9, FailBatchLeads DEF Tables, Kept, Dropped
  <2>2. StoredBy(i)' = StoredBy(i)  BY <2>1 DEF StoredBy
  <2>4. Phase(i)'  BY <1>1, <1>2, <2>1, <2>2 DEF Phase
  <2>5. Rowed(i)'  BY <2>1 DEF Rowed
  <2>6. Told(i)'  BY <2>1 DEF Told, Ended
  <2> QED BY <2>1, <2>4, <2>5, <2>6
<1>10. CASE Report(i)
  <2>1. /\ Shape' /\ Others(i) /\ stored' = stored /\ unheard' = unheard /\ up'[i] = up[i]
        /\ next'[i] = 1 /\ recs'[i] = << >> /\ filed'[i] = << >> /\ made'[i] = {}
        /\ pc[i] = "report" /\ pc'[i] = "done"
        /\ \/ job'[i] = job[i] /\ (job[i] # None => i \in lost')
           \/ /\ job'[i].status = IF res[i].failed > 0 THEN "failed" ELSE "completed"
              /\ job'[i].total = job[i].total /\ job'[i].success = res[i].success
              /\ job'[i].failed = res[i].failed /\ job'[i].skipped = res[i].skipped
              /\ job[i] # None
    BY <1>10, ReportLeads DEF Tables, Kept, Dropped
  <2>2. StoredBy(i)' = StoredBy(i)  BY <2>1 DEF StoredBy
  <2>4. Phase(i)'  BY <1>1, <1>2, <2>1, <2>2 DEF Phase
  <2>5. Rowed(i)'  BY <2>1 DEF Rowed
  <2>6. Told(i)'  BY <1>1, <1>2, <2>1, <2>2 DEF Told, Ended, Phase, Rowed
  <2> QED BY <2>1, <2>4, <2>5, <2>6
<1> QED BY <1>3, <1>4, <1>5, <1>6, <1>7, <1>8, <1>9, <1>10

\* Every step leaves the counts right.
LEMMA CountedStep ==
  ASSUME Shape, \A j \in Uploads : Counted(j), Next
  PROVE  Shape' /\ \A j \in Uploads : Counted(j)'
<1>1. CASE \E i \in Uploads :
             \/ Upload(i) \/ StartImportJob(i) \/ MarkRunning(i)
             \/ ScanBad(i) \/ Skip(i) \/ Accept(i) \/ EndScan(i)
             \/ Resolve(i) \/ Commit(i) \/ LoseCommit(i) \/ FailBatch(i) \/ Report(i)
  <2>1. PICK i \in Uploads :
             \/ Upload(i) \/ StartImportJob(i) \/ MarkRunning(i)
             \/ ScanBad(i) \/ Skip(i) \/ Accept(i) \/ EndScan(i)
             \/ Resolve(i) \/ Commit(i) \/ LoseCommit(i) \/ FailBatch(i) \/ Report(i)
    BY Zenon, <1>1
  <2>2. /\ Counted(i)' /\ Shape' /\ Others(i)
        /\ stored \subseteq stored' /\ \A t \in stored' \ stored : t.by = i
    BY Zenon, <2>1, StepCounted
  <2>3. lost \subseteq lost'  BY LostGrows
  <2>4. ASSUME NEW j \in Uploads \ {i} PROVE Counted(j)'
    <3>1. StoredBy(j)' = StoredBy(j)  BY <2>2 DEF StoredBy
    <3> QED BY <2>2, <2>3, <3>1, OthersCounted
  <2> QED BY <2>2, <2>4
<1>2. CASE Crash
  <2>1. /\ Shape' /\ UNCHANGED <<stored, up, job, unheard>> /\ lost \subseteq lost'
        /\ \A j \in Uploads :
              /\ Dropped(j)
              /\ res'[j].success = 0 /\ res'[j].failed = 0 /\ res'[j].skipped = 0
              /\ \/ pc[j] \in {"new", "done"} /\ pc'[j] = pc[j]
                 \/ pc'[j] = "done" /\ pc[j] # "new" /\ (job[j] # None => j \in lost')
    BY <1>2, CrashLeads DEF Tables
  <2> SUFFICES ASSUME NEW j \in Uploads PROVE Counted(j)'
    BY <2>1
  <2>2. StoredBy(j)' = StoredBy(j)  BY <2>1 DEF StoredBy
  <2>3. Phase(j)'  BY <2>1, <2>2 DEF Counted, Phase, Dropped
  <2>4. Rowed(j)'  BY <2>1 DEF Counted, Rowed
  <2>5. Told(j)'  BY <2>1, <2>2 DEF Counted, Told, Ended
  <2> QED BY <2>3, <2>4, <2>5 DEF Counted
<1>3. CASE Quiet
  <2>1. UNCHANGED vars  BY <1>3 DEF Quiet
  <2>2. Shape'  BY <2>1 DEF vars, local, history, Shape
  <2> SUFFICES ASSUME NEW j \in Uploads PROVE Counted(j)'
    BY <2>2
  <2>3. Phase(j)'  BY <2>1 DEF vars, local, history, Counted, Phase, StoredBy
  <2>4. Rowed(j)' /\ Told(j)'
    BY <2>1 DEF vars, local, history, Counted, Rowed, Told, StoredBy, Ended
  <2> QED BY <2>3, <2>4 DEF Counted
<1> QED BY <1>1, <1>2, <1>3 DEF Next

-----------------------------------------------------------------------------
(* Names and duplicates.                                                   *)

\* A step that neither accepts a record, nor looks for a name, nor commits.
Quieter ==
  /\ UNCHANGED <<stored, parents, nextId, unsure>>
  /\ \A j \in Uploads :
       /\ pc[j] = "done" => pc'[j] = "done"
       /\ pc[j] = "report" => pc'[j] \in {"report", "done"}
       /\ pc[j] = "new" \/ pc'[j] # "new"
       /\ \/ made'[j] = made[j] /\ recs'[j] = recs[j] /\ filed'[j] = filed[j]
          \/ made'[j] = {} /\ recs'[j] = << >> /\ filed'[j] = << >>
       /\ \/ before'[j] = before[j] /\ up'[j] = up[j] /\ (pc[j] = "new" => pc'[j] = "new")
          \/ pc[j] = "new" /\ pc'[j] # "new" /\ before'[j] = {k \in Uploads : Ended(k)}

\* Three actions of Import decide what becomes of a record; all others are quieter.
LEMMA StepKinds ==
  ASSUME Shape, \A j \in Uploads : Counted(j), Next
  PROVE  \/ Quieter
         \/ \E i \in Uploads : Accept(i) \/ Resolve(i) \/ Commit(i) \/ LoseCommit(i)
<1>1. ASSUME NEW i \in Uploads, Upload(i) \/ StartImportJob(i) PROVE Quieter
  BY <1>1, BeginLeads, Zenon DEF Quieter, Others, Tables
<1>2. ASSUME NEW i \in Uploads, MarkRunning(i) PROVE Quieter
  BY <1>2, RunningLeads DEF Quieter, Others, Tables, Kept
<1>3. ASSUME NEW i \in Uploads, ScanBad(i) \/ Skip(i) PROVE Quieter
  BY <1>3, CountLeads DEF Quieter, Others, Tables, Kept
<1>4. ASSUME NEW i \in Uploads, EndScan(i) PROVE Quieter
  BY <1>4, EndScanLeads DEF Quieter, Others, Tables, Kept
<1>5. ASSUME NEW i \in Uploads, FailBatch(i) PROVE Quieter
  BY <1>5, FailBatchLeads DEF Quieter, Others, Tables, Kept, Dropped
<1>6. ASSUME NEW i \in Uploads, Report(i) PROVE Quieter
  BY <1>6, ReportLeads DEF Quieter, Others, Tables, Kept, Dropped
<1>7. CASE Crash
  BY <1>7, CrashLeads DEF Quieter, Tables, Dropped
<1>8. CASE Quiet
  BY <1>8 DEF Quiet, vars, local, history, Quieter
<1> QED BY Zenon, <1>1, <1>2, <1>3, <1>4, <1>5, <1>6, <1>7, <1>8 DEF Next

\* What is said of names, and of duplicates.
NamesInv ==
  /\ EndedBefore /\ Sequenced /\ CommittedBy /\ Filed
  /\ MadeOnce /\ TwinsByUploads /\ TwinsNeedOverlap
DuplicatesInv == AcceptedIsNew /\ RetryRecordsNothingTwice

\* Such a step changes nothing in the tables, and the uploads it begins have
\* neither rows nor names there.
LEMMA QuieterKeeps ==
  ASSUME Shape, \A j \in Uploads : Counted(j), Quieter, NamesInv, DuplicatesInv
  PROVE  NamesInv' /\ DuplicatesInv'
<1> USE DEF NamesInv, DuplicatesInv
<1>1. /\ stored' = stored /\ parents' = parents /\ nextId' = nextId /\ unsure' = unsure
  BY DEF Quieter
<1>2. EndedBefore'
  <2> SUFFICES ASSUME NEW i \in Uploads
               PROVE  i \notin before'[i] /\ \A j \in before'[i] : pc'[j] = "done"
    BY DEF EndedBefore, Ended
  <2>1. before[i] \in SUBSET Uploads  BY DEF Shape
  <2>2. \A j \in Uploads : pc[j] = "done" => pc'[j] = "done"  BY DEF Quieter
  <2>3. \/ before'[i] = before[i]
        \/ pc[i] = "new" /\ before'[i] = {k \in Uploads : Ended(k)}
    BY DEF Quieter
  <2> QED BY <2>1, <2>2, <2>3 DEF EndedBefore, Ended
<1>3. Sequenced'
  <2>1. \A i \in Uploads : made'[i] \subseteq made[i]  BY DEF Quieter
  <2> QED BY <1>1, <2>1 DEF Sequenced
<1>4. CommittedBy'
  <2>1. \A j \in Uploads : pc[j] \in {"report", "done"} => pc'[j] \in {"report", "done"}
    BY DEF Quieter
  <2> QED BY <1>1, <2>1 DEF CommittedBy
<1>5. Filed'
  <2>1. \A t \in stored' : \E p \in parents' : p.id = t.parent /\ p.name = Name[t.rec]
    BY <1>1 DEF Filed
  <2>2. ASSUME NEW i \in Uploads, NEW k \in 1..Len(filed'[i])
        PROVE  \E p \in parents' \cup made'[i] : p.id = filed'[i][k] /\ p.name = Name[recs'[i][k]]
    <3>1. CASE filed'[i] = << >>  BY <2>2, <3>1
    <3>2. CASE recs'[i] = recs[i] /\ filed'[i] = filed[i] /\ made'[i] = made[i]
      BY <1>1, <2>2, <3>2 DEF Filed
    <3> QED BY <3>1, <3>2 DEF Quieter
  <2> QED BY <2>1, <2>2 DEF Filed
<1>6. MadeOnce'
  <2> SUFFICES ASSUME NEW i \in Uploads, NEW p \in made'[i]
               PROVE  /\ p.by = i
                      /\ \A q \in made'[i] : q.name = p.name => q = p
                      /\ \A q \in parents' : q.name = p.name =>
                           q.by \in Uploads \ {i} /\ q.by \notin before'[i]
    BY DEF MadeOnce
  <2>1. made'[i] = made[i]  BY DEF Quieter
  <2>2. pc[i] # "new"  BY <2>1 DEF Counted, Phase
  <2>3. before'[i] = before[i]  BY <2>2 DEF Quieter
  <2> QED BY <1>1, <2>1, <2>3 DEF MadeOnce
<1>7. TwinsByUploads'  BY <1>1 DEF TwinsByUploads
<1>8. TwinsNeedOverlap'
  <2>1. \A j \in Uploads : pc[j] # "new" => before'[j] = before[j]  BY DEF Quieter
  <2> SUFFICES ASSUME NEW p \in parents, NEW q \in parents, p # q, p.name = q.name
               PROVE  p.by \notin before'[q.by] /\ q.by \notin before'[p.by]
    BY <1>1 DEF TwinsNeedOverlap
  <2>2. p.by \in Uploads /\ q.by \in Uploads  BY DEF TwinsByUploads
  <2>3. pc[p.by] # "new" /\ pc[q.by] # "new"  BY <2>2 DEF CommittedBy
  <2> QED BY <2>1, <2>2, <2>3 DEF TwinsNeedOverlap
<1>9. AcceptedIsNew'
  <2> SUFFICES ASSUME NEW i \in Uploads, pc'[i] # "new", up'[i].skip, i \notin unsure,
                      NEW k \in 1..Len(recs'[i]), NEW t \in stored,
                      t.rec = recs'[i][k], t.by \in before'[i]
               PROVE  Twin(Name[t.rec])
    BY Zenon, <1>1 DEF AcceptedIsNew, Twin, Called
  <2>1. recs'[i] # << >>  OBVIOUS
  <2>2. recs'[i] = recs[i]  BY <2>1 DEF Quieter
  <2>3. pc[i] # "new"  BY <2>1, <2>2 DEF Counted, Phase
  <2>4. before'[i] = before[i] /\ up'[i] = up[i]  BY <2>3 DEF Quieter
  <2> QED BY <2>2, <2>3, <2>4 DEF AcceptedIsNew
<1>10. RetryRecordsNothingTwice'
  <2>1. \A j \in Uploads : pc[j] # "new" => before'[j] = before[j] /\ up'[j] = up[j]
    BY DEF Quieter
  <2> SUFFICES ASSUME NEW t \in stored, NEW u \in stored, t.rec = u.rec,
                      t.by \in before'[u.by], up'[u.by].skip, u.by \notin unsure
               PROVE  Twin(Name[t.rec])
    BY <1>1 DEF RetryRecordsNothingTwice, Twin
  <2>2. u.by \in Uploads  BY DEF Shape, Stored
  <2>3. pc[u.by] # "new"
    <3>1. u \in StoredBy(u.by)  BY DEF StoredBy
    <3> QED BY <2>2, <3>1 DEF Counted, Phase
  <2> QED BY <2>1, <2>2, <2>3 DEF RetryRecordsNothingTwice
<1> QED BY <1>2, <1>3, <1>4, <1>5, <1>6, <1>7, <1>8, <1>9, <1>10

\* A record of which hasExistingDuplicate finds no row, although there is one,
\* is filed under a name that exists twice.
LEMMA MissedMeansTwins ==
  ASSUME Shape, Filed, NEW t \in stored, ~Exists(t.rec)
  PROVE  Twin(Name[t.rec])
<1> DEFINE n == Name[t.rec]
<1>1. PICK p \in parents : p.id = t.parent /\ p.name = n  BY DEF Filed
<1>2. p \in Called(n, parents)  BY <1>1 DEF Called
<1>3. First(n, parents) \in Called(n, parents)  BY <1>2, FirstExists DEF Shape
<1>4. First(n, parents) # p  BY <1>1, <1>2 DEF Exists
<1> QED BY <1>2, <1>3, <1>4 DEF Twin

\* What is accepted was not found in the ledger.
LEMMA AcceptKeeps ==
  ASSUME Shape, \A j \in Uploads : Counted(j), NEW i \in Uploads, Accept(i),
         NamesInv, DuplicatesInv
  PROVE  NamesInv' /\ DuplicatesInv'
<1> USE DEF NamesInv, DuplicatesInv
<1>1. pc[i] # "new" /\ up[i].file \in Files  BY DEF Accept, Scanning, Counted, Phase
<1>2. /\ UNCHANGED <<stored, parents, nextId, pc, up, filed, made, before>>
      /\ pc[i] = "scan"
  BY DEF Accept, Scanning
<1>3. /\ Others(i)
      /\ Row(i) \in Recs /\ Len(recs'[i]) = Len(recs[i]) + 1
      /\ recs'[i][Len(recs[i]) + 1] = Row(i)
      /\ \A k \in 1..Len(recs[i]) : recs'[i][k] = recs[i][k]
      /\ unsure \subseteq unsure' /\ unsure' \subseteq unsure \cup {i}
      /\ up[i].skip => ~Exists(Row(i)) \/ i \in unsure'
  BY <1>1, AcceptLeads
<1>4. EndedBefore'  BY <1>2 DEF EndedBefore, Ended
<1>5. Sequenced' /\ CommittedBy' /\ MadeOnce' /\ TwinsByUploads' /\ TwinsNeedOverlap'
  BY <1>2 DEF Sequenced, CommittedBy, MadeOnce, TwinsByUploads, TwinsNeedOverlap
<1>6. Filed'
  <2>1. filed[i] = << >>  BY <1>2 DEF Counted, Phase
  <2>2. \A j \in Uploads : j = i \/ recs'[j] = recs[j]  BY <1>3 DEF Others
  <2>3. ASSUME NEW j \in Uploads, NEW k \in 1..Len(filed[j])
        PROVE  \E p \in parents \cup made[j] : p.id = filed[j][k] /\ p.name = Name[recs'[j][k]]
    <3>1. j # i  BY <2>1, <2>3
    <3> QED BY <2>2, <3>1 DEF Filed
  <2> QED BY <1>2, <2>3 DEF Filed
<1>7. AcceptedIsNew'
  <2> SUFFICES ASSUME NEW j \in Uploads, pc'[j] # "new", up'[j].skip, j \notin unsure',
                      NEW k \in 1..Len(recs'[j]), NEW t \in stored',
                      t.rec = recs'[j][k], t.by \in before'[j]
               PROVE  Twin(Name[t.rec])'
    BY Zenon DEF AcceptedIsNew
  <2>1. Twin(Name[t.rec])' <=> Twin(Name[t.rec])  BY <1>2 DEF Twin, Called
  <2>2. j \notin unsure  BY <1>3
  <2>3. CASE j # i
    <3>1. recs'[j] = recs[j]  BY <1>3, <2>3 DEF Others
    <3> QED BY <1>2, <2>1, <2>2, <3>1 DEF AcceptedIsNew
  <2>4. CASE j = i /\ k \in 1..Len(recs[i])
    <3>1. recs'[i][k] = recs[i][k]  BY <1>3, <2>4
    <3> QED BY <1>2, <2>1, <2>2, <2>4, <3>1 DEF AcceptedIsNew
  <2>5. CASE j = i /\ k = Len(recs[i]) + 1
    <3>1. ~Exists(t.rec)  BY <1>2, <1>3, <2>5
    <3> QED BY <1>2, <2>1, <3>1, MissedMeansTwins
  <2>6. Len(recs[i]) \in Nat  BY DEF Shape
  <2> QED BY <1>3, <2>3, <2>4, <2>5, <2>6
<1>8. RetryRecordsNothingTwice'
  <2> SUFFICES ASSUME NEW t \in stored, NEW u \in stored, t.rec = u.rec,
                      t.by \in before[u.by], up[u.by].skip, u.by \notin unsure'
               PROVE  Twin(Name[t.rec])
    BY Zenon, <1>2 DEF RetryRecordsNothingTwice, Twin, Called
  <2>1. u.by \notin unsure  BY <1>3
  <2> QED BY <2>1 DEF RetryRecordsNothingTwice
<1> QED BY <1>4, <1>5, <1>6, <1>7, <1>8

\* What is made has a name and an id that nothing it can see has.
LEMMA ResolveKeeps ==
  ASSUME Shape, \A j \in Uploads : Counted(j), NEW i \in Uploads, Resolve(i),
         NamesInv, DuplicatesInv
  PROVE  NamesInv' /\ DuplicatesInv'
<1> USE DEF NamesInv, DuplicatesInv
<1>1. PICK n : n = Wanted(i)  OBVIOUS
<1>2. PICK g : g = filed'[i][Len(filed[i]) + 1]  OBVIOUS
<1>3. /\ Others(i) /\ UNCHANGED <<stored, parents, unsure>>
      /\ pc[i] = "resolve" /\ pc'[i] = "resolve" /\ recs'[i] = recs[i]
      /\ up'[i] = up[i] /\ before'[i] = before[i]
      /\ Len(filed'[i]) = Len(filed[i]) + 1
      /\ \A k \in 1..Len(filed[i]) : filed'[i][k] = filed[i][k]
      /\ \/ /\ nextId' = nextId /\ made'[i] = made[i]
            /\ \E p \in parents \cup made[i] : p.id = g /\ p.name = n
         \/ /\ nextId' = nextId + 1 /\ g = nextId
            /\ \A p \in parents \cup made[i] : p.name # n
            /\ made'[i] = made[i] \cup {[name |-> n, id |-> nextId, by |-> i]}
  BY <1>1, <1>2, ResolveLeads DEF Tables, Kept
<1>4. \A j \in Uploads : /\ pc'[j] = pc[j] /\ recs'[j] = recs[j] /\ up'[j] = up[j]
                         /\ before'[j] = before[j]
                         /\ j = i \/ (made'[j] = made[j] /\ filed'[j] = filed[j])
  BY <1>3 DEF Others
<1>5. EndedBefore'
  <2> SUFFICES ASSUME NEW j \in Uploads
               PROVE  j \notin before'[j] /\ \A k \in before'[j] : pc'[k] = "done"
    BY DEF EndedBefore, Ended
  <2>1. before[j] \in SUBSET Uploads  BY DEF Shape
  <2> QED BY <1>4, <2>1 DEF EndedBefore, Ended
<1>6. Sequenced'
  <2>1. nextId \in Nat  BY DEF Shape
  <2>2. nextId' = nextId \/ nextId' = nextId + 1  BY <1>3
  <2>3. \A p \in parents : p.id \in Nat  BY DEF Shape, Parent
  <2>4. \A p \in parents' : p.id < nextId'  BY <1>3, <2>1, <2>2, <2>3 DEF Sequenced
  <2>5. ASSUME NEW j \in Uploads, NEW p \in made'[j] PROVE p.id < nextId'
    <3>1. CASE p \in made[j]
      <4>1. p.id \in Nat  BY <3>1 DEF Shape, Parent
      <4> QED BY <2>1, <2>2, <3>1, <4>1 DEF Sequenced
    <3>2. CASE p \notin made[j]
      <4>1. j = i  BY <1>4, <2>5, <3>2
      <4>2. p.id = nextId /\ nextId' = nextId + 1  BY <1>3, <2>5, <3>2, <4>1
      <4> QED BY <2>1, <4>2
    <3> QED BY <3>1, <3>2
  <2> QED BY <2>4, <2>5 DEF Sequenced
<1>7. CommittedBy' /\ TwinsByUploads'
  BY <1>3, <1>4 DEF CommittedBy, TwinsByUploads
<1>8. Filed'
  <2>1. \A t \in stored' : \E p \in parents' : p.id = t.parent /\ p.name = Name[t.rec]
    BY <1>3 DEF Filed
  <2>2. ASSUME NEW j \in Uploads, NEW k \in 1..Len(filed'[j])
        PROVE  \E p \in parents' \cup made'[j] : p.id = filed'[j][k] /\ p.name = Name[recs'[j][k]]
    <3>1. CASE j # i  BY <1>3, <1>4, <2>2, <3>1 DEF Filed
    <3>2. CASE j = i /\ k \in 1..Len(filed[i])
      <4>1. PICK p \in parents \cup made[i] : p.id = filed[i][k] /\ p.name = Name[recs[i][k]]
        BY <3>2 DEF Filed
      <4>2. p \in parents' \cup made'[i]  BY <1>3
      <4> QED BY <1>3, <3>2, <4>1, <4>2
    <3>3. CASE j = i /\ k = Len(filed[i]) + 1
      <4>1. next[i] = k  BY <1>3, <3>3 DEF Counted, Phase, Shape
      <4>2. n = Name[recs'[j][k]]  BY <1>1, <1>3, <3>3, <4>1 DEF Wanted
      <4>3. \E p \in parents' \cup made'[i] : p.id = g /\ p.name = n
        <5>1. CASE \E p \in parents \cup made[i] : p.id = g /\ p.name = n
          <6>1. parents \cup made[i] \subseteq parents' \cup made'[i]  BY <1>3
          <6> QED BY <5>1, <6>1
        <5>2. CASE /\ g = nextId
                   /\ made'[i] = made[i] \cup {[name |-> n, id |-> nextId, by |-> i]}
          <6> DEFINE new == [name |-> n, id |-> nextId, by |-> i]
          <6>1. new \in made'[i] /\ new.id = g /\ new.name = n  BY <5>2
          <6> HIDE DEF new
          <6> QED BY <6>1
        <5> QED BY <1>3, <5>1, <5>2
      <4> QED BY <1>2, <3>3, <4>2, <4>3
    <3>4. Len(filed[i]) \in Nat  BY DEF Shape
    <3> QED BY <1>3, <2>2, <3>1, <3>2, <3>3, <3>4
  <2> QED BY <2>1, <2>2 DEF Filed
<1>9. MadeOnce'
  <2> SUFFICES ASSUME NEW j \in Uploads, NEW p \in made'[j]
               PROVE  /\ p.by = j
                      /\ \A q \in made'[j] : q.name = p.name => q = p
                      /\ \A q \in parents' : q.name = p.name =>
                           q.by \in Uploads \ {j} /\ q.by \notin before'[j]
    BY DEF MadeOnce
  <2>1. CASE made'[j] = made[j]  BY <1>3, <1>4, <2>1 DEF MadeOnce
  <2>2. CASE made'[j] # made[j]
    <3> DEFINE new == [name |-> n, id |-> nextId, by |-> i]
    <3>1. /\ j = i /\ made'[i] = made[i] \cup {new}
          /\ \A q \in parents \cup made[i] : q.name # n
      BY <1>3, <1>4, <2>2
    <3>2. new.name = n /\ new.by = i  OBVIOUS
    <3> HIDE DEF new
    <3> QED BY <1>3, <3>1, <3>2 DEF MadeOnce
  <2> QED BY <2>1, <2>2
<1>10. TwinsNeedOverlap'
  <2>1. \A p, q \in parents : p # q /\ p.name = q.name => p.by \in Uploads /\ q.by \in Uploads
    BY DEF TwinsByUploads
  <2> QED BY <1>3, <1>4, <2>1 DEF TwinsNeedOverlap
<1>11. AcceptedIsNew'
  <2>1. \A x : Twin(x)' <=> Twin(x)  BY <1>3 DEF Twin, Called
  <2> SUFFICES ASSUME NEW j \in Uploads, pc'[j] # "new", up'[j].skip, j \notin unsure',
                      NEW k \in 1..Len(recs'[j]), NEW t \in stored',
                      t.rec = recs'[j][k], t.by \in before'[j]
               PROVE  Twin(Name[t.rec])'
    BY Zenon DEF AcceptedIsNew
  <2> QED BY <1>3, <1>4, <2>1 DEF AcceptedIsNew
<1>12. RetryRecordsNothingTwice'
  <2>1. \A t \in stored : t.by \in Uploads  BY DEF Shape, Stored
  <2>2. stored' = stored /\ unsure' = unsure /\ \A x : Twin(x)' <=> Twin(x)
    BY <1>3 DEF Twin, Called
  <2> SUFFICES ASSUME NEW t \in stored, NEW u \in stored, t.rec = u.rec,
                      t.by \in before'[u.by], up'[u.by].skip, u.by \notin unsure
               PROVE  Twin(Name[t.rec])
    BY Zenon, <2>2 DEF RetryRecordsNothingTwice, Twin, Called
  <2>3. u.by \in Uploads  BY <2>1
  <2>4. t.by \in before[u.by] /\ up[u.by].skip  BY <1>4, <2>3
  <2> QED BY <2>4 DEF RetryRecordsNothingTwice
<1> QED BY <1>5, <1>6, <1>7, <1>8, <1>9, <1>10, <1>11, <1>12

\* What is committed was new when it was accepted, and no upload that began
\* since has seen it: the uploads before another had ended.
LEMMA CommitKeeps ==
  ASSUME Shape, \A j \in Uploads : Counted(j), NEW i \in Uploads, Commit(i) \/ LoseCommit(i),
         NamesInv, DuplicatesInv
  PROVE  NamesInv' /\ DuplicatesInv'
<1> USE DEF NamesInv, DuplicatesInv
<1>0. Len(filed[i]) = next[i] - 1  BY DEF Counted, Phase, Commit, LoseCommit, Install
<1>1. /\ Others(i) /\ nextId' = nextId /\ unsure' = unsure
      /\ up'[i] = up[i] /\ before'[i] = before[i]
      /\ recs'[i] = << >> /\ filed'[i] = << >> /\ made'[i] = {}
      /\ pc[i] = "resolve" /\ pc'[i] = "report" /\ Len(filed[i]) >= Len(recs[i])
      /\ stored' = stored \cup Batch(i) /\ parents' = parents \cup made[i]
  BY <1>0, CommitLeads DEF Kept, Dropped
<1>2. \A j \in Uploads : /\ up'[j] = up[j] /\ before'[j] = before[j]
                         /\ j = i \/ /\ pc'[j] = pc[j] /\ recs'[j] = recs[j]
                                     /\ made'[j] = made[j] /\ filed'[j] = filed[j]
  BY <1>1 DEF Others
<1>3. /\ recs[i] \in Seq(Recs) /\ filed[i] \in Seq(Nat) /\ made[i] \in SUBSET Parent
      /\ \A j \in Uploads : before[j] \in SUBSET Uploads
      /\ \A t \in stored : t.by \in Uploads
      /\ \A p \in parents : p.by \in Uploads \cup {Owner}
  BY DEF Shape, Stored, Parent
<1>4. \A j \in Uploads : i \notin before[j]  BY <1>1 DEF EndedBefore, Ended
<1>5. \A t \in Batch(i) :
        /\ t.by = i
        /\ \E k \in 1..Len(recs[i]) : t.rec = recs[i][k] /\ t.parent = filed[i][k]
  <2>1. DOMAIN recs[i] = 1..Len(recs[i])  BY <1>3
  <2> SUFFICES ASSUME NEW t \in Batch(i)
               PROVE  t.by = i /\ \E k \in 1..Len(recs[i]) :
                                     t.rec = recs[i][k] /\ t.parent = filed[i][k]
    OBVIOUS
  <2>2. PICK k \in DOMAIN recs[i] : t = [rec |-> recs[i][k], parent |-> filed[i][k], by |-> i]
    BY DEF Batch
  <2> QED BY <2>1, <2>2
<1> HIDE DEF Batch
<1>6. \A p \in made[i] :
        /\ p.by = i
        /\ \A q \in made[i] : q.name = p.name => q = p
        /\ \A q \in parents : q.name = p.name => q.by \in Uploads \ {i} /\ q.by \notin before[i]
  BY DEF MadeOnce
<1>7. EndedBefore'
  <2> SUFFICES ASSUME NEW j \in Uploads
               PROVE  j \notin before'[j] /\ \A k \in before'[j] : pc'[k] = "done"
    BY DEF EndedBefore, Ended
  <2> QED BY <1>1, <1>2, <1>3, <1>4 DEF EndedBefore, Ended
<1>8. Sequenced'
  <2>1. \A p \in parents' : p.id < nextId  BY <1>1 DEF Sequenced
  <2>2. \A j \in Uploads : \A p \in made'[j] : p.id < nextId  BY <1>1, <1>2 DEF Sequenced
  <2> QED BY <1>1, <2>1, <2>2 DEF Sequenced
<1>9. CommittedBy'
  <2> SUFFICES ASSUME NEW p \in parents', p.by \in Uploads PROVE pc'[p.by] \in {"report", "done"}
    BY DEF CommittedBy
  <2> QED BY <1>1, <1>2, <1>6 DEF CommittedBy
<1>10. Filed'
  <2>1. ASSUME NEW t \in stored' PROVE \E p \in parents' : p.id = t.parent /\ p.name = Name[t.rec]
    <3>1. CASE t \in stored  BY <1>1, <3>1 DEF Filed
    <3>2. CASE t \in Batch(i)
      <4>1. PICK k \in 1..Len(recs[i]) : t.rec = recs[i][k] /\ t.parent = filed[i][k]
        BY <1>5, <3>2
      <4>2. k \in 1..Len(filed[i])  BY <1>1, <1>3
      <4> QED BY <1>1, <4>1, <4>2 DEF Filed
    <3> QED BY <1>1, <2>1, <3>1, <3>2
  <2>2. ASSUME NEW j \in Uploads, NEW k \in 1..Len(filed'[j])
        PROVE  \E p \in parents' \cup made'[j] : p.id = filed'[j][k] /\ p.name = Name[recs'[j][k]]
    <3>1. j # i  BY <1>1, <2>2
    <3>2. filed'[j] = filed[j] /\ recs'[j] = recs[j] /\ made'[j] = made[j]  BY <1>2, <3>1
    <3>3. PICK p \in parents \cup made[j] : p.id = filed[j][k] /\ p.name = Name[recs[j][k]]
      BY <2>2, <3>2 DEF Filed
    <3> QED BY <1>1, <3>2, <3>3
  <2> QED BY <2>1, <2>2 DEF Filed
<1>11. MadeOnce'
  <2> SUFFICES ASSUME NEW j \in Uploads, NEW p \in made'[j]
               PROVE  /\ p.by = j
                      /\ \A q \in made'[j] : q.name = p.name => q = p
                      /\ \A q \in parents' : q.name = p.name =>
                           q.by \in Uploads \ {j} /\ q.by \notin before'[j]
    BY DEF MadeOnce
  <2>1. j # i  BY <1>1
  <2>2. made'[j] = made[j] /\ before'[j] = before[j]  BY <1>2, <2>1
  <2> QED BY <1>1, <1>4, <1>6, <2>1, <2>2 DEF MadeOnce
<1>12. TwinsByUploads'
  <2> SUFFICES ASSUME NEW p \in parents', NEW q \in parents', p # q, p.name = q.name
               PROVE  p.by \in Uploads
    BY DEF TwinsByUploads
  <2>1. CASE p \in made[i]  BY <1>6, <2>1
  <2>2. CASE p \in parents /\ q \in made[i]  BY <1>6, <2>2
  <2>3. CASE p \in parents /\ q \in parents  BY <2>3 DEF TwinsByUploads
  <2> QED BY <1>1, <2>1, <2>2, <2>3
<1>13. TwinsNeedOverlap'
  <2> SUFFICES ASSUME NEW p \in parents', NEW q \in parents', p # q, p.name = q.name
               PROVE  p.by \notin before'[q.by] /\ q.by \notin before'[p.by]
    BY DEF TwinsNeedOverlap
  <2>1. p.by \in Uploads /\ q.by \in Uploads  BY <1>12 DEF TwinsByUploads
  <2>2. before'[p.by] = before[p.by] /\ before'[q.by] = before[q.by]  BY <1>2, <2>1
  <2>3. CASE p \in made[i] /\ q \in made[i]  BY <1>6, <2>3
  <2>4. CASE p \in made[i] /\ q \in parents  BY <1>4, <1>6, <2>1, <2>2, <2>4
  <2>5. CASE p \in parents /\ q \in made[i]  BY <1>4, <1>6, <2>1, <2>2, <2>5
  <2>6. CASE p \in parents /\ q \in parents  BY <2>2, <2>6 DEF TwinsNeedOverlap
  <2> QED BY <1>1, <2>3, <2>4, <2>5, <2>6
<1>14. \A n : Twin(n) => Twin(n)'  BY <1>1 DEF Twin, Called
<1>15. AcceptedIsNew'
  <2> SUFFICES ASSUME NEW j \in Uploads, pc'[j] # "new", up'[j].skip, j \notin unsure',
                      NEW k \in 1..Len(recs'[j]), NEW t \in stored',
                      t.rec = recs'[j][k], t.by \in before'[j]
               PROVE  Twin(Name[t.rec])'
    BY Zenon DEF AcceptedIsNew
  <2>1. j # i  BY <1>1
  <2>2. t \notin Batch(i)  BY <1>2, <1>4, <1>5
  <2>3. t \in stored  BY <1>1, <2>2
  <2>4. Twin(Name[t.rec])  BY <1>1, <1>2, <2>1, <2>3 DEF AcceptedIsNew
  <2> QED BY <1>14, <2>4
<1>16. RetryRecordsNothingTwice'
  <2> SUFFICES ASSUME NEW t \in stored', NEW u \in stored', t.rec = u.rec,
                      t.by \in before'[u.by], up'[u.by].skip, u.by \notin unsure'
               PROVE  Twin(Name[t.rec])'
    BY Zenon DEF RetryRecordsNothingTwice
  <2>1. u.by \in Uploads  BY <1>1, <1>3, <1>5
  <2>2. t \in stored /\ t.by \in before[u.by] /\ up[u.by].skip /\ u.by \notin unsure
    BY <1>1, <1>2, <1>4, <1>5, <2>1
  <2>3. CASE u \in stored  BY <1>14, <2>2, <2>3 DEF RetryRecordsNothingTwice
  <2>4. CASE u \in Batch(i)
    <3>1. u.by = i  BY <1>5, <2>4
    <3>2. PICK k \in 1..Len(recs[i]) : u.rec = recs[i][k]  BY <1>5, <2>4
    <3>3. Twin(Name[t.rec])  BY <1>1, <2>2, <3>1, <3>2 DEF AcceptedIsNew
    <3> QED BY <1>14, <3>3
  <2> QED BY <1>1, <2>3, <2>4
<1> QED BY <1>7, <1>8, <1>9, <1>10, <1>11, <1>12, <1>13, <1>15, <1>16

-----------------------------------------------------------------------------
(* The theorems.                                                           *)

\* The invariant in the parts the steps were proved by.
LEMMA InvParts ==
  ImportInv <=> Shape /\ (\A j \in Uploads : Counted(j)) /\ NamesInv /\ DuplicatesInv
BY AllTold DEF ImportInv, Counted, NamesInv, DuplicatesInv

\* It holds at the start: there is nothing but the names there are.
LEMMA InitImport == Init => ImportInv
<1> SUFFICES ASSUME Init PROVE ImportInv
  OBVIOUS
<1> USE DEF Init
<1>1. << >> \in Seq(Recs) /\ << >> \in Seq(Nat) /\ NoCount \in Counts
  BY DEF NoCount, Counts
<1>2. parents \subseteq Parent
  BY ImportAssumption DEF Parent
<1>3. Shape  BY <1>1, <1>2 DEF Shape, PCs
<1>4. ASSUME NEW i \in Uploads PROVE Phase(i) /\ Rowed(i)
  BY <1>4 DEF Phase, Rowed, StoredBy, NoCount
<1>5. \A p \in parents : p.by = Owner /\ p.id = 0  OBVIOUS
<1>6. \A p, q \in parents : p.name = q.name => p = q  OBVIOUS
<1>7. EndedBefore  BY DEF EndedBefore
<1>8. Sequenced  BY <1>5 DEF Sequenced
<1>9. CommittedBy  BY <1>5, ImportAssumption DEF CommittedBy
<1>10. Filed  BY DEF Filed
<1>11. MadeOnce  BY DEF MadeOnce
<1>12. TwinsByUploads /\ TwinsNeedOverlap  BY <1>6 DEF TwinsByUploads, TwinsNeedOverlap
<1>13. AcceptedIsNew /\ RetryRecordsNothingTwice
  BY DEF AcceptedIsNew, RetryRecordsNothingTwice
<1>14. JobTellsTheLedger  BY DEF JobTellsTheLedger
<1> QED BY <1>3, <1>4, <1>7, <1>8, <1>9, <1>10, <1>11, <1>12, <1>13, <1>14 DEF ImportInv

\* Every step keeps it.
LEMMA StepImport == ImportInv /\ [Next]_vars => ImportInv'
<1>1. ASSUME ImportInv, Next PROVE ImportInv'
  <2>1. Shape /\ (\A j \in Uploads : Counted(j)) /\ NamesInv /\ DuplicatesInv
    BY <1>1, InvParts
  <2>2. Shape' /\ \A j \in Uploads : Counted(j)'  BY <1>1, <2>1, CountedStep
  <2>3. NamesInv' /\ DuplicatesInv'
    <3>1. \/ Quieter
          \/ \E i \in Uploads : Accept(i) \/ Resolve(i) \/ Commit(i) \/ LoseCommit(i)
      BY <1>1, <2>1, StepKinds
    <3> QED BY <2>1, <3>1, QuieterKeeps, AcceptKeeps, ResolveKeeps, CommitKeeps
  <2>4. ImportInv' <=> (Shape /\ (\A j \in Uploads : Counted(j)) /\ NamesInv /\ DuplicatesInv)'
    BY InvParts, PTL
  <2> QED BY <2>2, <2>3, <2>4
<1>2. ASSUME ImportInv, UNCHANGED vars PROVE ImportInv'
  <2>1. UNCHANGED <<stored, parents, nextId, job, pc, up, next, recs, filed, made, res,
                    before, lost, unsure, unheard>>
    BY <1>2 DEF vars, local, history
  <2>2. Quieter  BY <2>1 DEF Quieter
  <2>3. Shape /\ (\A j \in Uploads : Counted(j)) /\ NamesInv /\ DuplicatesInv
    BY <1>2, InvParts
  <2>4. Shape'  BY <2>1, <2>3 DEF Shape
  <2>5. ASSUME NEW j \in Uploads PROVE Counted(j)'
    <3>1. Phase(j)'  BY <2>1, <2>3 DEF Counted, Phase, StoredBy
    <3>2. Rowed(j)' /\ Told(j)'  BY <2>1, <2>3 DEF Counted, Rowed, Told, StoredBy, Ended
    <3> QED BY <3>1, <3>2 DEF Counted
  <2>6. NamesInv' /\ DuplicatesInv'  BY <2>2, <2>3, QuieterKeeps
  <2>7. ImportInv' <=> (Shape /\ (\A j \in Uploads : Counted(j)) /\ NamesInv /\ DuplicatesInv)'
    BY InvParts, PTL
  <2> QED BY <2>4, <2>5, <2>6, <2>7
<1> QED BY <1>1, <1>2

\* The inductive invariant of imports holds in every reachable state.
THEOREM ImportInvariant == Spec => []ImportInv
BY InitImport, StepImport, PTL DEF Spec

\* The types follow from it.
LEMMA InvTypes == ImportInv => TypeOK
<1> SUFFICES ASSUME ImportInv PROVE TypeOK
  OBVIOUS
<1> USE DEF ImportInv
<1>1. \A t \in stored : t.rec \in Recs /\ t.by \in Uploads /\ \E p \in parents : p.id = t.parent
  BY DEF Shape, Stored, Filed
<1>2. \A p \in parents : p.name \in Names /\ p.id < nextId  BY DEF Shape, Parent, Sequenced
<1>3. \A i \in Uploads : job[i] # None =>
        /\ job[i].status \in {"queued", "running", "completed", "failed"}
        /\ job[i].total = Len(up[i].file)
  BY DEF Rowed
<1>4. \A i \in Uploads : up[i] # None => up[i].file \in Files /\ up[i].skip \in BOOLEAN
  BY DEF Phase
<1>5. res \in [Uploads -> [success : Nat, failed : Nat, skipped : Nat]]  BY DEF Shape, Counts
<1>6. ASSUME NEW i \in Uploads PROVE next[i] \in Nat \ {0} /\ Len(filed[i]) <= Len(recs[i])
  <2>1. /\ next[i] \in Nat \ {0} /\ Len(recs[i]) \in Nat /\ Len(filed[i]) \in Nat
    BY DEF Shape
  <2>2. CASE pc[i] = "resolve"  BY <2>1, <2>2 DEF Phase
  <2>3. CASE pc[i] # "resolve"  BY <2>1, <2>3 DEF Phase
  <2> QED BY <2>2, <2>3
<1> QED BY <1>1, <1>2, <1>3, <1>4, <1>5, <1>6 DEF TypeOK

\* Type correctness of imports: rows refer to names that are there, ids come
\* from the sequence, jobs count the rows of their file.
THEOREM ImportTypeCorrect == Spec => []TypeOK
BY ImportInvariant, InvTypes, PTL

\* The row of a job that ended counts every row of its file once and says
\* "nothing imported" exactly when the ledger has nothing of it, unless the
\* answer of its COMMIT was lost (service.go:168-202, 252-285).
THEOREM JobTellsTheLedgerHolds == Spec => []JobTellsTheLedger
<1>1. ImportInv => JobTellsTheLedger  BY DEF ImportInv
<1> QED BY <1>1, ImportInvariant, PTL

\* Uploads that do not overlap create no name twice, however many there are
\* (store/store.go:280-339).
THEOREM TwinsNeedOverlapHolds == Spec => []TwinsNeedOverlap
<1>1. ImportInv => TwinsNeedOverlap  BY DEF ImportInv
<1> QED BY <1>1, ImportInvariant, PTL

\* A later upload that skips duplicates and whose queries are answered records
\* again only what is filed under a name that exists twice
\* (service.go:235-246 and 310).
THEOREM RetryRecordsNothingTwiceHolds == Spec => []RetryRecordsNothingTwice
<1>1. ImportInv => RetryRecordsNothingTwice  BY DEF ImportInv
<1> QED BY <1>1, ImportInvariant, PTL

=============================================================================
