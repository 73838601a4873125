---------------------------- MODULE StartupProofs ----------------------------
(***************************************************************************)
(* Proofs about Startup and Migrate: what is recorded is complete, a       *)
(* server that answers is ready, twins have rivals, and whoever starts     *)
(* alone gets through, for any number of servers, logins and migrations,   *)
(* any files, tables, categories and accounts.                             *)
(***************************************************************************)
EXTENDS Startup, FiniteSetTheorems, TLAPS

ServerStates == {"down", "tables", "create", "refill", "seed", "seeding", "admin",
                 "adding", "defaults", "serving", "draining", "failed"}

MigRec == [pc : MigratorStates, file : 1..(Len(Script) + 1),
           stmt : Nat \ {0}, own : SUBSET Objects]

\* The parts of TypeOK, with the functions that hold the records.
MigShape ==
  /\ driver \in {"postgres", "mysql"}
  /\ objects \subseteq Objects \cup {Tables[i] : i \in 1..Len(Tables)}
  /\ recorded \subseteq Files
  /\ mig \in [Migrators -> MigRec]
  /\ \A m \in Migrators :
       /\ mig[m].pc \in {"exec", "wait"} => mig[m].file \in Files
       /\ mig[m].pc = "wait" => Statement(m)

SrvRec == [pc : ServerStates, k : Nat \ {0}]

SrvShape ==
  /\ srv \in [Servers -> SrvRec]
  /\ \A s \in Servers : /\ srv[s].pc = "create" => srv[s].k \in 1..Len(Tables)
                        /\ srv[s].pc = "seeding" => srv[s].k \in 1..Len(Seeds)

EnsRec == [k : 0..(Len(Defaults) + 1), missing : BOOLEAN]

EnsShape ==
  /\ ensure \in [Actors -> EnsRec]
  /\ \A a \in Actors : ensure[a].missing => ensure[a].k \in 1..Len(Defaults)
  /\ at \in [Logins -> Servers \cup {None}]

CountShape ==
  /\ count \in [Names -> Nat]
  /\ admin \in {"none", "nopassword", "ready"}
  /\ rivals \subseteq Names /\ removed \subseteq Names

ProcShape ==
  /\ crew \in Crews
  /\ beside \subseteq Servers \cup Migrators
  /\ stops \in 0..MaxStops

Shape == MigShape /\ SrvShape /\ EnsShape /\ CountShape /\ ProcShape

\* A command has created, or found, what its statements so far ask for; only
\* PostgreSQL keeps it apart until the commit.
FileSoFar ==
  \A m \in Migrators :
    /\ mig[m].pc \in {"exec", "wait"} =>
         \A i \in 1..(mig[m].stmt - 1) : Script[mig[m].file][i] \in objects \cup mig[m].own
    /\ mig[m].own # {} => mig[m].pc \in {"exec", "wait"} /\ driver = "postgres"

MigInv == MigShape /\ FileSoFar /\ RecordedIsComplete

\* The owner's book: the old balance enters it only while it is empty.
Book ==
  /\ balance \in 0..(MaxBalance + Legacy) /\ posted \in Int
  /\ fills \in Nat /\ emptied \in Nat
  /\ LegacyCountedOncePerEmptying
  /\ balance = 0 => fills < emptied

\* How far a start, and a call of EnsureDefaultDataForUser, has come.
Seeded(k) == \A i \in 1..Len(Seeds) : i < k => count[Seeds[i]] > 0
Ensured(k) == \A i \in 1..Len(Defaults) : i < k =>
                count[Defaults[i]] > 0 \/ Defaults[i] \in removed

Progress ==
  /\ \A s \in Servers :
       /\ srv[s].pc \in {"seed", "seeding"} => Seeded(srv[s].k)
       /\ srv[s].pc \in {"admin", "adding", "defaults", "serving", "draining"} =>
            Seeded(Len(Seeds) + 1)
       /\ srv[s].pc \in {"defaults", "serving", "draining"} => admin = "ready"
       /\ Up(s) => Ensured(Len(Defaults) + 1)
       /\ ensure[s].k > 0 => srv[s].pc = "defaults"
  /\ \A a \in Actors : Ensured(ensure[a].k)

\* The actors about to create a row called n, having counted none.
Creating(a, n) ==
  \/ a \in Servers /\ srv[a].pc = "seeding" /\ Seeds[srv[a].k] = n
  \/ ensure[a].missing /\ Defaults[ensure[a].k] = n
Pending(n) == {a \in Actors : Creating(a, n)}

\* While nobody has a rival there is one such actor at most, and no row.
OneCreates ==
  \A n \in Names \ rivals :
    /\ \A a, b \in Pending(n) : a = b
    /\ Pending(n) # {} => count[n] = 0
    /\ count[n] <= 1

\* Each actor adds a row at most before it counts again.
FewCreate == \A n \in Names : count[n] + Cardinality(Pending(n)) <= Cardinality(Actors)

\* Who has started alone is alone, and what it looked for is still missing.
Alone ==
  /\ \A p \in Busy \ beside : Busy = {p}
  /\ \A s \in Servers \ beside :
       /\ srv[s].pc = "create" => Tables[srv[s].k] \notin objects
       /\ srv[s].pc = "adding" => admin = "none"
  /\ \A m \in Migrators \ beside :
       /\ mig[m].pc # "wait"
       /\ mig[m].pc = "exec" => mig[m].file \notin recorded

StartInv ==
  /\ Shape /\ MigInv /\ Book /\ Progress /\ OneCreates /\ FewCreate
  /\ Alone /\ FailsOnlyBesideAnother

-----------------------------------------------------------------------------
(* The migration command.                                                  *)

\* The tables of AutoMigrate.
TableSet == {Tables[i] : i \in 1..Len(Tables)}

\* What a statement creates is one of the objects.
LEMMA TargetIsObject ==
  ASSUME NEW f \in Files, NEW i \in Nat \ {0}, i <= Len(Script[f])
  PROVE  Script[f][i] \in Objects /\ Script[f][i] \in MadeBy(f)
<1>1. Len(Script[f]) \in Nat  BY MigrateAssumption DEF Files
<1>2. i \in 1..Len(Script[f])  BY <1>1
<1>3. Script[f][i] \in MadeBy(f)  BY <1>2 DEF MadeBy
<1> QED BY <1>3 DEF Objects

\* One command moves on: what has to hold of its new record.
LEMMA MigMoves ==
  ASSUME MigInv, NEW m \in Migrators, NEW x \in MigRec,
         mig' = [mig EXCEPT ![m] = x],
         driver' = driver,
         objects \subseteq objects', objects' \subseteq Objects \cup TableSet,
         x.pc \in {"exec", "wait"} => x.file \in Files
           /\ \A i \in 1..(x.stmt - 1) : Script[x.file][i] \in objects' \cup x.own,
         x.pc = "wait" => x.stmt <= Len(Script[x.file]),
         x.own # {} => x.pc \in {"exec", "wait"} /\ driver = "postgres",
         recorded' \subseteq Files, \A f \in recorded' \ recorded : MadeBy(f) \subseteq objects'
  PROVE  MigInv'
<1>2. mig \in [Migrators -> MigRec]  BY DEF MigInv, MigShape
<1>3. mig' \in [Migrators -> MigRec]  BY <1>2, Zenon
<1>4. mig'[m] = x /\ \A n \in Migrators \ {m} : mig'[n] = mig[n]  BY <1>2, Zenon
<1>6. MigShape'
  <2>1. ASSUME NEW n \in Migrators
        PROVE  /\ mig'[n].pc \in {"exec", "wait"} => mig'[n].file \in Files
               /\ mig'[n].pc = "wait" => mig'[n].stmt <= Len(Script[mig'[n].file])
    <3>1. CASE n = m  BY <3>1, <1>4, Zenon
    <3>2. CASE n # m  BY <3>2, <1>4 DEF MigInv, MigShape, Statement
    <3> QED BY <3>1, <3>2
  <2> QED BY <2>1, <1>3 DEF MigInv, MigShape, Statement, TableSet
<1>7. FileSoFar'
  <2>1. ASSUME NEW n \in Migrators
        PROVE  /\ mig'[n].pc \in {"exec", "wait"} =>
                    \A i \in 1..(mig'[n].stmt - 1) :
                      Script[mig'[n].file][i] \in objects' \cup mig'[n].own
               /\ mig'[n].own # {} => mig'[n].pc \in {"exec", "wait"} /\ driver' = "postgres"
    <3>1. CASE n = m  BY <3>1, <1>4, Zenon
    <3>2. CASE n # m  BY <3>2, <1>4 DEF MigInv, FileSoFar
    <3> QED BY <3>1, <3>2
  <2> QED BY <2>1 DEF FileSoFar
<1>8. RecordedIsComplete'
  BY DEF MigInv, RecordedIsComplete, MadeBy
<1> QED BY <1>6, <1>7, <1>8 DEF MigInv

\* AutoMigrate adds tables and changes nothing else of the command's state.
LEMMA MigFrame ==
  ASSUME MigInv, driver' = driver, recorded' = recorded, mig' = mig,
         objects \subseteq objects', objects' \subseteq Objects \cup TableSet
  PROVE  MigInv'
<1>1. MigShape'  BY DEF MigInv, MigShape, Statement, TableSet
<1>2. FileSoFar'  BY DEF MigInv, FileSoFar
<1>3. RecordedIsComplete'  BY DEF MigInv, RecordedIsComplete, MadeBy
<1> QED BY <1>1, <1>2, <1>3 DEF MigInv

\* What the invariant says of one command, field by field.
LEMMA MigFields ==
  ASSUME MigInv, NEW m \in Migrators
  PROVE  /\ mig[m].pc \in MigratorStates /\ mig[m].file \in 1..(Len(Script) + 1)
         /\ mig[m].stmt \in Nat \ {0} /\ mig[m].own \subseteq Objects
         /\ mig[m] \in MigRec
         /\ mig[m].pc \in {"exec", "wait"} => mig[m].file \in Files
              /\ \A i \in 1..(mig[m].stmt - 1) :
                   Script[mig[m].file][i] \in objects \cup mig[m].own
         /\ mig[m].pc = "wait" => mig[m].stmt <= Len(Script[mig[m].file])
         /\ mig[m].own # {} => mig[m].pc \in {"exec", "wait"} /\ driver = "postgres"
         /\ DOMAIN mig = Migrators
         /\ objects \subseteq Objects \cup TableSet /\ recorded \subseteq Files
BY DEF MigInv, MigShape, MigRec, FileSoFar, Statement, TableSet

\* Commands that start, end or stop hold nothing.
LEMMA MigToIdle ==
  ASSUME MigInv, NEW m \in Migrators, NEW x \in MigRec,
         x.pc \notin {"exec", "wait"}, x.own = {},
         mig' = [mig EXCEPT ![m] = x],
         UNCHANGED <<driver, objects, recorded>>
  PROVE  MigInv'
BY MigMoves, MigFields

\* The records such a command may get.
LEMMA IdleRecords ==
  ASSUME NEW pc \in MigratorStates, NEW file \in 1..(Len(Script) + 1)
  PROVE  /\ [Idle EXCEPT !.pc = pc] \in MigRec /\ Idle \in MigRec
         /\ [Idle EXCEPT !.pc = pc, !.file = file] \in MigRec
         /\ [Idle EXCEPT !.pc = pc].pc = pc /\ [Idle EXCEPT !.pc = pc].own = {}
         /\ Idle.pc = "idle" /\ Idle.own = {}
         /\ [Idle EXCEPT !.pc = pc, !.file = file].pc = pc
         /\ [Idle EXCEPT !.pc = pc, !.file = file].own = {}
<1>1. Idle \in MigRec  BY MigrateAssumption DEF Idle, MigRec, MigratorStates
<1>2. [Idle EXCEPT !.pc = pc] \in MigRec  BY <1>1, Zenon DEF MigRec
<1>3. [Idle EXCEPT !.pc = pc, !.file = file] \in MigRec  BY <1>1, Zenon DEF MigRec
<1> QED BY <1>1, <1>2, <1>3 DEF Idle

\* CREATE TABLE or CREATE INDEX by a command that nobody keeps waiting.
LEMMA CreateKeeps ==
  ASSUME MigInv, NEW m \in Migrators, mig[m].pc \in {"exec", "wait"}, Statement(m), Create(m)
  PROVE  MigInv'
<1> DEFINE own == IF driver = "postgres" THEN mig[m].own \cup {Target(m)} ELSE {}
           x == [mig[m] EXCEPT !.pc = "exec", !.stmt = mig[m].stmt + 1, !.own = own]
<1>1. Target(m) \in Objects
  BY MigFields, TargetIsObject DEF Target, Statement
<1>2. mig' = [mig EXCEPT ![m] = x]  BY MigFields, Zenon DEF Create
<1>3. own \in SUBSET Objects  BY <1>1, MigFields
<1>4. objects \subseteq objects' /\ objects' \subseteq Objects \cup TableSet
      /\ driver' = driver /\ recorded' = recorded
  BY <1>1, MigFields DEF Create
<1>5. Target(m) \in objects' \cup own  BY DEF Create
<1>6. mig[m].own \subseteq own  BY MigFields
<1>7. ASSUME NEW i \in 1..((mig[m].stmt + 1) - 1)
      PROVE  Script[mig[m].file][i] \in objects' \cup own
  <2>1. mig[m].stmt \in Nat  BY MigFields
  <2>2. CASE i = mig[m].stmt  BY <1>5, <2>2 DEF Target
  <2>3. CASE i # mig[m].stmt
    <3>1. i \in 1..(mig[m].stmt - 1)  BY <2>1, <2>3
    <3>2. Script[mig[m].file][i] \in objects \cup mig[m].own  BY <3>1, MigFields
    <3> QED BY <3>2, <1>4, <1>6
  <2> QED BY <2>2, <2>3
<1>8. own # {} => driver = "postgres"  OBVIOUS
<1> HIDE DEF own
<1>9. "exec" \in MigratorStates /\ mig[m].stmt + 1 \in Nat \ {0} /\ mig[m].file \in Files
  <2>1. mig[m].stmt \in Nat  BY MigFields
  <2> QED BY <2>1, MigFields DEF MigratorStates
<1>10. x \in MigRec
  <2>1. mig[m] \in MigRec  BY MigFields
  <2> QED BY <2>1, <1>3, <1>9, Zenon DEF MigRec
<1>11. x.pc = "exec" /\ x.stmt = mig[m].stmt + 1 /\ x.own = own /\ x.file = mig[m].file
  <2>1. mig[m] \in MigRec  BY MigFields
  <2> QED BY <2>1 DEF MigRec
<1> HIDE DEF x
<1> QED BY <1>2, <1>4, <1>7, <1>8, <1>9, <1>10, <1>11, MigMoves, MigFields

\* A statement that found its object is one more that is done.
LEMMA OneMoreDone ==
  ASSUME MigInv, NEW m \in Migrators, SkipExisting(m)
  PROVE  MigInv'
<1> DEFINE x == [mig[m] EXCEPT !.stmt = mig[m].stmt + 1]
<1>1. mig' = [mig EXCEPT ![m] = x]  BY MigFields, Zenon DEF SkipExisting
<1>2. mig[m] \in MigRec /\ mig[m].stmt \in Nat \ {0}  BY MigFields
<1>3. mig[m].stmt + 1 \in Nat \ {0}  BY <1>2
<1>4. x \in MigRec  BY <1>2, <1>3, Zenon DEF MigRec
<1>5. x.pc = "exec" /\ x.stmt = mig[m].stmt + 1 /\ x.own = mig[m].own /\ x.file = mig[m].file
  BY <1>2 DEF MigRec, SkipExisting
<1>6. ASSUME NEW i \in 1..((mig[m].stmt + 1) - 1)
      PROVE  Script[mig[m].file][i] \in objects \cup mig[m].own
  <2>1. CASE i = mig[m].stmt  BY <2>1 DEF SkipExisting, Target
  <2>2. CASE i # mig[m].stmt
    <3>1. i \in 1..(mig[m].stmt - 1)  BY <1>2, <2>2
    <3> QED BY <3>1, MigFields DEF SkipExisting
  <2> QED BY <2>1, <2>2
<1>7. UNCHANGED <<driver, objects, recorded>> /\ mig[m].pc = "exec"  BY DEF SkipExisting
<1> HIDE DEF x
<1> QED BY <1>1, <1>4, <1>5, <1>6, <1>7, MigMoves, MigFields

\* What a step changes of the record of the command that takes it.
LEMMA RecordMoves ==
  ASSUME NEW y \in MigRec, NEW pc \in MigratorStates, NEW file \in 1..(Len(Script) + 1)
  PROVE  /\ [y EXCEPT !.pc = pc] \in MigRec
         /\ [y EXCEPT !.pc = pc].pc = pc /\ [y EXCEPT !.pc = pc].file = y.file
         /\ [y EXCEPT !.pc = pc].stmt = y.stmt /\ [y EXCEPT !.pc = pc].own = y.own
         /\ [y EXCEPT !.file = file] \in MigRec
         /\ [y EXCEPT !.file = file].pc = y.pc /\ [y EXCEPT !.file = file].own = y.own
         /\ [y EXCEPT !.pc = pc, !.stmt = 1] \in MigRec
         /\ [y EXCEPT !.pc = pc, !.stmt = 1].pc = pc /\ [y EXCEPT !.pc = pc, !.stmt = 1].stmt = 1
         /\ [y EXCEPT !.pc = pc, !.stmt = 1].own = y.own
         /\ [y EXCEPT !.pc = pc, !.stmt = 1].file = y.file
<1>1. [y EXCEPT !.pc = pc] \in MigRec /\ [y EXCEPT !.file = file] \in MigRec
  BY Zenon DEF MigRec
<1>2. 1 \in Nat \ {0}  OBVIOUS
<1>3. [y EXCEPT !.pc = pc, !.stmt = 1] \in MigRec  BY <1>2, Zenon DEF MigRec
<1> QED BY <1>1, <1>3 DEF MigRec

\* The loop over the files: done, the next file, or the first statement of it.
LEMMA CheckKeeps ==
  ASSUME MigInv, NEW m \in Migrators, CheckApplied(m)
  PROVE  MigInv'
<1>1. mig[m].own = {} /\ mig[m].pc = "check" /\ mig[m] \in MigRec
      /\ UNCHANGED <<driver, objects, recorded>> /\ DOMAIN mig = Migrators
  BY MigFields DEF CheckApplied
<1> DEFINE f == mig[m].file
<1>2. CASE f \notin Files
  <2> DEFINE x == [mig[m] EXCEPT !.pc = "done"]
  <2>1. mig' = [mig EXCEPT ![m] = x]  BY <1>1, <1>2, Zenon DEF CheckApplied
  <2>2. "done" \in MigratorStates /\ 1 \in 1..(Len(Script) + 1)
    BY MigrateAssumption DEF MigratorStates
  <2>3. x \in MigRec /\ x.pc = "done" /\ x.own = mig[m].own  BY <1>1, <2>2, RecordMoves, Zenon
  <2> HIDE DEF x
  <2> QED BY <1>1, <2>1, <2>3, MigToIdle
<1>3. CASE f \in Files /\ f \in recorded
  <2>1. mig' = [mig EXCEPT ![m] = [mig[m] EXCEPT !.file = f + 1]]
    BY <1>1, <1>3, Zenon DEF CheckApplied
  <2>2. f + 1 \in 1..(Len(Script) + 1)  BY <1>3, MigrateAssumption DEF Files
  <2>3. [mig[m] EXCEPT !.file = f + 1] \in MigRec
        /\ [mig[m] EXCEPT !.file = f + 1].pc = "check" /\ [mig[m] EXCEPT !.file = f + 1].own = {}
    <3>1. "check" \in MigratorStates  BY DEF MigratorStates
    <3> QED BY <1>1, <2>2, <3>1, RecordMoves
  <2> QED BY <1>1, <2>1, <2>3, MigToIdle
<1>4. CASE f \in Files /\ f \notin recorded
  <2> DEFINE x == [mig[m] EXCEPT !.pc = "exec", !.stmt = 1]
  <2>1. mig' = [mig EXCEPT ![m] = x]  BY <1>1, <1>4, Zenon DEF CheckApplied
  <2>2. "exec" \in MigratorStates /\ 1 \in 1..(Len(Script) + 1)
    BY MigrateAssumption DEF MigratorStates
  <2>3. x \in MigRec /\ x.pc = "exec" /\ x.stmt = 1 /\ x.own = mig[m].own /\ x.file = f
    BY <1>1, <2>2, RecordMoves, Zenon
  <2> HIDE DEF x
  <2>4. \A i \in 1..(x.stmt - 1) : Script[x.file][i] \in objects' \cup x.own  BY <2>3
  <2>5. x.own = {} /\ x.file \in Files  BY <1>1, <1>4, <2>3
  <2> QED BY <1>1, <2>1, <2>3, <2>4, <2>5, MigMoves, MigFields
<1> QED BY <1>2, <1>3, <1>4

\* The row in schema_migrations: every statement of the file is done.
LEMMA RecordKeeps ==
  ASSUME MigInv, NEW m \in Migrators, Record(m), mig[m].file \notin recorded
  PROVE  MigInv'
<1> DEFINE f == mig[m].file
           x == [Idle EXCEPT !.pc = "check", !.file = f + 1]
<1>1. mig' = [mig EXCEPT ![m] = x] /\ recorded' = recorded \cup {f}
      /\ objects' = objects \cup mig[m].own /\ driver' = driver /\ mig[m].pc = "exec"
  BY DEF Record
<1>2. f \in Files /\ f + 1 \in 1..(Len(Script) + 1) /\ "check" \in MigratorStates
  BY <1>1, MigFields, MigrateAssumption DEF Files, MigratorStates
<1>3. x \in MigRec /\ x.pc = "check" /\ x.own = {}  BY <1>2, IdleRecords
<1>4. MadeBy(f) \subseteq objects'
  <2>1. Len(Script[f]) \in Nat /\ mig[m].stmt \in Nat /\ ~(mig[m].stmt <= Len(Script[f]))
    BY <1>2, MigrateAssumption, MigFields DEF Files, Record, Statement
  <2>2. ASSUME NEW i \in 1..Len(Script[f]) PROVE Script[f][i] \in objects'
    <3>1. i \in 1..(mig[m].stmt - 1)  BY <2>1
    <3> QED BY <3>1, <1>1, MigFields
  <2> QED BY <2>2 DEF MadeBy
<1>5. objects \subseteq objects' /\ objects' \subseteq Objects \cup TableSet
      /\ recorded' \subseteq Files
  BY <1>1, <1>2, MigFields
<1> HIDE DEF x
<1> QED BY <1>1, <1>3, <1>4, <1>5, MigMoves

\* Two commands create schema_migrations at the same time: one of them fails.
LEMMA CollisionKeeps ==
  ASSUME MigInv, NEW m \in Migrators, EnsureCollides(m)
  PROVE  MigInv'
<1>1. PICK n \in Migrators \ {m} : mig[n].pc = "ensure"
        /\ mig' = [mig EXCEPT ![m].pc = "failed", ![n].pc = "check"]
  BY DEF EnsureCollides
<1>2. mig[m].own = {} /\ mig[n].own = {} /\ mig[m] \in MigRec /\ mig[n] \in MigRec
      /\ DOMAIN mig = Migrators
  BY <1>1, MigFields DEF EnsureCollides
<1>3. /\ mig'[m] = [mig[m] EXCEPT !.pc = "failed"] /\ mig'[n] = [mig[n] EXCEPT !.pc = "check"]
      /\ \A l \in Migrators \ {m, n} : mig'[l] = mig[l]
      /\ mig' = [l \in Migrators |-> mig'[l]]
  BY <1>1, <1>2
<1>4. "failed" \in MigratorStates /\ "check" \in MigratorStates /\ 1 \in 1..(Len(Script) + 1)
  BY MigrateAssumption DEF MigratorStates
<1>5. /\ mig'[m] \in MigRec /\ mig'[m].pc = "failed" /\ mig'[m].own = {}
      /\ mig'[n] \in MigRec /\ mig'[n].pc = "check" /\ mig'[n].own = {}
  <2>1. /\ mig'[m] \in MigRec /\ mig'[m].pc = "failed" /\ mig'[m].own = mig[m].own
        /\ mig'[n] \in MigRec /\ mig'[n].pc = "check" /\ mig'[n].own = mig[n].own
    <3>1. /\ [mig[m] EXCEPT !.pc = "failed"] \in MigRec
          /\ [mig[m] EXCEPT !.pc = "failed"].pc = "failed"
          /\ [mig[m] EXCEPT !.pc = "failed"].own = mig[m].own
      BY <1>2, <1>4, RecordMoves, Zenon
    <3>2. /\ [mig[n] EXCEPT !.pc = "check"] \in MigRec
          /\ [mig[n] EXCEPT !.pc = "check"].pc = "check"
          /\ [mig[n] EXCEPT !.pc = "check"].own = mig[n].own
      BY <1>2, <1>4, RecordMoves, Zenon
    <3> QED BY <3>1, <3>2, <1>3, Zenon
  <2> QED BY <1>2, <2>1
<1>6. objects \subseteq objects' /\ objects' \subseteq Objects \cup TableSet
      /\ driver' = driver /\ recorded' = recorded
  BY MigFields DEF EnsureCollides, Objects
<1>7. MigShape'
  <2>1. \A l \in Migrators : mig'[l] \in MigRec  BY <1>3, <1>5 DEF MigInv, MigShape
  <2>2. mig' \in [Migrators -> MigRec]  BY <1>3, <2>1, Zenon
  <2>3. ASSUME NEW l \in Migrators
        PROVE  /\ mig'[l].pc \in {"exec", "wait"} => mig'[l].file \in Files
               /\ mig'[l].pc = "wait" => mig'[l].stmt <= Len(Script[mig'[l].file])
    <3>1. CASE l \in {m, n}  BY <3>1, <1>5
    <3>2. CASE l \notin {m, n}  BY <3>2, <1>3 DEF MigInv, MigShape, Statement
    <3> QED BY <3>1, <3>2
  <2> QED BY <1>6, <2>2, <2>3 DEF MigInv, MigShape, Statement, TableSet
<1>8. FileSoFar'
  <2>1. ASSUME NEW l \in Migrators
        PROVE  /\ mig'[l].pc \in {"exec", "wait"} =>
                    \A i \in 1..(mig'[l].stmt - 1) :
                      Script[mig'[l].file][i] \in objects' \cup mig'[l].own
               /\ mig'[l].own # {} => mig'[l].pc \in {"exec", "wait"} /\ driver' = "postgres"
    <3>1. CASE l \in {m, n}  BY <3>1, <1>5
    <3>2. CASE l \notin {m, n}  BY <3>2, <1>3, <1>6 DEF MigInv, FileSoFar
    <3> QED BY <3>1, <3>2
  <2> QED BY <2>1 DEF FileSoFar
<1>9. RecordedIsComplete'  BY <1>6 DEF MigInv, RecordedIsComplete, MadeBy
<1> QED BY <1>7, <1>8, <1>9 DEF MigInv

\* Every step of a command keeps the invariant of the command.
LEMMA MigStep ==
  ASSUME MigInv, NEW m \in Migrators,
         StartMigrator(m) \/ MigrateStep(m) \/ StopMigrator(m)
  PROVE  MigInv'
<1>0. 1 \in 1..(Len(Script) + 1) /\ "ensure" \in MigratorStates /\ "failed" \in MigratorStates
      /\ "check" \in MigratorStates /\ "wait" \in MigratorStates
  BY MigrateAssumption DEF MigratorStates
<1>1. CASE StartMigrator(m)
  BY <1>0, <1>1, IdleRecords, MigToIdle DEF StartMigrator
<1>2. CASE StopMigrator(m)
  BY <1>0, <1>2, IdleRecords, MigToIdle DEF StopMigrator
<1>3. ASSUME FailMigration(m) PROVE MigInv'
  BY <1>0, <1>3, IdleRecords, MigToIdle DEF FailMigration
<1>4. CASE EnsureSchemaMigrations(m)
  <2>1. mig[m].own = {} /\ mig[m] \in MigRec  BY <1>4, MigFields DEF EnsureSchemaMigrations
  <2> DEFINE x == [mig[m] EXCEPT !.pc = "check"]
  <2>2. mig' = [mig EXCEPT ![m] = x]  BY <1>4, MigFields, Zenon DEF EnsureSchemaMigrations
  <2>3. x \in MigRec /\ x.pc = "check" /\ x.own = {}  BY <1>0, <2>1, RecordMoves
  <2>4. objects \subseteq objects' /\ objects' \subseteq Objects \cup TableSet
    BY <1>4, MigFields DEF EnsureSchemaMigrations, Objects
  <2> HIDE DEF x
  <2> QED BY <1>4, <2>2, <2>3, <2>4, MigMoves, MigFields DEF EnsureSchemaMigrations
<1>5. CASE EnsureCollides(m)  BY <1>5, CollisionKeeps
<1>6. CASE CheckApplied(m)  BY <1>6, CheckKeeps
<1>7. CASE SkipExisting(m)  BY <1>7, OneMoreDone
<1>8. CASE Exec(m)
  <2>1. CASE HeldByOther(m, Target(m))
    <3> DEFINE x == [mig[m] EXCEPT !.pc = "wait"]
    <3>1. mig' = [mig EXCEPT ![m] = x]  BY <1>8, <2>1, MigFields, Zenon DEF Exec
    <3>2. UNCHANGED <<driver, objects, recorded>> /\ mig[m].pc = "exec"
          /\ mig[m].stmt <= Len(Script[mig[m].file]) /\ mig[m] \in MigRec
      BY <1>8, <2>1, MigFields DEF Exec, Statement
    <3>3. x \in MigRec /\ x.pc = "wait" /\ x.own = mig[m].own /\ x.stmt = mig[m].stmt
          /\ x.file = mig[m].file
      BY <1>0, <3>2, RecordMoves
    <3> HIDE DEF x
    <3> QED BY <3>1, <3>2, <3>3, MigMoves, MigFields
  <2>2. CASE ~HeldByOther(m, Target(m))  BY <1>8, <2>2, CreateKeeps DEF Exec
  <2> QED BY <2>1, <2>2
<1>9. CASE Resume(m)
  <2>1. Statement(m) /\ mig[m].pc = "wait"  BY <1>9, MigFields DEF Resume, Statement
  <2> QED BY <1>3, <1>9, <2>1, CreateKeeps DEF Resume
<1>10. CASE Record(m)  BY <1>3, <1>10, RecordKeeps DEF Record
<1> QED BY <1>1, <1>2, <1>4, <1>5, <1>6, <1>7, <1>8, <1>9, <1>10 DEF MigrateStep

\* No other step touches it, but AutoMigrate may add a table.
LEMMA MigInvStep == MigInv /\ SrvShape /\ [Next]_vars => MigInv'
<1> SUFFICES ASSUME MigInv, SrvShape, [Next]_vars PROVE MigInv'  OBVIOUS
<1>1. ASSUME UNCHANGED migrateVars PROVE MigInv'
  <2>1. objects' \subseteq Objects \cup TableSet
    BY <1>1 DEF migrateVars, MigInv, MigShape, TableSet
  <2> QED BY <1>1, <2>1, MigFrame DEF migrateVars
<1>2. CASE UNCHANGED vars  BY <1>1, <1>2 DEF vars, migrateVars
<1>3. ASSUME NEW m \in Migrators, RunMigrator(m) \/ Migration(m) \/ KillMigrator(m)
      PROVE  MigInv'
  BY <1>3, MigStep DEF RunMigrator, Migration, KillMigrator
<1>4. ASSUME NEW s \in Servers, CreateTable(s) PROVE MigInv'
  <2>1. srv[s].k \in 1..Len(Tables)  BY <1>4 DEF CreateTable, SrvShape
  <2>2. Tables[srv[s].k] \in TableSet  BY <2>1 DEF TableSet
  <2>3. objects \subseteq Objects \cup TableSet  BY DEF MigInv, MigShape, TableSet
  <2>4. objects \subseteq objects' /\ objects' \subseteq Objects \cup TableSet
    BY <1>4, <2>2, <2>3 DEF CreateTable
  <2> QED BY <1>4, <2>4, MigFrame DEF CreateTable
<1>5. ASSUME NEW s \in Servers,
             Launch(s) \/ HasTable(s) \/ MigrateFloatAmounts(s) \/ CountSeed(s) \/ CreateSeed(s)
             \/ FindAdmin(s) \/ CreateAdmin(s) \/ Crash(s) \/ Signal(s) \/ Exit(s)
      PROVE  MigInv'
  BY <1>1, <1>5 DEF Launch, HasTable, MigrateFloatAmounts, CountSeed, CreateSeed, FindAdmin,
                    CreateAdmin, Crash, Signal, Exit
<1>6. ASSUME NEW a \in Actors, Ensures(a) PROVE MigInv'
  BY <1>1, <1>6 DEF Ensures, CountDefault, CreateDefault, EnsureReturns
<1>7. ASSUME NEW l \in Logins, NEW s \in Servers, Login(l, s) PROVE MigInv'
  BY <1>1, <1>7 DEF Login
<1>8. ASSUME NEW i \in 1..Len(Defaults), DeleteDefault(Defaults[i]) PROVE MigInv'
  BY <1>1, <1>8 DEF DeleteDefault
<1>9. ASSUME NEW b \in 0..MaxBalance, MoveBalance(b) PROVE MigInv'
  BY <1>1, <1>9 DEF MoveBalance
<1> QED BY <1>2, <1>3, <1>4, <1>5, <1>6, <1>7, <1>8, <1>9 DEF Next, Start

-----------------------------------------------------------------------------
(* The servers' state.                                                     *)

\* One server moves on.
LEMMA SrvMoves ==
  ASSUME SrvShape, NEW s \in Servers, NEW x \in SrvRec,
         x.pc = "create" => x.k \in 1..Len(Tables),
         x.pc = "seeding" => x.k \in 1..Len(Seeds),
         srv' = [srv EXCEPT ![s] = x]
  PROVE  SrvShape'
<1>1. srv \in [Servers -> SrvRec]  BY DEF SrvShape
<1>2. srv' \in [Servers -> SrvRec]  BY <1>1, Zenon
<1>3. srv'[s] = x /\ \A q \in Servers \ {s} : srv'[q] = srv[q]  BY <1>1, Zenon
<1>4. ASSUME NEW q \in Servers
      PROVE  /\ srv'[q].pc = "create" => srv'[q].k \in 1..Len(Tables)
             /\ srv'[q].pc = "seeding" => srv'[q].k \in 1..Len(Seeds)
  <2>1. CASE q = s  BY <2>1, <1>3, Zenon
  <2>2. CASE q # s  BY <2>2, <1>3 DEF SrvShape
  <2> QED BY <2>1, <2>2
<1> QED BY <1>2, <1>4 DEF SrvShape

\* The records a server may get: at the beginning of a phase, at the next step
\* of its phase, or in another phase at the same step.
LEMMA SrvRecords ==
  ASSUME NEW y \in SrvRec, NEW pc \in ServerStates, NEW k \in Nat \ {0}
  PROVE  /\ [pc |-> pc, k |-> k] \in SrvRec
         /\ [pc |-> pc, k |-> k].pc = pc /\ [pc |-> pc, k |-> k].k = k
         /\ [y EXCEPT !.pc = pc] \in SrvRec
         /\ [y EXCEPT !.pc = pc].pc = pc /\ [y EXCEPT !.pc = pc].k = y.k
         /\ [y EXCEPT !.k = k] \in SrvRec
         /\ [y EXCEPT !.k = k].k = k /\ [y EXCEPT !.k = k].pc = y.pc
BY DEF SrvRec

\* Server s, and no other, goes to step k of phase pc.
Moved(s, pc, k) ==
  /\ SrvShape'
  /\ srv'[s].pc = pc /\ srv'[s].k = k
  /\ \A q \in Servers \ {s} : srv'[q] = srv[q]

\* A step that moves one server says where to.
LEMMA SrvTo ==
  ASSUME SrvShape, NEW s \in Servers, NEW pc \in ServerStates, NEW k \in Nat \ {0},
         pc = "create" => k \in 1..Len(Tables),
         pc = "seeding" => k \in 1..Len(Seeds),
         \/ srv' = [srv EXCEPT ![s] = [pc |-> pc, k |-> k]]
         \/ k = srv[s].k /\ srv' = [srv EXCEPT ![s] = [srv[s] EXCEPT !.pc = pc]]
         \/ pc = srv[s].pc /\ srv' = [srv EXCEPT ![s] = [srv[s] EXCEPT !.k = k]]
  PROVE  Moved(s, pc, k)
<1>1. srv \in [Servers -> SrvRec] /\ srv[s] \in SrvRec  BY DEF SrvShape
<1>2. ASSUME NEW x, srv' = [srv EXCEPT ![s] = x], x \in SrvRec, x.pc = pc, x.k = k
      PROVE  Moved(s, pc, k)
  <2>1. SrvShape'  BY <1>2, SrvMoves
  <2>2. srv'[s] = x /\ \A q \in Servers \ {s} : srv'[q] = srv[q]  BY <1>1, <1>2, Zenon
  <2> QED BY <1>2, <2>1, <2>2 DEF Moved
<1>4. CASE srv' = [srv EXCEPT ![s] = [pc |-> pc, k |-> k]]
  <2> DEFINE x == [pc |-> pc, k |-> k]
  <2>1. x \in SrvRec /\ x.pc = pc /\ x.k = k  BY <1>1, SrvRecords, Zenon
  <2>2. srv' = [srv EXCEPT ![s] = x]  BY <1>4
  <2> HIDE DEF x
  <2> QED BY <1>2, <2>1, <2>2
<1>5. CASE k = srv[s].k /\ srv' = [srv EXCEPT ![s] = [srv[s] EXCEPT !.pc = pc]]
  <2> DEFINE x == [srv[s] EXCEPT !.pc = pc]
  <2>1. x \in SrvRec /\ x.pc = pc /\ x.k = srv[s].k  BY <1>1, SrvRecords, Zenon
  <2>2. srv' = [srv EXCEPT ![s] = x]  BY <1>5
  <2> HIDE DEF x
  <2> QED BY <1>2, <1>5, <2>1, <2>2
<1>6. CASE pc = srv[s].pc /\ srv' = [srv EXCEPT ![s] = [srv[s] EXCEPT !.k = k]]
  <2> DEFINE x == [srv[s] EXCEPT !.k = k]
  <2>1. x \in SrvRec /\ x.k = k /\ x.pc = srv[s].pc  BY <1>1, SrvRecords, Zenon
  <2>2. srv' = [srv EXCEPT ![s] = x]  BY <1>6
  <2> HIDE DEF x
  <2> QED BY <1>2, <1>6, <2>1, <2>2
<1> QED BY <1>4, <1>5, <1>6

\* A launched server looks for the first table.
LEMMA LaunchLeads ==
  ASSUME SrvShape, NEW s \in Servers, Launch(s)
  PROVE  Moved(s, "tables", 1)
<1>1. srv' = [srv EXCEPT ![s] = [pc |-> "tables", k |-> 1]]  BY Zenon DEF Launch
<1>2. "tables" \in ServerStates /\ 1 \in Nat \ {0}  BY DEF ServerStates
<1> QED BY <1>1, <1>2, SrvTo

\* AutoMigrate looks for a table: done, the next one, or this one is to create.
LEMMA HasTableLeads ==
  ASSUME SrvShape, NEW s \in Servers, HasTable(s)
  PROVE  \/ Moved(s, "refill", 1)
         \/ Moved(s, "tables", srv[s].k + 1)
         \/ Moved(s, "create", srv[s].k) /\ Tables[srv[s].k] \notin objects
<1>1. DOMAIN srv = Servers /\ srv[s].k \in Nat \ {0} /\ srv[s].pc = "tables"
  BY DEF SrvShape, SrvRec, HasTable
<1>2. srv[s].k + 1 \in Nat \ {0} /\ 1 \in Nat \ {0} /\ "refill" \in ServerStates
      /\ "tables" \in ServerStates /\ "create" \in ServerStates
  BY <1>1 DEF ServerStates
<1>3. CASE srv[s].k > Len(Tables)
  <2>1. srv' = [srv EXCEPT ![s] = [pc |-> "refill", k |-> 1]]  BY <1>3, Zenon DEF HasTable
  <2> QED BY <2>1, <1>2, SrvTo
<1>4. CASE ~(srv[s].k > Len(Tables)) /\ Tables[srv[s].k] \in objects
  <2>1. srv' = [srv EXCEPT ![s] = [srv[s] EXCEPT !.k = srv[s].k + 1]]
    BY <1>1, <1>4, Zenon DEF HasTable
  <2> QED BY <2>1, <1>1, <1>2, SrvTo
<1>5. CASE ~(srv[s].k > Len(Tables)) /\ Tables[srv[s].k] \notin objects
  <2>1. srv' = [srv EXCEPT ![s] = [srv[s] EXCEPT !.pc = "create"]]
    BY <1>1, <1>5, Zenon DEF HasTable
  <2>2. srv[s].k \in 1..Len(Tables)  BY <1>1, <1>5, StartupAssumption
  <2> QED BY <2>1, <2>2, <1>1, <1>2, <1>5, SrvTo
<1> QED BY <1>3, <1>4, <1>5

\* CREATE TABLE creates the table, or finds it there and fails.
LEMMA CreateTableLeads ==
  ASSUME SrvShape, NEW s \in Servers, CreateTable(s)
  PROVE  \/ Moved(s, "tables", srv[s].k + 1) /\ Tables[srv[s].k] \notin objects
         \/ Moved(s, "failed", 1) /\ Tables[srv[s].k] \in objects /\ UNCHANGED objects
<1>1. srv[s].k + 1 \in Nat \ {0} /\ 1 \in Nat \ {0} /\ "tables" \in ServerStates
      /\ "failed" \in ServerStates
  BY DEF SrvShape, SrvRec, ServerStates
<1> QED BY <1>1, SrvTo DEF CreateTable, FailStart

\* After the conversion comes the first system category.
LEMMA RefillLeads ==
  ASSUME SrvShape, NEW s \in Servers, MigrateFloatAmounts(s)
  PROVE  Moved(s, "seed", 1)
<1>1. srv' = [srv EXCEPT ![s] = [pc |-> "seed", k |-> 1]]  BY Zenon DEF MigrateFloatAmounts
<1>2. "seed" \in ServerStates /\ 1 \in Nat \ {0}  BY DEF ServerStates
<1> QED BY <1>1, <1>2, SrvTo

\* The count: all seeded, this category there, or this category to create.
LEMMA CountSeedLeads ==
  ASSUME SrvShape, NEW s \in Servers, CountSeed(s)
  PROVE  \/ Moved(s, "admin", 1) /\ srv[s].k > Len(Seeds)
         \/ /\ Moved(s, "seed", srv[s].k + 1) /\ srv[s].k \in 1..Len(Seeds)
            /\ count[Seeds[srv[s].k]] > 0
         \/ /\ Moved(s, "seeding", srv[s].k) /\ srv[s].k \in 1..Len(Seeds)
            /\ ~(count[Seeds[srv[s].k]] > 0)
<1>1. DOMAIN srv = Servers /\ srv[s].k \in Nat \ {0} /\ srv[s].pc = "seed"
  BY DEF SrvShape, SrvRec, CountSeed
<1>2. srv[s].k + 1 \in Nat \ {0} /\ 1 \in Nat \ {0} /\ "admin" \in ServerStates
      /\ "seed" \in ServerStates /\ "seeding" \in ServerStates
  BY <1>1 DEF ServerStates
<1>3. CASE srv[s].k > Len(Seeds)
  <2>1. srv' = [srv EXCEPT ![s] = [pc |-> "admin", k |-> 1]]  BY <1>3, Zenon DEF CountSeed
  <2> QED BY <2>1, <1>2, <1>3, SrvTo
<1>4. ASSUME ~(srv[s].k > Len(Seeds)) PROVE srv[s].k \in 1..Len(Seeds)
  BY <1>1, <1>4, StartupAssumption
<1>5. CASE ~(srv[s].k > Len(Seeds)) /\ count[Seeds[srv[s].k]] > 0
  <2>1. srv' = [srv EXCEPT ![s] = [srv[s] EXCEPT !.k = srv[s].k + 1]]
    BY <1>1, <1>5, Zenon DEF CountSeed
  <2> QED BY <2>1, <1>1, <1>2, <1>4, <1>5, SrvTo
<1>6. CASE ~(srv[s].k > Len(Seeds)) /\ ~(count[Seeds[srv[s].k]] > 0)
  <2>1. srv' = [srv EXCEPT ![s] = [srv[s] EXCEPT !.pc = "seeding"]]
    BY <1>1, <1>6, Zenon DEF CountSeed
  <2> QED BY <2>1, <1>1, <1>2, <1>4, <1>6, SrvTo
<1> QED BY <1>3, <1>5, <1>6

\* Once a category is created the next one is counted.
LEMMA CreateSeedLeads ==
  ASSUME SrvShape, NEW s \in Servers, CreateSeed(s)
  PROVE  Moved(s, "seed", srv[s].k + 1) /\ srv[s].k \in 1..Len(Seeds)
<1>1. srv[s].k + 1 \in Nat \ {0} /\ "seed" \in ServerStates /\ srv[s].k \in 1..Len(Seeds)
  BY DEF SrvShape, SrvRec, ServerStates, CreateSeed
<1>2. srv' = [srv EXCEPT ![s] = [pc |-> "seed", k |-> srv[s].k + 1]]  BY Zenon DEF CreateSeed
<1> QED BY <1>1, <1>2, SrvTo

\* The administrator is missing, or found and ready.
LEMMA FindAdminLeads ==
  ASSUME SrvShape, NEW s \in Servers, FindAdmin(s)
  PROVE  \/ Moved(s, "adding", srv[s].k) /\ admin = "none" /\ UNCHANGED <<admin, ensure>>
         \/ Moved(s, "defaults", srv[s].k) /\ admin # "none" /\ admin' = "ready" /\ CallEnsure(s)
<1>1. DOMAIN srv = Servers /\ srv[s].k \in Nat \ {0} /\ "adding" \in ServerStates
      /\ "defaults" \in ServerStates
  BY DEF SrvShape, SrvRec, ServerStates
<1>2. CASE admin = "none"
  <2>1. srv' = [srv EXCEPT ![s] = [srv[s] EXCEPT !.pc = "adding"]]
    BY <1>1, <1>2, Zenon DEF FindAdmin
  <2> QED BY <2>1, <1>1, <1>2, SrvTo DEF FindAdmin
<1>3. CASE admin # "none"
  <2>1. srv' = [srv EXCEPT ![s] = [srv[s] EXCEPT !.pc = "defaults"]]
    BY <1>1, <1>3, Zenon DEF FindAdmin
  <2> QED BY <2>1, <1>1, <1>3, SrvTo DEF FindAdmin
<1> QED BY <1>2, <1>3

\* The administrator is created, or the name is taken and the start fails.
LEMMA CreateAdminLeads ==
  ASSUME SrvShape, NEW s \in Servers, CreateAdmin(s)
  PROVE  \/ Moved(s, "failed", 1) /\ admin # "none" /\ UNCHANGED <<admin, ensure>>
         \/ Moved(s, "defaults", srv[s].k) /\ admin = "none" /\ admin' = "ready" /\ CallEnsure(s)
<1>1. DOMAIN srv = Servers /\ srv[s].k \in Nat \ {0} /\ "failed" \in ServerStates
      /\ "defaults" \in ServerStates /\ 1 \in Nat \ {0}
  BY DEF SrvShape, SrvRec, ServerStates
<1>2. CASE admin = "none"
  <2>1. srv' = [srv EXCEPT ![s] = [srv[s] EXCEPT !.pc = "defaults"]]
    BY <1>1, <1>2, Zenon DEF CreateAdmin
  <2> QED BY <2>1, <1>1, <1>2, SrvTo DEF CreateAdmin
<1>3. CASE admin # "none"
  <2>1. srv' = [srv EXCEPT ![s] = [pc |-> "failed", k |-> 1]]
    BY <1>1, <1>3, Zenon DEF CreateAdmin, FailStart
  <2> QED BY <2>1, <1>1, <1>3, SrvTo DEF CreateAdmin
<1> QED BY <1>2, <1>3

\* Its default accounts done, a server serves.
LEMMA ServeLeads ==
  ASSUME SrvShape, NEW a \in Servers, EnsureReturns(a)
  PROVE  Moved(a, "serving", srv[a].k) /\ UNCHANGED at
<1>1. DOMAIN srv = Servers /\ srv[a].k \in Nat \ {0} /\ "serving" \in ServerStates
  BY DEF SrvShape, SrvRec, ServerStates
<1>2. srv' = [srv EXCEPT ![a] = [srv[a] EXCEPT !.pc = "serving"]] /\ UNCHANGED at
  BY <1>1, Zenon DEF EnsureReturns
<1> QED BY <1>1, <1>2, SrvTo

\* A signal makes a serving server drain.
LEMMA SignalLeads ==
  ASSUME SrvShape, NEW s \in Servers, Signal(s)
  PROVE  Moved(s, "draining", srv[s].k)
<1>1. DOMAIN srv = Servers /\ srv[s].k \in Nat \ {0} /\ "draining" \in ServerStates
  BY DEF SrvShape, SrvRec, ServerStates
<1>2. srv' = [srv EXCEPT ![s] = [srv[s] EXCEPT !.pc = "draining"]]
  BY <1>1, Zenon DEF Signal
<1> QED BY <1>1, <1>2, SrvTo

\* A process that goes is down.
LEMMA GoesLeads ==
  ASSUME SrvShape, NEW s \in Servers, Goes(s)
  PROVE  Moved(s, "down", 1)
<1>1. "down" \in ServerStates /\ 1 \in Nat \ {0}  BY DEF ServerStates
<1> QED BY <1>1, SrvTo DEF Goes, Down

\* Every step keeps the servers' state.
LEMMA SrvShapeStep == SrvShape /\ [Next]_vars => SrvShape'
<1> SUFFICES ASSUME SrvShape, [Next]_vars PROVE SrvShape'  OBVIOUS
<1>1. ASSUME UNCHANGED srv PROVE SrvShape'  BY <1>1 DEF SrvShape
<1>2. CASE UNCHANGED vars  BY <1>1, <1>2 DEF vars
<1>3. ASSUME NEW m \in Migrators, RunMigrator(m) \/ Migration(m) \/ KillMigrator(m)
      PROVE  SrvShape'
  BY <1>1, <1>3 DEF RunMigrator, Migration, KillMigrator, Rest
<1>4. ASSUME NEW s \in Servers, Launch(s) \/ Start(s) PROVE SrvShape'
  BY <1>4, LaunchLeads, HasTableLeads, CreateTableLeads, RefillLeads, CountSeedLeads,
     CreateSeedLeads, FindAdminLeads, CreateAdminLeads, Zenon DEF Moved, Start
<1>5. ASSUME NEW s \in Servers, Crash(s) \/ Signal(s) \/ Exit(s) PROVE SrvShape'
  BY <1>5, SignalLeads, GoesLeads DEF Moved, Crash, Exit
<1>6. ASSUME NEW a \in Actors, Ensures(a) PROVE SrvShape'
  <2>1. CASE CountDefault(a) \/ CreateDefault(a)
    BY <1>1, <2>1 DEF CountDefault, CreateDefault
  <2>2. CASE EnsureReturns(a) /\ a \in Servers  BY <2>2, ServeLeads DEF Moved
  <2>3. CASE EnsureReturns(a) /\ a \notin Servers  BY <1>1, <2>3 DEF EnsureReturns
  <2> QED BY <1>6, <2>1, <2>2, <2>3 DEF Ensures
<1>7. ASSUME NEW l \in Logins, NEW s \in Servers, Login(l, s) PROVE SrvShape'
  BY <1>1, <1>7 DEF Login
<1>8. ASSUME NEW i \in 1..Len(Defaults), DeleteDefault(Defaults[i]) PROVE SrvShape'
  BY <1>1, <1>8 DEF DeleteDefault
<1>9. ASSUME NEW b \in 0..MaxBalance, MoveBalance(b) PROVE SrvShape'
  BY <1>1, <1>9 DEF MoveBalance
<1> QED BY <1>2, <1>3, <1>4, <1>5, <1>6, <1>7, <1>8, <1>9 DEF Next

-----------------------------------------------------------------------------
(* The calls of EnsureDefaultDataForUser.                                  *)

\* Call a, and no other, goes to account k, having found it missing or not.
EnsMoved(a, k, missing) ==
  /\ ensure' \in [Actors -> EnsRec]
  /\ ensure'[a].k = k /\ ensure'[a].missing = missing
  /\ \A b \in Actors \ {a} : ensure'[b] = ensure[b]

\* The records a call may get: at an account, found missing or not.
LEMMA EnsRecords ==
  ASSUME NEW k \in 0..(Len(Defaults) + 1)
  PROVE  /\ [k |-> k, missing |-> FALSE] \in EnsRec
         /\ [k |-> k, missing |-> FALSE].k = k
         /\ [k |-> k, missing |-> FALSE].missing = FALSE
         /\ \A y \in EnsRec : /\ [y EXCEPT !.k = k] \in EnsRec
                              /\ [y EXCEPT !.k = k].k = k
                              /\ [y EXCEPT !.k = k].missing = y.missing
<1>1. [k |-> k, missing |-> FALSE] \in EnsRec  BY Zenon DEF EnsRec
<1>2. \A y \in EnsRec : [y EXCEPT !.k = k] \in EnsRec  BY Zenon DEF EnsRec
<1> QED BY <1>1, <1>2 DEF EnsRec

\* A call that has found its account missing.
LEMMA MissingRecord ==
  ASSUME NEW y \in EnsRec
  PROVE  /\ [y EXCEPT !.missing = TRUE] \in EnsRec
         /\ [y EXCEPT !.missing = TRUE].k = y.k
         /\ [y EXCEPT !.missing = TRUE].missing = TRUE
<1>1. [y EXCEPT !.missing = TRUE] \in EnsRec  BY Zenon DEF EnsRec
<1> QED BY <1>1 DEF EnsRec

\* A step that moves one call says where to.
LEMMA EnsTo ==
  ASSUME EnsShape, NEW a \in Actors, NEW x \in EnsRec, ensure' = [ensure EXCEPT ![a] = x]
  PROVE  /\ ensure' \in [Actors -> EnsRec] /\ ensure'[a] = x
         /\ \A b \in Actors \ {a} : ensure'[b] = ensure[b]
<1>1. ensure \in [Actors -> EnsRec]  BY DEF EnsShape
<1> QED BY <1>1, Zenon

\* A call begins at the first account.
LEMMA CallLeads ==
  ASSUME EnsShape, NEW a \in Actors, CallEnsure(a)
  PROVE  EnsMoved(a, 1, FALSE)
<1> DEFINE x == [k |-> 1, missing |-> FALSE]
<1>1. ensure[a] \in EnsRec /\ 1 \in 0..(Len(Defaults) + 1)
  BY StartupAssumption DEF EnsShape
<1>2. x \in EnsRec /\ x.k = 1 /\ x.missing = FALSE  BY <1>1, EnsRecords, Zenon
<1>3. ensure' = [ensure EXCEPT ![a] = x]  BY DEF CallEnsure
<1> HIDE DEF x
<1> QED BY <1>2, <1>3, EnsTo, Zenon DEF EnsMoved

\* The count: this account is there, or it is missing.
LEMMA CountDefaultLeads ==
  ASSUME EnsShape, NEW a \in Actors, CountDefault(a)
  PROVE  /\ ensure[a].k \in 1..Len(Defaults) /\ ~ensure[a].missing
         /\ \/ EnsMoved(a, ensure[a].k + 1, FALSE) /\ count[Defaults[ensure[a].k]] > 0
            \/ EnsMoved(a, ensure[a].k, TRUE) /\ ~(count[Defaults[ensure[a].k]] > 0)
<1> DEFINE y == ensure[a]
<1>1. ensure \in [Actors -> EnsRec] /\ y \in EnsRec /\ DOMAIN ensure = Actors  BY DEF EnsShape
<1>2. y.k \in 1..Len(Defaults) /\ ~y.missing
  BY <1>1, StartupAssumption DEF CountDefault, Running, EnsRec
<1>3. CASE count[Defaults[y.k]] > 0
  <2> DEFINE x == [y EXCEPT !.k = y.k + 1]
  <2>1. y.k + 1 \in 0..(Len(Defaults) + 1)  BY <1>2, StartupAssumption
  <2>2. x \in EnsRec /\ x.k = y.k + 1 /\ x.missing = y.missing
    <3>1. \A z \in EnsRec : /\ [z EXCEPT !.k = y.k + 1] \in EnsRec
                            /\ [z EXCEPT !.k = y.k + 1].k = y.k + 1
                            /\ [z EXCEPT !.k = y.k + 1].missing = z.missing
      BY <2>1, EnsRecords, Zenon
    <3> QED BY <1>1, <3>1, Zenon
  <2>3. ensure' = [ensure EXCEPT ![a] = x]  BY <1>1, <1>3, Zenon DEF CountDefault
  <2>4. y.missing = FALSE  BY <1>1, <1>2 DEF EnsRec
  <2> HIDE DEF x
  <2>5. EnsMoved(a, y.k + 1, FALSE)  BY <2>2, <2>3, <2>4, EnsTo, Zenon DEF EnsMoved
  <2> QED BY <1>2, <1>3, <2>5
<1>4. CASE ~(count[Defaults[y.k]] > 0)
  <2> DEFINE x == [y EXCEPT !.missing = TRUE]
  <2>1. x \in EnsRec /\ x.k = y.k /\ x.missing = TRUE
    BY <1>1, MissingRecord, Zenon
  <2>2. ensure' = [ensure EXCEPT ![a] = x]  BY <1>1, <1>4, Zenon DEF CountDefault
  <2> HIDE DEF x
  <2>3. EnsMoved(a, y.k, TRUE)  BY <2>1, <2>2, EnsTo, Zenon DEF EnsMoved
  <2> QED BY <1>2, <1>4, <2>3
<1> QED BY <1>3, <1>4

\* Once an account is created the next one is counted.
LEMMA CreateDefaultLeads ==
  ASSUME EnsShape, NEW a \in Actors, CreateDefault(a)
  PROVE  ensure[a].k \in 1..Len(Defaults) /\ EnsMoved(a, ensure[a].k + 1, FALSE)
<1> DEFINE y == ensure[a]
           x == [k |-> y.k + 1, missing |-> FALSE]
<1>1. y \in EnsRec /\ y.k \in 1..Len(Defaults)  BY DEF EnsShape, CreateDefault
<1>2. y.k + 1 \in 0..(Len(Defaults) + 1)  BY <1>1, StartupAssumption
<1>3. x \in EnsRec /\ x.k = y.k + 1 /\ x.missing = FALSE  BY <1>1, <1>2, EnsRecords, Zenon
<1>4. ensure' = [ensure EXCEPT ![a] = x]  BY DEF CreateDefault
<1> HIDE DEF x
<1>5. EnsMoved(a, y.k + 1, FALSE)  BY <1>3, <1>4, EnsTo, Zenon DEF EnsMoved
<1> QED BY <1>1, <1>5

\* A call that returns is over.
LEMMA EnsureReturnsLeads ==
  ASSUME EnsShape, NEW a \in Actors, EnsureReturns(a)
  PROVE  EnsMoved(a, 0, FALSE) /\ ensure[a].k = Len(Defaults) + 1
<1>1. ensure[a] \in EnsRec /\ 0 \in 0..(Len(Defaults) + 1)  BY StartupAssumption DEF EnsShape
<1>2. NoCall \in EnsRec /\ NoCall.k = 0 /\ NoCall.missing = FALSE
  BY <1>1, EnsRecords, Zenon DEF NoCall
<1>3. ensure' = [ensure EXCEPT ![a] = NoCall]  BY DEF EnsureReturns
<1>4. EnsMoved(a, 0, FALSE)  BY <1>2, <1>3, EnsTo, Zenon DEF EnsMoved
<1>5. ensure[a].k = Len(Defaults) + 1  BY <1>1, StartupAssumption DEF EnsRec, EnsureReturns
<1> QED BY <1>4, <1>5

\* A server that goes takes its calls with it.
LEMMA GoesEnds ==
  ASSUME EnsShape, NEW s \in Servers, Goes(s)
  PROVE  /\ ensure' \in [Actors -> EnsRec] /\ at' \in [Logins -> Servers \cup {None}]
         /\ \A a \in Actors : \/ ensure'[a] = ensure[a] /\ a # s
                              \/ ensure'[a].k = 0 /\ ensure'[a].missing = FALSE
<1>1. NoCall \in EnsRec /\ NoCall.k = 0 /\ NoCall.missing = FALSE
  BY StartupAssumption DEF NoCall, EnsRec
<1>2. ensure \in [Actors -> EnsRec]  BY DEF EnsShape
<1> DEFINE gone(a) == a = s \/ a \in {l \in Logins : at[l] = s}
<1>3. ensure' = [a \in Actors |-> IF gone(a) THEN NoCall ELSE ensure[a]]  BY DEF Goes
<1>4. \A a \in Actors : ensure'[a] = IF gone(a) THEN NoCall ELSE ensure[a]  BY <1>3, Zenon
<1>5. ensure' \in [Actors -> EnsRec]
  <2>1. \A a \in Actors : (IF gone(a) THEN NoCall ELSE ensure[a]) \in EnsRec  BY <1>1, <1>2
  <2> HIDE DEF gone
  <2> QED BY <1>3, <2>1, Zenon
<1>6. at' \in [Logins -> Servers \cup {None}]  BY DEF Goes, EnsShape
<1>7. \A a \in Actors : gone(a) \/ a # s  OBVIOUS
<1> HIDE DEF gone
<1> QED BY <1>1, <1>4, <1>5, <1>6, <1>7, Zenon

\* One call moves on.
LEMMA EnsMoves ==
  ASSUME EnsShape, NEW a \in Actors, NEW k, NEW missing, EnsMoved(a, k, missing),
         missing => k \in 1..Len(Defaults),
         at' \in [Logins -> Servers \cup {None}]
  PROVE  EnsShape'
<1>1. ASSUME NEW b \in Actors PROVE ensure'[b].missing => ensure'[b].k \in 1..Len(Defaults)
  BY DEF EnsShape, EnsMoved
<1> QED BY <1>1 DEF EnsShape, EnsMoved

\* Every step keeps the calls' state.
LEMMA EnsShapeStep == EnsShape /\ [Next]_vars => EnsShape'
<1> SUFFICES ASSUME EnsShape, [Next]_vars PROVE EnsShape'  OBVIOUS
<1>0. at \in [Logins -> Servers \cup {None}]  BY DEF EnsShape
<1>1. ASSUME UNCHANGED <<ensure, at>> PROVE EnsShape'  BY <1>1 DEF EnsShape
<1>2. CASE UNCHANGED vars  BY <1>1, <1>2 DEF vars
<1>3. ASSUME NEW m \in Migrators, RunMigrator(m) \/ Migration(m) \/ KillMigrator(m)
      PROVE  EnsShape'
  BY <1>1, <1>3 DEF RunMigrator, Migration, KillMigrator, Rest
<1>4. ASSUME NEW s \in Servers,
             \/ Launch(s) \/ HasTable(s) \/ CreateTable(s) \/ MigrateFloatAmounts(s)
             \/ CountSeed(s) \/ CreateSeed(s) \/ Signal(s)
      PROVE  EnsShape'
  BY <1>1, <1>4 DEF Launch, HasTable, CreateTable, MigrateFloatAmounts, CountSeed, CreateSeed,
                    Signal
<1>5. ASSUME NEW s \in Servers, FindAdmin(s) \/ CreateAdmin(s) PROVE EnsShape'
  <2>1. s \in Actors /\ UNCHANGED at  BY <1>5 DEF Actors, FindAdmin, CreateAdmin
  <2>2. CASE UNCHANGED ensure  BY <1>1, <2>1, <2>2
  <2>3. CASE CallEnsure(s)
    <3>1. EnsMoved(s, 1, FALSE)  BY <2>1, <2>3, CallLeads
    <3> QED BY <1>0, <2>1, <3>1, EnsMoves
  <2> QED BY <1>5, <2>2, <2>3 DEF FindAdmin, CreateAdmin
<1>6. ASSUME NEW s \in Servers, Crash(s) \/ Exit(s) PROVE EnsShape'
  <2>1. Goes(s)  BY <1>6 DEF Crash, Exit
  <2> QED BY <2>1, GoesEnds DEF EnsShape
<1>7. ASSUME NEW a \in Actors, Ensures(a) PROVE EnsShape'
  <2>1. CASE CountDefault(a)
    <3>1. UNCHANGED at  BY <2>1 DEF CountDefault
    <3>2. CASE EnsMoved(a, ensure[a].k + 1, FALSE)  BY <1>0, <3>1, <3>2, EnsMoves
    <3>3. CASE EnsMoved(a, ensure[a].k, TRUE)
      BY <1>0, <2>1, <3>1, <3>3, CountDefaultLeads, EnsMoves
    <3> QED BY <2>1, <3>2, <3>3, CountDefaultLeads
  <2>2. CASE CreateDefault(a)
    <3>1. UNCHANGED at  BY <2>2 DEF CreateDefault
    <3>2. EnsMoved(a, ensure[a].k + 1, FALSE)  BY <2>2, CreateDefaultLeads
    <3> QED BY <1>0, <3>1, <3>2, EnsMoves
  <2>3. CASE EnsureReturns(a)
    <3>1. at' \in [Logins -> Servers \cup {None}]
      <4>1. CASE UNCHANGED at  BY <1>0, <4>1
      <4>2. CASE at' = [at EXCEPT ![a] = None]  BY <1>0, <4>2
      <4> QED BY <2>3, <4>1, <4>2 DEF EnsureReturns
    <3>2. EnsMoved(a, 0, FALSE)  BY <2>3, EnsureReturnsLeads
    <3> QED BY <3>1, <3>2, EnsMoves
  <2> QED BY <1>7, <2>1, <2>2, <2>3 DEF Ensures
<1>8. ASSUME NEW l \in Logins, NEW s \in Servers, Login(l, s) PROVE EnsShape'
  <2>1. l \in Actors /\ at' = [at EXCEPT ![l] = s] /\ CallEnsure(l)  BY <1>8 DEF Login, Actors
  <2>2. at' \in [Logins -> Servers \cup {None}]  BY <1>0, <2>1
  <2>3. EnsMoved(l, 1, FALSE)  BY <2>1, CallLeads
  <2> QED BY <2>1, <2>2, <2>3, EnsMoves
<1>9. ASSUME NEW i \in 1..Len(Defaults), DeleteDefault(Defaults[i]) PROVE EnsShape'
  BY <1>1, <1>9 DEF DeleteDefault
<1>10. ASSUME NEW b \in 0..MaxBalance, MoveBalance(b) PROVE EnsShape'
  BY <1>1, <1>10 DEF MoveBalance
<1> QED BY <1>2, <1>3, <1>4, <1>5, <1>6, <1>7, <1>8, <1>9, <1>10 DEF Next, Start

\* The processes of the deployment stay, and nobody else starts beside others.
LEMMA ProcShapeStep == ProcShape /\ [Next]_vars => ProcShape'
<1> SUFFICES ASSUME ProcShape, [Next]_vars PROVE ProcShape'  OBVIOUS
<1>0. stops \in Nat /\ MaxStops \in Nat  BY MigrateAssumption DEF ProcShape
<1>1. ASSUME UNCHANGED <<crew, beside, stops>> PROVE ProcShape'  BY <1>1 DEF ProcShape
<1>2. CASE UNCHANGED vars  BY <1>1, <1>2 DEF vars
<1>3. ASSUME NEW p \in Servers \cup Migrators, Joins(p), UNCHANGED <<crew, stops>>
      PROVE  ProcShape'
  BY <1>3 DEF ProcShape, Joins, Busy
<1>4. ASSUME UNCHANGED <<crew, beside>>, stops < MaxStops, stops' = stops + 1 PROVE ProcShape'
  BY <1>0, <1>4 DEF ProcShape
<1>5. ASSUME NEW m \in Migrators, RunMigrator(m) \/ Migration(m) \/ KillMigrator(m)
      PROVE  ProcShape'
  BY <1>1, <1>3, <1>4, <1>5 DEF RunMigrator, Migration, KillMigrator, Rest, ownerVars
<1>6. ASSUME NEW s \in Servers, Launch(s) PROVE ProcShape'
  BY <1>3, <1>6 DEF Launch, ownerVars
<1>7. ASSUME NEW s \in Servers, Crash(s) \/ Signal(s) PROVE ProcShape'
  BY <1>4, <1>7 DEF Crash, Signal, ownerVars
<1>8. ASSUME NEW s \in Servers, Start(s) \/ Exit(s) PROVE ProcShape'
  BY <1>1, <1>8 DEF Start, Exit, HasTable, CreateTable, MigrateFloatAmounts, CountSeed,
                    CreateSeed, FindAdmin, CreateAdmin, ownerVars
<1>9. ASSUME NEW a \in Actors, Ensures(a) PROVE ProcShape'
  BY <1>1, <1>9 DEF Ensures, CountDefault, CreateDefault, EnsureReturns, ownerVars
<1>10. ASSUME NEW l \in Logins, NEW s \in Servers, Login(l, s) PROVE ProcShape'
  BY <1>1, <1>10 DEF Login, ownerVars
<1>11. ASSUME NEW i \in 1..Len(Defaults), DeleteDefault(Defaults[i]) PROVE ProcShape'
  BY <1>1, <1>11 DEF DeleteDefault, ownerVars
<1>12. ASSUME NEW b \in 0..MaxBalance, MoveBalance(b) PROVE ProcShape'
  BY <1>1, <1>12 DEF MoveBalance
<1> QED BY <1>2, <1>5, <1>6, <1>7, <1>8, <1>9, <1>10, <1>11, <1>12 DEF Next

-----------------------------------------------------------------------------
(* The rows: system categories, default accounts, the administrator.       *)

\* Every step keeps the rows' state.
LEMMA CountShapeStep == CountShape /\ SrvShape /\ EnsShape /\ [Next]_vars => CountShape'
<1> SUFFICES ASSUME CountShape, SrvShape, EnsShape, [Next]_vars PROVE CountShape'  OBVIOUS
<1>1. ASSUME UNCHANGED <<count, admin, rivals, removed>> PROVE CountShape'
  BY <1>1 DEF CountShape
<1>2. CASE UNCHANGED vars  BY <1>1, <1>2 DEF vars
<1>3. ASSUME NEW m \in Migrators, RunMigrator(m) \/ Migration(m) \/ KillMigrator(m)
      PROVE  CountShape'
  BY <1>1, <1>3 DEF RunMigrator, Migration, KillMigrator, Rest
<1>4. ASSUME NEW s \in Servers,
             \/ Launch(s) \/ HasTable(s) \/ CreateTable(s) \/ MigrateFloatAmounts(s)
             \/ Crash(s) \/ Signal(s) \/ Exit(s)
      PROVE  CountShape'
  BY <1>1, <1>4 DEF Launch, HasTable, CreateTable, MigrateFloatAmounts, Crash, Signal, Exit
<1>5. ASSUME NEW s \in Servers, FindAdmin(s) \/ CreateAdmin(s) PROVE CountShape'
  BY <1>5 DEF CountShape, FindAdmin, CreateAdmin
<1>6. ASSUME NEW s \in Servers, CountSeed(s) PROVE CountShape'
  <2>1. srv[s].k <= Len(Seeds) => Seeds[srv[s].k] \in Names
    BY StartupAssumption DEF SrvShape, SrvRec, Names
  <2> QED BY <1>6, <2>1 DEF CountShape, CountSeed
<1>7. ASSUME NEW s \in Servers, CreateSeed(s) PROVE CountShape'
  <2>1. Seeds[srv[s].k] \in Names  BY <1>7, CreateSeedLeads DEF Names
  <2> QED BY <1>7, <2>1 DEF CountShape, CreateSeed
<1>8. ASSUME NEW a \in Actors, Ensures(a) PROVE CountShape'
  <2>1. CASE CountDefault(a)
    <3>1. Defaults[ensure[a].k] \in Names  BY <2>1, CountDefaultLeads DEF Names
    <3> QED BY <2>1, <3>1 DEF CountShape, CountDefault
  <2>2. CASE CreateDefault(a)
    <3>1. Defaults[ensure[a].k] \in Names  BY <2>2, CreateDefaultLeads DEF Names
    <3> QED BY <2>2, <3>1 DEF CountShape, CreateDefault
  <2>3. CASE EnsureReturns(a)  BY <1>1, <2>3 DEF EnsureReturns
  <2> QED BY <1>8, <2>1, <2>2, <2>3 DEF Ensures
<1>9. ASSUME NEW l \in Logins, NEW s \in Servers, Login(l, s) PROVE CountShape'
  BY <1>1, <1>9 DEF Login
<1>10. ASSUME NEW i \in 1..Len(Defaults), DeleteDefault(Defaults[i]) PROVE CountShape'
  BY <1>10 DEF CountShape, DeleteDefault, Names
<1>11. ASSUME NEW b \in 0..MaxBalance, MoveBalance(b) PROVE CountShape'
  BY <1>1, <1>11 DEF MoveBalance
<1> QED BY <1>2, <1>3, <1>4, <1>5, <1>6, <1>7, <1>8, <1>9, <1>10, <1>11 DEF Next, Start

\* What was created stays, or the owner has deleted it.
Lasts ==
  /\ \A i \in 1..Len(Seeds) : count[Seeds[i]] > 0 => count'[Seeds[i]] > 0
  /\ \A i \in 1..Len(Defaults) : count[Defaults[i]] > 0 \/ Defaults[i] \in removed =>
       count'[Defaults[i]] > 0 \/ Defaults[i] \in removed'
  /\ admin = "ready" => admin' = "ready"

\* No step takes a row away but the owner's.
LEMMA RowsLast == CountShape /\ SrvShape /\ EnsShape /\ [Next]_vars => Lasts
<1> SUFFICES ASSUME CountShape, SrvShape, EnsShape, [Next]_vars PROVE Lasts  OBVIOUS
<1>0. count \in [Names -> Nat] /\ (\A i \in 1..Len(Seeds) : Seeds[i] \in Names)
      /\ (\A i \in 1..Len(Defaults) : Defaults[i] \in Names)
  BY DEF CountShape, Names
<1>1. ASSUME UNCHANGED <<count, admin, removed>> PROVE Lasts
  BY <1>1 DEF Lasts
<1>2. CASE UNCHANGED vars  BY <1>1, <1>2 DEF vars
<1>3. ASSUME NEW m \in Migrators, RunMigrator(m) \/ Migration(m) \/ KillMigrator(m)
      PROVE  Lasts
  BY <1>1, <1>3 DEF RunMigrator, Migration, KillMigrator, Rest
<1>4. ASSUME NEW s \in Servers,
             \/ Launch(s) \/ HasTable(s) \/ CreateTable(s) \/ MigrateFloatAmounts(s)
             \/ CountSeed(s) \/ Crash(s) \/ Signal(s) \/ Exit(s)
      PROVE  Lasts
  BY <1>1, <1>4 DEF Launch, HasTable, CreateTable, MigrateFloatAmounts, CountSeed, Crash,
                    Signal, Exit
<1>5. ASSUME NEW s \in Servers, FindAdmin(s) \/ CreateAdmin(s) PROVE Lasts
  BY <1>5 DEF Lasts, FindAdmin, CreateAdmin
<1>6. ASSUME NEW s \in Servers, CreateSeed(s) PROVE Lasts
  BY <1>0, <1>6 DEF Lasts, CreateSeed
<1>7. ASSUME NEW a \in Actors, Ensures(a) PROVE Lasts
  <2>1. CASE CreateDefault(a)
    <3>1. ensure[a].k \in 1..Len(Defaults)  BY <2>1, CreateDefaultLeads
    <3>2. count'[Defaults[ensure[a].k]] > 0  BY <1>0, <2>1, <3>1 DEF CreateDefault
    <3>3. \A n \in Names \ {Defaults[ensure[a].k]} : count'[n] = count[n]
      BY <1>0, <2>1 DEF CreateDefault
    <3>4. \A i \in 1..Len(Seeds) : Seeds[i] # Defaults[ensure[a].k]
      BY <3>1, StartupAssumption
    <3> QED BY <1>0, <2>1, <3>2, <3>3, <3>4 DEF Lasts, CreateDefault
  <2>2. CASE CountDefault(a) \/ EnsureReturns(a)
    BY <1>1, <2>2 DEF CountDefault, EnsureReturns
  <2> QED BY <1>7, <2>1, <2>2 DEF Ensures
<1>8. ASSUME NEW l \in Logins, NEW s \in Servers, Login(l, s) PROVE Lasts
  BY <1>1, <1>8 DEF Login
<1>9. ASSUME NEW i \in 1..Len(Defaults), DeleteDefault(Defaults[i]) PROVE Lasts
  <2>1. \A n \in Names \ {Defaults[i]} : count'[n] = count[n]
    BY <1>0, <1>9 DEF DeleteDefault
  <2>2. \A j \in 1..Len(Seeds) : Seeds[j] # Defaults[i]  BY StartupAssumption
  <2> QED BY <1>0, <1>9, <2>1, <2>2 DEF Lasts, DeleteDefault
<1>10. ASSUME NEW b \in 0..MaxBalance, MoveBalance(b) PROVE Lasts
  BY <1>1, <1>10 DEF MoveBalance
<1> QED BY <1>2, <1>3, <1>4, <1>5, <1>6, <1>7, <1>8, <1>9, <1>10 DEF Next, Start

\* Only a start that finds the account empty, and its owner, move the balance.
LEMMA BookStep == Book /\ [Next]_vars => Book'
<1> SUFFICES ASSUME Book, [Next]_vars PROVE Book'  OBVIOUS
<1>1. ASSUME UNCHANGED <<balance, posted, fills, emptied>> PROVE Book'
  BY <1>1 DEF Book, LegacyCountedOncePerEmptying
<1>2. CASE UNCHANGED vars  BY <1>1, <1>2 DEF vars
<1>3. ASSUME NEW m \in Migrators, RunMigrator(m) \/ Migration(m) \/ KillMigrator(m)
      PROVE  Book'
  BY <1>1, <1>3 DEF RunMigrator, Migration, KillMigrator, Rest, ownerVars
<1>4. ASSUME NEW s \in Servers,
             \/ Launch(s) \/ HasTable(s) \/ CreateTable(s) \/ CountSeed(s) \/ CreateSeed(s)
             \/ FindAdmin(s) \/ CreateAdmin(s) \/ Crash(s) \/ Signal(s) \/ Exit(s)
      PROVE  Book'
  BY <1>1, <1>4 DEF Launch, HasTable, CreateTable, CountSeed, CreateSeed, FindAdmin,
                    CreateAdmin, Crash, Signal, Exit, ownerVars
<1>5. ASSUME NEW s \in Servers, MigrateFloatAmounts(s) PROVE Book'
  <2>1. CASE balance = 0 /\ Legacy # 0
    <3>1. balance' = Legacy /\ fills' = fills + 1 /\ UNCHANGED <<posted, emptied>>
      BY <1>5, <2>1 DEF MigrateFloatAmounts
    <3>2. Legacy \in Nat /\ MaxBalance \in Nat  BY StartupAssumption
    <3>3. Legacy * (fills + 1) = Legacy * fills + Legacy  BY <3>2 DEF Book
    <3> DEFINE times == Legacy * fills
    <3>4. times \in Nat  BY <3>2 DEF Book
    <3>5. balance = posted + times  BY DEF Book, LegacyCountedOncePerEmptying
    <3>6. Legacy * fills' = times + Legacy  BY <3>1, <3>3
    <3> HIDE DEF times
    <3>7. balance' = posted' + Legacy * fills'
      BY <2>1, <3>1, <3>2, <3>4, <3>5, <3>6 DEF Book
    <3> QED BY <2>1, <3>1, <3>2, <3>7 DEF Book, LegacyCountedOncePerEmptying
  <2>2. CASE ~(balance = 0 /\ Legacy # 0)
    BY <1>1, <1>5, <2>2 DEF MigrateFloatAmounts
  <2> QED BY <2>1, <2>2
<1>6. ASSUME NEW a \in Actors, Ensures(a) PROVE Book'
  BY <1>1, <1>6 DEF Ensures, CountDefault, CreateDefault, EnsureReturns, ownerVars
<1>7. ASSUME NEW l \in Logins, NEW s \in Servers, Login(l, s) PROVE Book'
  BY <1>1, <1>7 DEF Login, ownerVars
<1>8. ASSUME NEW i \in 1..Len(Defaults), DeleteDefault(Defaults[i]) PROVE Book'
  BY <1>1, <1>8 DEF DeleteDefault, ownerVars
<1>9. ASSUME NEW b \in 0..MaxBalance, MoveBalance(b) PROVE Book'
  <2> DEFINE times == Legacy * fills
  <2>1. times \in Nat /\ Legacy \in Nat /\ MaxBalance \in Nat  BY StartupAssumption DEF Book
  <2>2. balance = posted + times /\ Legacy * fills' = times
    BY <1>9 DEF Book, LegacyCountedOncePerEmptying, MoveBalance
  <2> HIDE DEF times
  <2>3. balance' = posted' + Legacy * fills'  BY <1>9, <2>1, <2>2 DEF Book, MoveBalance
  <2>4. fills' <= emptied' /\ (balance' = 0 => fills' < emptied')
    BY <1>9 DEF Book, LegacyCountedOncePerEmptying, MoveBalance
  <2> QED BY <1>9, <2>1, <2>3, <2>4 DEF Book, LegacyCountedOncePerEmptying, MoveBalance
<1> QED BY <1>2, <1>3, <1>4, <1>5, <1>6, <1>7, <1>8, <1>9 DEF Next, Start

-----------------------------------------------------------------------------
(* How far everybody has come.                                             *)

\* What Progress says of one server, and of one call.
ProgressOf(s) ==
  /\ srv[s].pc \in {"seed", "seeding"} => Seeded(srv[s].k)
  /\ srv[s].pc \in {"admin", "adding", "defaults", "serving", "draining"} =>
       Seeded(Len(Seeds) + 1)
  /\ srv[s].pc \in {"defaults", "serving", "draining"} => admin = "ready"
  /\ Up(s) => Ensured(Len(Defaults) + 1)
  /\ ensure[s].k > 0 => srv[s].pc = "defaults"

\* Who does not move, or only loses a call, is as far as before.
LEMMA StaysAsFar ==
  ASSUME Lasts, NEW s \in Servers, ProgressOf(s), srv'[s] = srv[s],
         ensure'[s] = ensure[s] \/ ensure'[s].k = 0
  PROVE  ProgressOf(s)'
<1>1. srv[s].pc \in {"seed", "seeding"} => Seeded(srv[s].k)'
  BY DEF ProgressOf, Lasts, Seeded
<1>2. srv[s].pc \in {"admin", "adding", "defaults", "serving", "draining"} =>
        Seeded(Len(Seeds) + 1)'
  BY DEF ProgressOf, Lasts, Seeded
<1>3. Up(s) => Ensured(Len(Defaults) + 1)'  BY DEF ProgressOf, Lasts, Ensured
<1>4. srv[s].pc \in {"defaults", "serving", "draining"} => admin' = "ready"
  BY DEF ProgressOf, Lasts
<1>5. ensure'[s].k > 0 => srv[s].pc = "defaults"  BY DEF ProgressOf
<1>6. Up(s)' <=> Up(s)  BY DEF Up
<1> QED BY <1>1, <1>2, <1>3, <1>4, <1>5, <1>6 DEF ProgressOf, Seeded

\* A call that goes back to no account, or stays, is as far as it says.
LEMMA CallsLast ==
  ASSUME Lasts, NEW a \in Actors, Ensured(ensure[a].k),
         ensure'[a] = ensure[a] \/ ensure'[a].k \in {0, 1}
  PROVE  Ensured(ensure[a].k)'
<1>1. CASE ensure'[a] = ensure[a]  BY <1>1 DEF Lasts, Ensured
<1>2. CASE ensure'[a].k \in {0, 1}  BY <1>2 DEF Ensured
<1> QED BY <1>1, <1>2

\* The invariant, server by server and call by call.
LEMMA ProgressParts ==
  Progress <=> /\ \A s \in Servers : ProgressOf(s)
               /\ \A a \in Actors : Ensured(ensure[a].k)
BY Zenon DEF Progress, ProgressOf

\* The same of the state after a step.
LEMMA ProgressPartsAfter ==
  ASSUME \A s \in Servers : ProgressOf(s)', \A a \in Actors : Ensured(ensure[a].k)'
  PROVE  Progress'
BY Zenon DEF Progress, ProgressOf

\* One server moves, and calls end.
LEMMA ServerProgress ==
  ASSUME Progress, Lasts, NEW s \in Servers, ProgressOf(s)',
         \A q \in Servers \ {s} : srv'[q] = srv[q],
         \A a \in Actors : ensure'[a] = ensure[a] \/ ensure'[a].k \in {0, 1},
         \A q \in Servers \ {s} : ensure'[q] = ensure[q] \/ ensure'[q].k = 0
  PROVE  Progress'
<1>1. ASSUME NEW q \in Servers, q # s PROVE ProgressOf(q)'
  BY <1>1, StaysAsFar, ProgressParts, Zenon
<1>2. \A a \in Actors : Ensured(ensure[a].k)'  BY CallsLast, ProgressParts, Zenon
<1> QED BY <1>1, <1>2, ProgressPartsAfter, Zenon

\* A step of a server in which no call begins or ends.
LEMMA OwnStep ==
  ASSUME Progress, Lasts, EnsShape, NEW s \in Servers, NEW pc, NEW k, Moved(s, pc, k),
         ensure' = ensure, srv[s].pc # "defaults",
         pc \in {"seed", "seeding"} => Seeded(k)',
         pc \in {"admin", "adding", "serving", "draining"} => Seeded(Len(Seeds) + 1)',
         pc \in {"serving", "draining"} =>
           admin' = "ready" /\ Ensured(Len(Defaults) + 1)',
         pc # "defaults"
  PROVE  Progress'
<1>1. srv'[s].pc = pc /\ srv'[s].k = k /\ \A q \in Servers \ {s} : srv'[q] = srv[q]
  BY DEF Moved
<1>2. ~(ensure'[s].k > 0)  BY Zenon DEF Progress
<1>3. ProgressOf(s)'  BY <1>1, <1>2 DEF ProgressOf, Up, Seeded, Ensured
<1> QED BY <1>1, <1>3, ServerProgress

\* A server that has its administrator turns to the default accounts.
LEMMA AdminStep ==
  ASSUME Progress, Lasts, EnsShape, NEW s \in Servers, NEW k, Moved(s, "defaults", k),
         srv[s].pc \in {"admin", "adding"}, admin' = "ready", CallEnsure(s)
  PROVE  Progress'
<1>1. srv'[s].pc = "defaults" /\ \A q \in Servers \ {s} : srv'[q] = srv[q]
  BY DEF Moved
<1>2. EnsMoved(s, 1, FALSE)  BY CallLeads DEF Actors
<1>3. Seeded(Len(Seeds) + 1)'  BY DEF Progress, Lasts, Seeded
<1>4. ProgressOf(s)'  BY <1>1, <1>3 DEF ProgressOf, Up, Seeded
<1>5. \A a \in Actors : ensure'[a] = ensure[a] \/ ensure'[a].k \in {0, 1}
  BY <1>2 DEF EnsMoved
<1>6. \A q \in Servers \ {s} : ensure'[q] = ensure[q]  BY <1>2 DEF EnsMoved, Actors
<1> QED BY <1>1, <1>4, <1>5, <1>6, ServerProgress

\* A server that goes has nothing to show.
LEMMA GoneStep ==
  ASSUME Progress, Lasts, SrvShape, EnsShape, NEW s \in Servers, Goes(s)
  PROVE  Progress'
<1>1. srv'[s].pc = "down" /\ \A q \in Servers \ {s} : srv'[q] = srv[q]
  BY GoesLeads DEF Moved
<1>2. /\ \A a \in Actors : ensure'[a] = ensure[a] \/ ensure'[a].k = 0
      /\ ensure'[s].k = 0
  BY GoesEnds DEF Actors
<1>3. ProgressOf(s)'  BY <1>1, <1>2 DEF ProgressOf, Up
<1>4. \A q \in Servers \ {s} : ensure'[q] = ensure[q] \/ ensure'[q].k = 0
  BY <1>2 DEF Actors
<1> QED BY <1>1, <1>2, <1>3, <1>4, ServerProgress

\* No server moves, and at most one call does.
LEMMA CallStep ==
  ASSUME Progress, Lasts, srv' = srv, NEW a \in Actors, Ensured(ensure[a].k)',
         a \in Servers => srv[a].pc = "defaults",
         \A b \in Actors \ {a} : ensure'[b] = ensure[b]
  PROVE  Progress'
<1>1. ASSUME NEW s \in Servers PROVE ProgressOf(s)'
  <2>1. CASE s # a
    <3>1. ensure'[s] = ensure[s]  BY <2>1 DEF Actors
    <3> QED BY <3>1, StaysAsFar, ProgressParts
  <2>2. CASE s = a
    <3>1. ProgressOf(s) /\ srv[s].pc = "defaults"  BY <2>2, ProgressParts
    <3>2. Seeded(Len(Seeds) + 1)'  BY <3>1 DEF ProgressOf, Lasts, Seeded
    <3> QED BY <3>1, <3>2 DEF ProgressOf, Up, Lasts, Seeded
  <2> QED BY <2>1, <2>2
<1>2. ASSUME NEW b \in Actors, b # a PROVE Ensured(ensure[b].k)'
  BY <1>2, CallsLast, ProgressParts, Zenon
<1> QED BY <1>1, <1>2, ProgressPartsAfter, Zenon

\* Every step keeps everybody as far as it says.
LEMMA ProgressStep ==
  Progress /\ CountShape /\ SrvShape /\ EnsShape /\ [Next]_vars => Progress'
<1> SUFFICES ASSUME Progress, CountShape, SrvShape, EnsShape, [Next]_vars PROVE Progress'
  OBVIOUS
<1>0. Lasts  BY RowsLast
<1>1. ASSUME UNCHANGED <<srv, ensure>> PROVE Progress'
  <2>1. ASSUME NEW s \in Servers PROVE ProgressOf(s)'
    BY <1>0, <1>1, StaysAsFar, ProgressParts
  <2>2. ASSUME NEW a \in Actors PROVE Ensured(ensure[a].k)'
    BY <1>0, <1>1, CallsLast, ProgressParts
  <2> QED BY <2>1, <2>2, ProgressPartsAfter, Zenon
<1>2. CASE UNCHANGED vars  BY <1>1, <1>2 DEF vars
<1>3. ASSUME NEW m \in Migrators, RunMigrator(m) \/ Migration(m) \/ KillMigrator(m)
      PROVE  Progress'
  BY <1>1, <1>3 DEF RunMigrator, Migration, KillMigrator, Rest
<1>4. ASSUME NEW s \in Servers, Launch(s) PROVE Progress'
  BY <1>0, <1>4, LaunchLeads, OwnStep DEF Launch
<1>5. ASSUME NEW s \in Servers, HasTable(s) \/ CreateTable(s) PROVE Progress'
  <2>1. ensure' = ensure /\ srv[s].pc # "defaults"  BY <1>5 DEF HasTable, CreateTable
  <2>2. PICK pc \in {"refill", "tables", "create", "failed"}, k \in {1, srv[s].k, srv[s].k + 1} :
          Moved(s, pc, k)
    BY <1>5, HasTableLeads, CreateTableLeads
  <2> QED BY <1>0, <2>1, <2>2, OwnStep
<1>6. ASSUME NEW s \in Servers, MigrateFloatAmounts(s) PROVE Progress'
  <2>1. Seeded(1)'  BY DEF Seeded
  <2> QED BY <1>0, <1>6, <2>1, RefillLeads, OwnStep DEF MigrateFloatAmounts
<1>7. ASSUME NEW s \in Servers, CountSeed(s) PROVE Progress'
  <2>1. ensure' = ensure /\ srv[s].pc = "seed" /\ count' = count /\ srv[s].k \in Nat
    BY <1>7 DEF CountSeed, SrvShape, SrvRec
  <2>2. Seeded(srv[s].k)  BY <2>1 DEF Progress
  <2>3. CASE Moved(s, "admin", 1) /\ srv[s].k > Len(Seeds)
    <3>1. Seeded(Len(Seeds) + 1)'  BY <2>1, <2>2, <2>3, StartupAssumption DEF Seeded
    <3> QED BY <1>0, <2>1, <2>3, <3>1, OwnStep
  <2>4. CASE Moved(s, "seed", srv[s].k + 1) /\ count[Seeds[srv[s].k]] > 0
    <3>1. PICK k : k = srv[s].k + 1  OBVIOUS
    <3>2. \A i \in 1..Len(Seeds) : i < k => count'[Seeds[i]] > 0
      BY <2>1, <2>2, <2>4, <3>1 DEF Seeded
    <3>3. Moved(s, "seed", k)  BY <2>4, <3>1
    <3>4. Seeded(k)'  BY <3>2 DEF Seeded
    <3> QED BY <1>0, <2>1, <3>3, <3>4, OwnStep
  <2>5. CASE Moved(s, "seeding", srv[s].k)
    <3>1. Seeded(srv[s].k)  BY <2>2
    <3> QED BY <1>0, <2>1, <2>5, <3>1, OwnStep DEF Seeded
  <2> QED BY <1>7, <2>3, <2>4, <2>5, CountSeedLeads
<1>8. ASSUME NEW s \in Servers, CreateSeed(s) PROVE Progress'
  <2>1. ensure' = ensure /\ srv[s].pc = "seeding" /\ srv[s].k \in 1..Len(Seeds)
        /\ count' = [count EXCEPT ![Seeds[srv[s].k]] = @ + 1]
    BY <1>8, CreateSeedLeads DEF CreateSeed
  <2>2. Seeded(srv[s].k)  BY <2>1 DEF Progress
  <2>0. PICK k : k = srv[s].k + 1  OBVIOUS
  <2>3. Seeds[srv[s].k] \in Names /\ count \in [Names -> Nat]
    BY <2>1 DEF Names, CountShape
  <2>4. count'[Seeds[srv[s].k]] > 0  BY <2>1, <2>3
  <2>5. \A i \in 1..Len(Seeds) : i < k => count'[Seeds[i]] > 0
    <3>1. ASSUME NEW i \in 1..Len(Seeds), i < k, i # srv[s].k PROVE count'[Seeds[i]] > 0
      <4>1. i < srv[s].k  BY <2>1, <2>0, <3>1
      <4> QED BY <1>0, <2>2, <3>1, <4>1 DEF Seeded, Lasts
    <3> QED BY <2>4, <3>1
  <2>6. Moved(s, "seed", k)  BY <1>8, <2>0, CreateSeedLeads
  <2>7. Seeded(k)'  BY <2>5 DEF Seeded
  <2> QED BY <1>0, <2>1, <2>6, <2>7, OwnStep
<1>9. ASSUME NEW s \in Servers, FindAdmin(s) PROVE Progress'
  <2>1. srv[s].pc = "admin"  BY <1>9 DEF FindAdmin
  <2>2. Seeded(Len(Seeds) + 1)'  BY <1>0, <2>1 DEF Progress, Lasts, Seeded
  <2>3. CASE Moved(s, "adding", srv[s].k) /\ UNCHANGED ensure
    BY <1>0, <2>1, <2>2, <2>3, OwnStep
  <2>4. CASE Moved(s, "defaults", srv[s].k) /\ admin' = "ready" /\ CallEnsure(s)
    BY <1>0, <2>1, <2>4, AdminStep
  <2> QED BY <1>9, <2>3, <2>4, FindAdminLeads
<1>10. ASSUME NEW s \in Servers, CreateAdmin(s) PROVE Progress'
  <2>1. srv[s].pc = "adding"  BY <1>10 DEF CreateAdmin
  <2>2. CASE Moved(s, "failed", 1) /\ UNCHANGED ensure
    BY <1>0, <2>1, <2>2, OwnStep
  <2>3. CASE Moved(s, "defaults", srv[s].k) /\ admin' = "ready" /\ CallEnsure(s)
    BY <1>0, <2>1, <2>3, AdminStep
  <2> QED BY <1>10, <2>2, <2>3, CreateAdminLeads
<1>11. ASSUME NEW s \in Servers, Crash(s) \/ Exit(s) PROVE Progress'
  BY <1>0, <1>11, GoneStep DEF Crash, Exit
<1>12. ASSUME NEW s \in Servers, Signal(s) PROVE Progress'
  <2>1. Seeded(Len(Seeds) + 1)' /\ admin' = "ready" /\ Ensured(Len(Defaults) + 1)'
    BY <1>0, <1>12 DEF Signal, Progress, Up, Lasts, Seeded, Ensured
  <2> QED BY <1>0, <1>12, <2>1, SignalLeads, OwnStep DEF Signal
<1>19. ASSUME NEW a \in Actors, ensure[a].k > 0
       PROVE  Ensured(ensure[a].k) /\ (a \in Servers => srv[a].pc = "defaults")
  BY <1>19, Zenon DEF Progress
<1>13. ASSUME NEW a \in Actors, CountDefault(a) PROVE Progress'
  <2>1. /\ srv' = srv /\ count' = count /\ removed' = removed /\ ensure[a].k \in 1..Len(Defaults)
        /\ Ensured(ensure[a].k)
        /\ a \in Servers => srv[a].pc = "defaults"
    <3>1. ensure[a].k \in 1..Len(Defaults)  BY <1>13, CountDefaultLeads
    <3>2. ensure[a].k > 0  BY <3>1
    <3> QED BY <1>13, <1>19, <3>1, <3>2 DEF CountDefault
  <2>2. CASE EnsMoved(a, ensure[a].k + 1, FALSE) /\ count[Defaults[ensure[a].k]] > 0
    <3>1. Ensured(ensure[a].k)'  BY <2>1, <2>2 DEF Ensured, EnsMoved
    <3> QED BY <1>0, <2>1, <2>2, <3>1, CallStep DEF EnsMoved
  <2>3. CASE EnsMoved(a, ensure[a].k, TRUE)
    <3>1. Ensured(ensure[a].k)'  BY <2>1, <2>3 DEF Ensured, EnsMoved
    <3> QED BY <1>0, <2>1, <2>3, <3>1, CallStep DEF EnsMoved
  <2> QED BY <1>13, <2>2, <2>3, CountDefaultLeads
<1>14. ASSUME NEW a \in Actors, CreateDefault(a) PROVE Progress'
  <2>1. /\ srv' = srv /\ ensure[a].k \in 1..Len(Defaults) /\ Ensured(ensure[a].k)
        /\ a \in Servers => srv[a].pc = "defaults"
        /\ EnsMoved(a, ensure[a].k + 1, FALSE)
        /\ count' = [count EXCEPT ![Defaults[ensure[a].k]] = @ + 1]
    <3>1. ensure[a].k \in 1..Len(Defaults) /\ EnsMoved(a, ensure[a].k + 1, FALSE)
      BY <1>14, CreateDefaultLeads
    <3>2. ensure[a].k > 0  BY <3>1
    <3> QED BY <1>14, <1>19, <3>1, <3>2 DEF CreateDefault
  <2>2. Defaults[ensure[a].k] \in Names /\ count \in [Names -> Nat]
    BY <2>1 DEF Names, CountShape
  <2>3. count'[Defaults[ensure[a].k]] > 0  BY <2>1, <2>2
  <2>4. Ensured(ensure[a].k)'
    BY <1>0, <2>1, <2>3 DEF Ensured, EnsMoved, Lasts
  <2> QED BY <1>0, <2>1, <2>4, CallStep DEF EnsMoved
<1>15. ASSUME NEW a \in Actors, EnsureReturns(a) PROVE Progress'
  <2>1. EnsMoved(a, 0, FALSE) /\ ensure[a].k = Len(Defaults) + 1
    BY <1>15, EnsureReturnsLeads
  <2>2. Ensured(ensure[a].k)'  BY <2>1 DEF Ensured, EnsMoved
  <2>3. CASE a \in Servers
    <3>1. srv'[a].pc = "serving" /\ \A q \in Servers \ {a} : srv'[q] = srv[q]
      BY <1>15, <2>3, ServeLeads DEF Moved
    <3>2. srv[a].pc = "defaults" /\ Ensured(Len(Defaults) + 1)
      <4>1. ensure[a].k > 0  BY <2>1, StartupAssumption
      <4> QED BY <1>19, <2>1, <2>3, <4>1
    <3>3. Seeded(Len(Seeds) + 1)' /\ admin' = "ready" /\ Ensured(Len(Defaults) + 1)'
      BY <1>0, <2>3, <3>2 DEF Progress, Lasts, Seeded, Ensured
    <3>4. ProgressOf(a)'
      BY <2>1, <3>1, <3>3 DEF ProgressOf, EnsMoved, Up, Seeded, Ensured
    <3>5. /\ \A b \in Actors : ensure'[b] = ensure[b] \/ ensure'[b].k \in {0, 1}
          /\ \A q \in Servers \ {a} : ensure'[q] = ensure[q]
      BY <2>1 DEF EnsMoved, Actors
    <3> QED BY <1>0, <2>3, <3>1, <3>4, <3>5, ServerProgress
  <2>4. CASE a \notin Servers
    <3>1. srv' = srv  BY <1>15, <2>4 DEF EnsureReturns
    <3> QED BY <1>0, <2>1, <2>2, <2>4, <3>1, CallStep DEF EnsMoved
  <2> QED BY <2>3, <2>4
<1>16. ASSUME NEW l \in Logins, NEW s \in Servers, Login(l, s) PROVE Progress'
  <2>1. EnsMoved(l, 1, FALSE) /\ l \in Actors /\ l \notin Servers /\ srv' = srv
    BY <1>16, CallLeads, StartupAssumption DEF Login, Actors
  <2>2. Ensured(ensure[l].k)'  BY <2>1 DEF Ensured, EnsMoved
  <2> QED BY <1>0, <2>1, <2>2, CallStep DEF EnsMoved
<1>17. ASSUME NEW i \in 1..Len(Defaults), DeleteDefault(Defaults[i]) PROVE Progress'
  BY <1>1, <1>17 DEF DeleteDefault
<1>18. ASSUME NEW b \in 0..MaxBalance, MoveBalance(b) PROVE Progress'
  BY <1>1, <1>18 DEF MoveBalance
<1> QED BY <1>2, <1>3, <1>4, <1>5, <1>6, <1>7, <1>8, <1>9, <1>10, <1>11, <1>12, <1>13, <1>14,
           <1>15, <1>16, <1>17, <1>18 DEF Next, Start, Ensures

-----------------------------------------------------------------------------
(* Who is about to create what.                                            *)

\* What a step may do to the rows called n and the actors about to create
\* one: leave them or lessen them, create the row, or add one actor that has
\* just counted none.
RowsStay(n) == count'[n] <= count[n] /\ Pending(n)' \subseteq Pending(n)
RowAdded(n) ==
  count'[n] = count[n] + 1 /\ \E a \in Pending(n) : Pending(n)' \subseteq Pending(n) \ {a}
FoundNone(n) ==
  /\ count[n] = 0 /\ count'[n] = 0
  /\ \E a \in Actors : Pending(n)' \subseteq Pending(n) \cup {a}
  /\ Pending(n) # {} => n \in rivals'
RowMoves(n) == RowsStay(n) \/ RowAdded(n) \/ FoundNone(n)

\* Where a names what b does: nothing changes, or it is called off.
Keeps(b) ==
  /\ b \in Servers => srv'[b] = srv[b]
  /\ ensure'[b] = ensure[b] \/ ensure'[b].missing = FALSE

\* Actors other than a are about to do what they were, or nothing.
LEMMA PendingAfter ==
  ASSUME NEW a, \A b \in Actors \ {a} : Keeps(b), NEW n
  PROVE  /\ Pending(n)' \subseteq Pending(n) \cup {a}
         /\ ~Creating(a, n)' => Pending(n)' \subseteq Pending(n) \ {a}
<1>1. ASSUME NEW b \in Actors, b # a, Creating(b, n)' PROVE Creating(b, n)
  BY <1>1 DEF Keeps, Creating
<1>2. Pending(n)' = {b \in Actors : Creating(b, n)'}  BY DEF Pending
<1>3. Pending(n) = {b \in Actors : Creating(b, n)}  BY DEF Pending
<1> QED BY <1>1, <1>2, <1>3, Zenon

\* One row of each name is created at a time, and names are told apart.
LEMMA NamesDiffer ==
  /\ \A i, j \in 1..Len(Seeds) : Seeds[i] = Seeds[j] => i = j
  /\ \A i, j \in 1..Len(Defaults) : Defaults[i] = Defaults[j] => i = j
  /\ \A i \in 1..Len(Seeds), j \in 1..Len(Defaults) : Seeds[i] # Defaults[j]
  /\ \A i \in 1..Len(Seeds) : Seeds[i] \in Names
  /\ \A i \in 1..Len(Defaults) : Defaults[i] \in Names
BY StartupAssumption DEF Names

\* A record is told by its fields.
LEMMA SameRecord ==
  /\ \A y \in SrvRec : y = [pc |-> y.pc, k |-> y.k]
  /\ \A y \in EnsRec : y = [k |-> y.k, missing |-> y.missing]
<1>1. ASSUME NEW y \in SrvRec PROVE y = [pc |-> y.pc, k |-> y.k]  BY DEF SrvRec
<1>2. ASSUME NEW y \in EnsRec PROVE y = [k |-> y.k, missing |-> y.missing]  BY DEF EnsRec
<1> QED BY <1>1, <1>2

\* Actor a, if anyone, moves, and is not newly about to create an n.
LEMMA StayStep ==
  ASSUME NEW a \in Actors, \A b \in Actors \ {a} : Keeps(b), NEW n,
         Creating(a, n)' => Creating(a, n), count'[n] <= count[n]
  PROVE  RowMoves(n)
<1>1. Pending(n)' \subseteq Pending(n) \cup {a}
      /\ (~Creating(a, n)' => Pending(n)' \subseteq Pending(n) \ {a})
  BY PendingAfter
<1>2. CASE Creating(a, n)  BY <1>1, <1>2 DEF Pending, RowMoves, RowsStay
<1>3. CASE ~Creating(a, n)'  BY <1>1, <1>3 DEF RowMoves, RowsStay
<1> QED BY <1>2, <1>3

\* A server moves to a phase that creates no category, and no call does.
LEMMA ServerStays ==
  ASSUME CountShape, NEW s \in Servers, NEW pc, NEW k, Moved(s, pc, k), pc # "seeding",
         \A b \in Actors : ensure'[b] = ensure[b] \/ ensure'[b].missing = FALSE,
         count' = count, NEW n \in Names
  PROVE  RowMoves(n)
<1>1. s \in Actors /\ \A b \in Actors \ {s} : Keeps(b)  BY DEF Actors, Moved, Keeps
<1>2. Creating(s, n)' => Creating(s, n)
  <2>1. srv'[s].pc # "seeding"  BY DEF Moved
  <2> QED BY <1>1, <2>1 DEF Creating
<1>3. count'[n] <= count[n]  BY DEF CountShape
<1> QED BY <1>1, <1>2, <1>3, StayStep

\* The category that a server creates.
LEMMA SeedAdded ==
  ASSUME CountShape, SrvShape, EnsShape, NEW s \in Servers, CreateSeed(s), NEW n \in Names
  PROVE  RowMoves(n)
<1>1. /\ Moved(s, "seed", srv[s].k + 1) /\ srv[s].k \in 1..Len(Seeds) /\ srv[s].pc = "seeding"
      /\ ensure' = ensure /\ count' = [count EXCEPT ![Seeds[srv[s].k]] = @ + 1]
  BY CreateSeedLeads DEF CreateSeed
<1>2. s \in Actors /\ (\A b \in Actors \ {s} : Keeps(b)) /\ srv'[s].pc = "seed"
  BY <1>1 DEF Actors, Moved, Keeps
<1>3. CASE n = Seeds[srv[s].k]
  <2>1. count'[n] = count[n] + 1  BY <1>1, <1>3 DEF CountShape
  <2>2. s \in Pending(n)  BY <1>1, <1>2, <1>3 DEF Pending, Creating
  <2>3. ~Creating(s, n)'
    BY <1>1, <1>2, <1>3, NamesDiffer DEF Creating, EnsShape
  <2> QED BY <1>2, <2>1, <2>2, <2>3, PendingAfter DEF RowMoves, RowAdded
<1>4. CASE n # Seeds[srv[s].k]
  <2>1. count'[n] <= count[n]  BY <1>1, <1>4 DEF CountShape
  <2>2. Creating(s, n)' => Creating(s, n)  BY <1>1, <1>2 DEF Creating
  <2> QED BY <1>2, <2>1, <2>2, StayStep
<1> QED BY <1>3, <1>4

\* The category that a server finds missing.
LEMMA SeedFoundMissing ==
  ASSUME CountShape, SrvShape, EnsShape, NEW s \in Servers, CountSeed(s), NEW n \in Names
  PROVE  RowMoves(n)
<1>1. ensure' = ensure /\ count' = count /\ srv[s].pc = "seed"  BY DEF CountSeed
<1>2. CASE Moved(s, "admin", 1)  BY <1>1, <1>2, ServerStays
<1>3. CASE Moved(s, "seed", srv[s].k + 1)  BY <1>1, <1>3, ServerStays
<1>4. CASE /\ Moved(s, "seeding", srv[s].k) /\ srv[s].k \in 1..Len(Seeds)
           /\ ~(count[Seeds[srv[s].k]] > 0)
  <2>1. /\ s \in Actors /\ (\A b \in Actors \ {s} : Keeps(b))
        /\ srv'[s].pc = "seeding" /\ srv'[s].k = srv[s].k
    BY <1>1, <1>4 DEF Actors, Moved, Keeps
  <2>2. CASE n = Seeds[srv[s].k]
    <3>1. count[n] = 0 /\ count'[n] = 0  BY <1>1, <1>4, <2>2 DEF CountShape
    <3>2. Pending(n)' \subseteq Pending(n) \cup {s}  BY <2>1, PendingAfter
    <3>3. ASSUME NEW b \in Pending(n) PROVE n \in rivals'
      <4>1. b \in Servers /\ srv[b].pc = "seeding" /\ Seeds[srv[b].k] = n
        BY <1>4, <2>2, NamesDiffer DEF Pending, Creating, EnsShape
      <4>2. b # s /\ srv[b].k = srv[s].k  BY <1>1, <1>4, <2>2, <4>1, NamesDiffer DEF SrvShape
      <4>3. srv[b] = [pc |-> "seeding", k |-> srv[s].k]
        <5>1. srv[b] \in SrvRec  BY <4>1 DEF SrvShape
        <5>2. srv[b] = [pc |-> srv[b].pc, k |-> srv[b].k]  BY <5>1, SameRecord, Zenon
        <5> QED BY <4>1, <4>2, <5>2, Zenon
      <4>4. srv[s].k <= Len(Seeds)  BY <1>4, StartupAssumption
      <4> QED BY <2>2, <4>1, <4>2, <4>3, <4>4 DEF CountSeed
    <3> QED BY <2>1, <3>1, <3>2, <3>3 DEF RowMoves, FoundNone
  <2>3. CASE n # Seeds[srv[s].k]
    <3>1. Creating(s, n)' => Creating(s, n)  BY <1>1, <2>1, <2>3 DEF Creating
    <3>2. count'[n] <= count[n]  BY <1>1 DEF CountShape
    <3> QED BY <2>1, <3>1, <3>2, StayStep
  <2> QED BY <2>2, <2>3
<1> QED BY <1>2, <1>3, <1>4, CountSeedLeads

\* The account that a call creates.
LEMMA DefaultAdded ==
  ASSUME CountShape, EnsShape, SrvShape, NEW a \in Actors, CreateDefault(a), NEW n \in Names
  PROVE  RowMoves(n)
<1>1. /\ EnsMoved(a, ensure[a].k + 1, FALSE) /\ ensure[a].k \in 1..Len(Defaults)
      /\ ensure[a].missing /\ srv' = srv
      /\ count' = [count EXCEPT ![Defaults[ensure[a].k]] = @ + 1]
  BY CreateDefaultLeads DEF CreateDefault
<1>2. (\A b \in Actors \ {a} : Keeps(b)) /\ ensure'[a].missing = FALSE
  BY <1>1 DEF EnsMoved, Keeps
<1>3. CASE n = Defaults[ensure[a].k]
  <2>1. count'[n] = count[n] + 1  BY <1>1, <1>3 DEF CountShape
  <2>2. a \in Pending(n)  BY <1>1, <1>3 DEF Pending, Creating
  <2>3. ~Creating(a, n)'
    BY <1>1, <1>2, <1>3, NamesDiffer DEF Creating, SrvShape
  <2> QED BY <1>2, <2>1, <2>2, <2>3, PendingAfter DEF RowMoves, RowAdded
<1>4. CASE n # Defaults[ensure[a].k]
  <2>1. count'[n] <= count[n]  BY <1>1, <1>4 DEF CountShape
  <2>2. Creating(a, n)' => Creating(a, n)  BY <1>1, <1>2 DEF Creating
  <2> QED BY <1>2, <2>1, <2>2, StayStep
<1> QED BY <1>3, <1>4

\* The account that a call finds missing.
LEMMA DefaultFoundMissing ==
  ASSUME CountShape, EnsShape, SrvShape, NEW a \in Actors, CountDefault(a), NEW n \in Names
  PROVE  RowMoves(n)
<1>1. srv' = srv /\ count' = count /\ ensure[a].k \in 1..Len(Defaults) /\ ~ensure[a].missing
  BY CountDefaultLeads DEF CountDefault
<1>2. count'[n] <= count[n]  BY <1>1 DEF CountShape
<1>3. CASE EnsMoved(a, ensure[a].k + 1, FALSE)
  <2>1. (\A b \in Actors \ {a} : Keeps(b)) /\ ensure'[a].missing = FALSE
    BY <1>1, <1>3 DEF EnsMoved, Keeps
  <2>2. Creating(a, n)' => Creating(a, n)  BY <1>1, <2>1 DEF Creating
  <2> QED BY <1>2, <2>1, <2>2, StayStep
<1>4. CASE EnsMoved(a, ensure[a].k, TRUE) /\ ~(count[Defaults[ensure[a].k]] > 0)
  <2>1. (\A b \in Actors \ {a} : Keeps(b)) /\ ensure'[a].k = ensure[a].k
    BY <1>1, <1>4 DEF EnsMoved, Keeps
  <2>2. CASE n = Defaults[ensure[a].k]
    <3>1. count[n] = 0 /\ count'[n] = 0  BY <1>1, <1>4, <2>2 DEF CountShape
    <3>2. Pending(n)' \subseteq Pending(n) \cup {a}  BY <2>1, PendingAfter
    <3>3. ASSUME NEW b \in Pending(n) PROVE n \in rivals'
      <4>1. b \in Actors /\ ensure[b].missing /\ Defaults[ensure[b].k] = n
        BY <1>1, <2>2, NamesDiffer DEF Pending, Creating, SrvShape
      <4>2. b # a /\ ensure[b].k = ensure[a].k
        BY <1>1, <2>2, <4>1, NamesDiffer DEF EnsShape
      <4>3. ensure[b] = [k |-> ensure[a].k, missing |-> TRUE]
        <5>1. ensure[b] \in EnsRec  BY <4>1 DEF EnsShape
        <5>2. ensure[b] = [k |-> ensure[b].k, missing |-> ensure[b].missing]
          BY <5>1, SameRecord, Zenon
        <5>3. ensure[b].missing = TRUE  BY <4>1, <5>1, Zenon DEF EnsRec
        <5> QED BY <4>2, <5>2, <5>3, Zenon
      <4> QED BY <2>2, <4>1, <4>2, <4>3, Zenon DEF CountDefault
    <3> QED BY <3>1, <3>2, <3>3 DEF RowMoves, FoundNone
  <2>3. CASE n # Defaults[ensure[a].k]
    <3>1. Creating(a, n)' => Creating(a, n)  BY <1>1, <2>1, <2>3 DEF Creating
    <3> QED BY <1>2, <2>1, <3>1, StayStep
  <2> QED BY <2>2, <2>3
<1> QED BY <1>3, <1>4, CountDefaultLeads

\* What every step does to the rows of a name and those about to create one.
LEMMA RowsStep ==
  ASSUME CountShape, SrvShape, EnsShape, Progress, [Next]_vars, NEW n \in Names
  PROVE  RowMoves(n)
<1>0. count[n] \in Nat  BY DEF CountShape
<1>1. ASSUME UNCHANGED <<srv, ensure>>, count'[n] <= count[n] PROVE RowMoves(n)
  <2>1. Pending(n)' \subseteq Pending(n)  BY <1>1 DEF Pending, Creating
  <2> QED BY <1>1, <2>1 DEF RowMoves, RowsStay
<1>2. CASE UNCHANGED vars  BY <1>0, <1>1, <1>2 DEF vars
<1>3. ASSUME NEW m \in Migrators, RunMigrator(m) \/ Migration(m) \/ KillMigrator(m)
      PROVE  RowMoves(n)
  BY <1>0, <1>1, <1>3 DEF RunMigrator, Migration, KillMigrator, Rest
<1>4. ASSUME NEW s \in Servers,
             \/ Launch(s) \/ HasTable(s) \/ CreateTable(s) \/ MigrateFloatAmounts(s) \/ Signal(s)
      PROVE  RowMoves(n)
  <2>1. ensure' = ensure /\ count' = count
    BY <1>4 DEF Launch, HasTable, CreateTable, MigrateFloatAmounts, Signal
  <2>2. \E pc \in ServerStates \ {"seeding"}, k \in {1, srv[s].k, srv[s].k + 1} :
          Moved(s, pc, k)
    BY <1>4, LaunchLeads, HasTableLeads, CreateTableLeads, RefillLeads, SignalLeads
       DEF ServerStates
  <2> QED BY <2>1, <2>2, ServerStays
<1>5. ASSUME NEW s \in Servers, CountSeed(s) PROVE RowMoves(n)
  BY <1>5, SeedFoundMissing
<1>6. ASSUME NEW s \in Servers, CreateSeed(s) PROVE RowMoves(n)
  BY <1>6, SeedAdded
<1>7. ASSUME NEW s \in Servers, FindAdmin(s) \/ CreateAdmin(s) PROVE RowMoves(n)
  <2>1. count' = count  BY <1>7 DEF FindAdmin, CreateAdmin
  <2>2. \E pc \in {"adding", "defaults", "failed"}, k \in {1, srv[s].k} : Moved(s, pc, k)
    BY <1>7, FindAdminLeads, CreateAdminLeads
  <2>3. ensure' = ensure \/ CallEnsure(s)  BY <1>7 DEF FindAdmin, CreateAdmin
  <2>4. \A b \in Actors : ensure'[b] = ensure[b] \/ ensure'[b].missing = FALSE
    BY <2>3, CallLeads DEF EnsMoved, Actors
  <2> QED BY <2>1, <2>2, <2>4, ServerStays
<1>8. ASSUME NEW s \in Servers, Crash(s) \/ Exit(s) PROVE RowMoves(n)
  <2>1. Goes(s) /\ count' = count  BY <1>8 DEF Crash, Exit
  <2>2. Moved(s, "down", 1)  BY <2>1, GoesLeads
  <2>3. \A b \in Actors : ensure'[b] = ensure[b] \/ ensure'[b].missing = FALSE
    BY <2>1, GoesEnds
  <2> QED BY <2>1, <2>2, <2>3, ServerStays
<1>9. ASSUME NEW a \in Actors, CountDefault(a) PROVE RowMoves(n)
  BY <1>9, DefaultFoundMissing
<1>10. ASSUME NEW a \in Actors, CreateDefault(a) PROVE RowMoves(n)
  BY <1>10, DefaultAdded
<1>11. ASSUME NEW a \in Actors, EnsureReturns(a) PROVE RowMoves(n)
  <2>1. count' = count /\ EnsMoved(a, 0, FALSE)
    BY <1>11, EnsureReturnsLeads DEF EnsureReturns
  <2>2. \A b \in Actors : ensure'[b] = ensure[b] \/ ensure'[b].missing = FALSE
    BY <2>1 DEF EnsMoved
  <2>3. CASE a \in Servers
    BY <1>11, <2>1, <2>2, <2>3, ServeLeads, ServerStays
  <2>4. CASE a \notin Servers
    <3>1. (\A b \in Actors \ {a} : Keeps(b)) /\ (Creating(a, n)' => Creating(a, n))
      BY <1>11, <2>1, <2>4 DEF EnsureReturns, EnsMoved, Keeps, Creating
    <3> QED BY <1>0, <2>1, <3>1, StayStep
  <2> QED BY <2>3, <2>4
<1>12. ASSUME NEW l \in Logins, NEW s \in Servers, Login(l, s) PROVE RowMoves(n)
  <2>1. EnsMoved(l, 1, FALSE) /\ l \in Actors /\ srv' = srv /\ count' = count
    BY <1>12, CallLeads DEF Login, Actors
  <2>2. (\A b \in Actors \ {l} : Keeps(b)) /\ (Creating(l, n)' => Creating(l, n))
    BY <2>1 DEF EnsMoved, Keeps, Creating
  <2> QED BY <1>0, <2>1, <2>2, StayStep
<1>13. ASSUME NEW i \in 1..Len(Defaults), DeleteDefault(Defaults[i]) PROVE RowMoves(n)
  <2>1. count'[n] <= count[n]  BY <1>13, NamesDiffer DEF CountShape, DeleteDefault
  <2> QED BY <1>1, <1>13, <2>1 DEF DeleteDefault
<1>14. ASSUME NEW b \in 0..MaxBalance, MoveBalance(b) PROVE RowMoves(n)
  BY <1>0, <1>1, <1>14 DEF MoveBalance
<1> QED BY <1>2, <1>3, <1>4, <1>5, <1>6, <1>7, <1>8, <1>9, <1>10, <1>11, <1>12, <1>13, <1>14
        DEF Next, Start, Ensures

\* Who was once a rival is remembered.
LEMMA RivalsStay == [Next]_vars => rivals \subseteq rivals'
<1> SUFFICES ASSUME [Next]_vars PROVE rivals \subseteq rivals'  OBVIOUS
<1>1. ASSUME NEW s \in Servers, Launch(s) \/ Start(s) \/ Crash(s) \/ Signal(s) \/ Exit(s)
      PROVE  rivals \subseteq rivals'
  BY <1>1 DEF Launch, Start, Crash, Signal, Exit, HasTable, CreateTable, MigrateFloatAmounts,
              CountSeed, CreateSeed, FindAdmin, CreateAdmin
<1>2. ASSUME NEW a \in Actors, Ensures(a) PROVE rivals \subseteq rivals'
  BY <1>2 DEF Ensures, CountDefault, CreateDefault, EnsureReturns
<1>3. ASSUME NEW m \in Migrators, RunMigrator(m) \/ Migration(m) \/ KillMigrator(m)
      PROVE  rivals \subseteq rivals'
  BY <1>3 DEF RunMigrator, Migration, KillMigrator, Rest
<1> QED BY <1>1, <1>2, <1>3 DEF Next, vars, Login, DeleteDefault, MoveBalance

\* Twins need rivals: the rule that makes it last.
LEMMA OneCreatesStep ==
  OneCreates /\ CountShape /\ SrvShape /\ EnsShape /\ Progress /\ [Next]_vars => OneCreates'
<1> SUFFICES ASSUME OneCreates, CountShape, SrvShape, EnsShape, Progress, [Next]_vars,
                    NEW n \in Names, n \notin rivals'
             PROVE  /\ \A a, b \in Pending(n)' : a = b
                    /\ Pending(n)' # {} => count'[n] = 0
                    /\ count'[n] <= 1
  BY DEF OneCreates
<1>1. n \notin rivals  BY RivalsStay
<1>2. /\ \A a, b \in Pending(n) : a = b
      /\ Pending(n) # {} => count[n] = 0
      /\ count[n] <= 1 /\ count[n] \in Nat /\ count'[n] \in Nat
  BY <1>1, CountShapeStep DEF OneCreates, CountShape
<1>3. RowMoves(n)  BY RowsStep
<1> DEFINE P == Pending(n)
           Q == Pending(n)'
<1> HIDE DEF P, Q
<1>4. CASE RowsStay(n)
  <2>1. Q \subseteq P /\ count'[n] <= count[n]  BY <1>4 DEF RowsStay, P, Q
  <2> QED BY <1>2, <2>1 DEF P, Q
<1>5. CASE RowAdded(n)
  <2>1. \E a \in P : Q \subseteq P \ {a}  BY <1>5 DEF RowAdded, P, Q
  <2>2. Q = {} /\ P # {} /\ count'[n] = count[n] + 1  BY <1>2, <1>5, <2>1 DEF RowAdded, P
  <2> QED BY <1>2, <2>2 DEF P, Q
<1>6. CASE FoundNone(n)
  <2>1. /\ P = {} /\ count'[n] = 0
        /\ \E a \in Actors : Q \subseteq P \cup {a}
    BY <1>6 DEF FoundNone, P, Q
  <2> QED BY <2>1 DEF P, Q
<1> QED BY <1>3, <1>4, <1>5, <1>6 DEF RowMoves

\* No name has more rows than there are actors to create one each.
LEMMA FewCreateStep ==
  FewCreate /\ CountShape /\ SrvShape /\ EnsShape /\ Progress /\ [Next]_vars => FewCreate'
<1> SUFFICES ASSUME FewCreate, CountShape, SrvShape, EnsShape, Progress, [Next]_vars,
                    NEW n \in Names
             PROVE  count'[n] + Cardinality(Pending(n)') <= Cardinality(Actors)
  BY DEF FewCreate
<1> DEFINE P == Pending(n)
           Q == Pending(n)'
<1>1. IsFiniteSet(Actors)  BY StartupAssumption, FS_Union DEF Actors
<1>2. P \subseteq Actors /\ Q \subseteq Actors  BY DEF Pending
<1>3. /\ count[n] \in Nat /\ count'[n] \in Nat /\ count[n] + Cardinality(P) <= Cardinality(Actors)
  BY CountShapeStep DEF CountShape, FewCreate
<1>4. RowMoves(n)  BY RowsStep
<1>5. /\ RowsStay(n) => Q \subseteq P /\ count'[n] <= count[n]
      /\ RowAdded(n) => count'[n] = count[n] + 1 /\ \E a \in P : Q \subseteq P \ {a}
      /\ FoundNone(n) => count'[n] = 0
  BY DEF RowsStay, RowAdded, FoundNone
<1> HIDE DEF P, Q
<1>6. /\ IsFiniteSet(P) /\ IsFiniteSet(Q)
      /\ Cardinality(P) \in Nat /\ Cardinality(Q) \in Nat /\ Cardinality(Actors) \in Nat
      /\ Cardinality(Q) <= Cardinality(Actors)
  BY <1>1, <1>2, FS_Subset, FS_CardinalityType
<1>7. CASE RowsStay(n)
  <2>1. Cardinality(Q) <= Cardinality(P)  BY <1>5, <1>6, <1>7, FS_Subset
  <2> QED BY <1>3, <1>5, <1>6, <1>7, <2>1 DEF P, Q
<1>8. CASE RowAdded(n)
  <2>1. PICK a \in P : Q \subseteq P \ {a}  BY <1>5, <1>8
  <2>2. IsFiniteSet(P \ {a}) /\ Cardinality(P \ {a}) = Cardinality(P) - 1
    BY <1>6, <2>1, FS_RemoveElement
  <2>3. Cardinality(Q) <= Cardinality(P \ {a})  BY <2>1, <2>2, FS_Subset
  <2> QED BY <1>3, <1>5, <1>6, <1>8, <2>2, <2>3 DEF P, Q
<1>9. CASE FoundNone(n)  BY <1>3, <1>5, <1>6, <1>9 DEF P, Q
<1> QED BY <1>4, <1>7, <1>8, <1>9 DEF RowMoves

-----------------------------------------------------------------------------
(* Who starts alone.                                                       *)

\* What the invariant says of processes that started alone.
AloneSrv(s) ==
  /\ srv[s].pc = "create" => Tables[srv[s].k] \notin objects
  /\ srv[s].pc = "adding" => admin = "none"
  /\ srv[s].pc # "failed"
AloneMig(m) ==
  /\ mig[m].pc \notin {"wait", "failed"}
  /\ mig[m].pc = "exec" => mig[m].file \notin recorded
AloneBusy == \A p \in Busy \ beside : Busy = {p}

AloneInv ==
  /\ AloneBusy
  /\ \A s \in Servers \ beside : AloneSrv(s)
  /\ \A m \in Migrators \ beside : AloneMig(m)

\* The invariant, process by process.
LEMMA AloneParts == AloneInv <=> Alone /\ FailsOnlyBesideAnother
<1>1. AloneInv => Alone /\ FailsOnlyBesideAnother
  BY Zenon DEF AloneInv, AloneBusy, AloneSrv, AloneMig, Alone, FailsOnlyBesideAnother
<1>2. ASSUME Alone, FailsOnlyBesideAnother PROVE AloneInv
  <2>1. ASSUME NEW s \in Servers \ beside PROVE AloneSrv(s)
    BY <1>2, <2>1 DEF Alone, FailsOnlyBesideAnother, AloneSrv
  <2>2. ASSUME NEW m \in Migrators \ beside PROVE AloneMig(m)
    BY <1>2, <2>2 DEF Alone, FailsOnlyBesideAnother, AloneMig
  <2> QED BY <1>2, <2>1, <2>2 DEF Alone, AloneInv, AloneBusy
<1> QED BY <1>1, <1>2

\* What the invariant takes from the state.
aloneVars == <<srv, mig, objects, recorded, admin, beside>>

\* Busy, said of one process.
LEMMA BusyIs ==
  /\ \A s \in Servers : s \in Busy <=> Starting(s)
  /\ \A m \in Migrators : m \in Busy <=> Migrating(m)
  /\ \A s \in Servers : s \in Busy' <=> Starting(s)'
  /\ \A m \in Migrators : m \in Busy' <=> Migrating(m)'
  /\ Busy \subseteq Servers \cup Migrators
  /\ Busy' \subseteq Servers \cup Migrators
BY StartupAssumption DEF Busy

\* One process moves without starting up.
LEMMA SoloStep ==
  ASSUME AloneInv, beside' = beside, NEW p,
         \A s \in Servers \ {p} : srv'[s] = srv[s],
         \A m \in Migrators \ {p} : mig'[m] = mig[m],
         p \in Servers => (Starting(p)' => Starting(p)) /\ (p \notin beside => AloneSrv(p)'),
         p \in Migrators => (Migrating(p)' => Migrating(p)) /\ (p \notin beside => AloneMig(p)'),
         p \in Busy \/ UNCHANGED <<objects, recorded, admin>>
  PROVE  AloneInv'
<1>1. Busy' \subseteq Busy
  <2>1. ASSUME NEW s \in Servers, Starting(s)' PROVE Starting(s)
    BY <2>1 DEF Starting
  <2>2. ASSUME NEW m \in Migrators, Migrating(m)' PROVE Migrating(m)
    BY <2>2 DEF Migrating
  <2> QED BY <2>1, <2>2, BusyIs
<1>2. AloneBusy'  BY <1>1 DEF AloneInv, AloneBusy
<1>3. ASSUME NEW q, q # p, q \in Busy \ beside
      PROVE  UNCHANGED <<objects, recorded, admin>>
  <2>1. Busy = {q}  BY <1>3 DEF AloneInv, AloneBusy
  <2> QED BY <1>3, <2>1
<1>4. ASSUME NEW s \in Servers \ beside PROVE AloneSrv(s)'
  <2>1. CASE s = p  BY <2>1
  <2>2. CASE s # p
    <3>1. srv'[s] = srv[s] /\ AloneSrv(s)  BY <2>2 DEF AloneInv
    <3>2. srv[s].pc \in {"create", "adding"} => UNCHANGED <<objects, admin>>
      BY <1>3, <2>2, BusyIs DEF Starting
    <3> QED BY <3>1, <3>2 DEF AloneSrv
  <2> QED BY <2>1, <2>2
<1>5. ASSUME NEW m \in Migrators \ beside PROVE AloneMig(m)'
  <2>1. CASE m = p  BY <2>1
  <2>2. CASE m # p
    <3>1. mig'[m] = mig[m] /\ AloneMig(m)  BY <2>2 DEF AloneInv
    <3>2. mig[m].pc = "exec" => UNCHANGED recorded
      BY <1>3, <2>2, BusyIs DEF Migrating
    <3> QED BY <3>1, <3>2 DEF AloneMig
  <2> QED BY <2>1, <2>2
<1> QED BY <1>2, <1>4, <1>5 DEF AloneInv

\* One process starts up.
LEMMA JoinStep ==
  ASSUME AloneInv, NEW p, Joins(p), UNCHANGED <<objects, recorded, admin>>,
         \A s \in Servers \ {p} : srv'[s] = srv[s],
         \A m \in Migrators \ {p} : mig'[m] = mig[m],
         p \in Servers => AloneSrv(p)',
         p \in Migrators => AloneMig(p)'
  PROVE  AloneInv'
<1>1. Busy' \subseteq Busy \cup {p}
  <2>1. ASSUME NEW s \in Servers, s # p, Starting(s)' PROVE Starting(s)
    BY <2>1 DEF Starting
  <2>2. ASSUME NEW m \in Migrators, m # p, Migrating(m)' PROVE Migrating(m)
    BY <2>2 DEF Migrating
  <2> QED BY <2>1, <2>2, BusyIs
<1>2. AloneBusy'  BY <1>1 DEF AloneBusy, Joins
<1>3. \A q : q \notin beside' /\ q # p => q \notin beside  BY DEF Joins
<1>4. ASSUME NEW s \in Servers, s \notin beside' PROVE AloneSrv(s)'
  <2>1. CASE s = p  BY <2>1
  <2>2. CASE s # p  BY <1>3, <1>4, <2>2 DEF AloneInv, AloneSrv
  <2> QED BY <2>1, <2>2
<1>5. ASSUME NEW m \in Migrators, m \notin beside' PROVE AloneMig(m)'
  <2>1. CASE m = p  BY <2>1
  <2>2. CASE m # p  BY <1>3, <1>5, <2>2 DEF AloneInv, AloneMig
  <2> QED BY <2>1, <2>2
<1> QED BY <1>2, <1>4, <1>5 DEF AloneInv

\* A command moves to pc and file.
MigMoved(m, pc, file) ==
  /\ mig'[m].pc = pc /\ mig'[m].file = file
  /\ \A n \in Migrators \ {m} : mig'[n] = mig[n]

\* Where each step of a command leads, unless two create schema_migrations.
LEMMA MigLeads ==
  ASSUME MigInv, NEW m \in Migrators
  PROVE  /\ StartMigrator(m) => MigMoved(m, "ensure", 1)
         /\ StopMigrator(m) => MigMoved(m, "idle", 1)
         /\ FailMigration(m) => MigMoved(m, "failed", 1)
         /\ EnsureSchemaMigrations(m) => MigMoved(m, "check", mig[m].file)
         /\ CheckApplied(m) =>
              \/ MigMoved(m, "done", mig[m].file) \/ MigMoved(m, "check", mig[m].file + 1)
              \/ MigMoved(m, "exec", mig[m].file) /\ mig[m].file \notin recorded
         /\ SkipExisting(m) => MigMoved(m, "exec", mig[m].file)
         /\ Create(m) => MigMoved(m, "exec", mig[m].file)
         /\ Exec(m) => \/ MigMoved(m, "wait", mig[m].file) /\ HeldByOther(m, Target(m))
                       \/ MigMoved(m, "exec", mig[m].file) /\ UNCHANGED recorded
         /\ Record(m) => FailMigration(m) \/ MigMoved(m, "check", mig[m].file + 1)
<1>0. mig \in [Migrators -> MigRec] /\ mig[m] \in MigRec  BY DEF MigInv, MigShape
<1>1. StartMigrator(m) => MigMoved(m, "ensure", 1)
  BY <1>0 DEF MigMoved, StartMigrator, Idle
<1>2. StopMigrator(m) => MigMoved(m, "idle", 1)
  BY <1>0 DEF MigMoved, StopMigrator, Idle
<1>3. FailMigration(m) => MigMoved(m, "failed", 1)
  BY <1>0 DEF MigMoved, FailMigration, Idle
<1>4. EnsureSchemaMigrations(m) => MigMoved(m, "check", mig[m].file)
  BY <1>0 DEF MigMoved, EnsureSchemaMigrations, MigRec
<1>5. CheckApplied(m) =>
              \/ MigMoved(m, "done", mig[m].file) \/ MigMoved(m, "check", mig[m].file + 1)
              \/ MigMoved(m, "exec", mig[m].file) /\ mig[m].file \notin recorded
  BY <1>0 DEF MigMoved, CheckApplied, MigRec
<1>6. SkipExisting(m) => MigMoved(m, "exec", mig[m].file)
  BY <1>0 DEF MigMoved, SkipExisting, MigRec
<1>7. Create(m) => MigMoved(m, "exec", mig[m].file)
  BY <1>0 DEF MigMoved, Create, MigRec
<1>8. Exec(m) => \/ MigMoved(m, "wait", mig[m].file) /\ HeldByOther(m, Target(m))
                 \/ MigMoved(m, "exec", mig[m].file) /\ UNCHANGED recorded
  <2>1. ASSUME Exec(m), HeldByOther(m, Target(m)) PROVE MigMoved(m, "wait", mig[m].file)
    BY <1>0, <2>1 DEF MigMoved, Exec, MigRec
  <2>2. ASSUME Exec(m), ~HeldByOther(m, Target(m)) PROVE Create(m) /\ UNCHANGED recorded
    BY <2>2 DEF Exec, Create
  <2> QED BY <1>7, <2>1, <2>2
<1>9. Record(m) => FailMigration(m) \/ MigMoved(m, "check", mig[m].file + 1)
  <2>1. ASSUME Record(m), mig[m].file \notin recorded PROVE MigMoved(m, "check", mig[m].file + 1)
    BY <1>0, <2>1 DEF MigMoved, Record, Idle
  <2> QED BY <2>1 DEF Record
<1> QED BY <1>1, <1>2, <1>3, <1>4, <1>5, <1>6, <1>7, <1>8, <1>9

\* A step of the migration command.
LEMMA MigrationAlone ==
  ASSUME AloneInv, MigInv, NEW m \in Migrators, Migration(m)
  PROVE  AloneInv'
<1>0. /\ srv' = srv /\ admin' = admin /\ beside' = beside /\ m \notin Servers
      /\ MigrateStep(m)
  BY StartupAssumption DEF Migration, Rest
<1>1. m \in Busy
  BY <1>0, BusyIs DEF Migrating, MigrateStep, EnsureSchemaMigrations, EnsureCollides,
     CheckApplied, SkipExisting, Exec, Resume, Record
<1>2. m \notin beside => Busy = {m} /\ AloneMig(m)
  BY <1>1 DEF AloneInv, AloneBusy
<1>3. ASSUME NEW pc, NEW file, MigMoved(m, pc, file),
             m \notin beside => /\ pc \notin {"wait", "failed"}
                                /\ pc = "exec" => file \notin recorded'
      PROVE  AloneInv'
  <2>1. m \notin beside => AloneMig(m)'  BY <1>3 DEF MigMoved, AloneMig
  <2>2. \A n \in Migrators \ {m} : mig'[n] = mig[n]  BY <1>3 DEF MigMoved
  <2>3. Migrating(m)  BY <1>1, BusyIs
  <2> QED BY <1>0, <1>1, <2>1, <2>2, <2>3, SoloStep
<1>4. CASE EnsureCollides(m)
  <2>1. PICK n \in Migrators \ {m} : mig[n].pc = "ensure"
          /\ mig' = [mig EXCEPT ![m].pc = "failed", ![n].pc = "check"]
    BY <1>4 DEF EnsureCollides
  <2>2. n \in Busy /\ n # m  BY <2>1, BusyIs DEF Migrating
  <2>3. m \in beside /\ n \in beside  BY <1>1, <2>2 DEF AloneInv, AloneBusy
  <2>4. \A l \in Migrators \ {m, n} : mig'[l] = mig[l]
    BY <2>1 DEF MigInv, MigShape
  <2>5. Busy' \subseteq Busy
    <3>1. ASSUME NEW s \in Servers, Starting(s)' PROVE Starting(s)
      BY <1>0, <3>1 DEF Starting
    <3>2. ASSUME NEW l \in Migrators, l \notin {m, n}, Migrating(l)' PROVE Migrating(l)
      BY <2>4, <3>2 DEF Migrating
    <3> QED BY <1>1, <2>2, <3>1, <3>2, BusyIs
  <2>6. AloneBusy'  BY <1>0, <2>5 DEF AloneInv, AloneBusy
  <2>7. ASSUME NEW s \in Servers \ beside PROVE AloneSrv(s)'
    <3>1. s \notin Busy  BY <1>0, <1>1, <2>2 DEF AloneInv, AloneBusy
    <3>2. srv[s].pc \notin {"create", "adding"}  BY <3>1, BusyIs DEF Starting
    <3> QED BY <1>0, <3>2 DEF AloneInv, AloneSrv
  <2>8. ASSUME NEW l \in Migrators \ beside PROVE AloneMig(l)'
    <3>1. l \notin {m, n}  BY <2>3
    <3>2. mig'[l] = mig[l] /\ recorded' = recorded  BY <1>4, <2>4, <3>1 DEF EnsureCollides
    <3> QED BY <3>2 DEF AloneInv, AloneMig
  <2> QED BY <1>0, <2>6, <2>7, <2>8 DEF AloneInv
<1>5. CASE EnsureSchemaMigrations(m)  BY <1>3, <1>5, MigLeads
<1>6. CASE CheckApplied(m)
  <2>1. recorded' = recorded  BY <1>6 DEF CheckApplied
  <2> QED BY <1>3, <1>6, <2>1, MigLeads
<1>7. CASE SkipExisting(m)
  <2>1. recorded' = recorded /\ mig[m].pc = "exec"  BY <1>7 DEF SkipExisting
  <2> QED BY <1>2, <1>3, <1>7, <2>1, MigLeads DEF AloneMig
<1>8. CASE Exec(m)
  <2>1. mig[m].pc = "exec"  BY <1>8 DEF Exec
  <2>2. CASE MigMoved(m, "wait", mig[m].file) /\ HeldByOther(m, Target(m))
    <3>1. PICK n \in Migrators \ {m} : mig[n].own # {}  BY <2>2 DEF HeldByOther
    <3>2. n \in Busy /\ n # m  BY <3>1, MigFields, BusyIs DEF Migrating
    <3> QED BY <1>2, <1>3, <2>2, <3>2
  <2>3. CASE MigMoved(m, "exec", mig[m].file) /\ UNCHANGED recorded
    BY <1>2, <1>3, <2>1, <2>3 DEF AloneMig
  <2> QED BY <1>8, <2>2, <2>3, MigLeads
<1>9. CASE Resume(m)
  <2>1. m \in beside  BY <1>2, <1>9 DEF Resume, AloneMig
  <2> QED BY <1>3, <1>9, <2>1, MigLeads DEF Resume
<1>10. CASE Record(m)
  <2>1. CASE FailMigration(m)
    <3>1. mig'[m].pc = "failed"  BY <2>1, MigLeads DEF MigMoved
    <3>2. mig[m].file \in recorded
      <4>1. ASSUME mig[m].file \notin recorded PROVE mig'[m].pc = "check"
        BY <1>10, <4>1, MigFields DEF Record, Idle
      <4> QED BY <3>1, <4>1
    <3>3. m \in beside  BY <1>2, <1>10, <3>2 DEF Record, AloneMig
    <3> QED BY <1>3, <2>1, <3>3, MigLeads
  <2>2. CASE MigMoved(m, "check", mig[m].file + 1)  BY <1>3, <2>2
  <2> QED BY <1>10, <2>1, <2>2, MigLeads
<1> QED BY <1>0, <1>4, <1>5, <1>6, <1>7, <1>8, <1>9, <1>10 DEF MigrateStep

\* A server's step that goes on with its start, or ends it.
LEMMA ServerAlone ==
  ASSUME AloneInv, NEW s \in Servers, NEW pc, NEW k, Moved(s, pc, k),
         UNCHANGED <<mig, recorded, beside>>, s \in Busy,
         s \notin beside => /\ pc = "create" => Tables[k] \notin objects'
                            /\ pc = "adding" => admin' = "none"
                            /\ pc # "failed"
  PROVE  AloneInv'
<1>1. s \notin beside => AloneSrv(s)'  BY DEF Moved, AloneSrv
<1>2. s \notin Migrators /\ Starting(s)  BY StartupAssumption, BusyIs
<1>3. \A q \in Servers \ {s} : srv'[q] = srv[q]  BY DEF Moved
<1> QED BY <1>1, <1>2, <1>3, SoloStep

\* A server that serves, drains or goes.
LEMMA ServerRests ==
  ASSUME AloneInv, NEW s \in Servers, NEW pc, NEW k, Moved(s, pc, k),
         UNCHANGED <<mig, objects, recorded, admin, beside>>,
         pc \in {"down", "serving", "draining"}
  PROVE  AloneInv'
<1>1. AloneSrv(s)' /\ ~Starting(s)'  BY DEF Moved, AloneSrv, Starting
<1>2. s \notin Migrators  BY StartupAssumption
<1>3. \A q \in Servers \ {s} : srv'[q] = srv[q]  BY DEF Moved
<1> QED BY <1>1, <1>2, <1>3, SoloStep

\* Whatever happens, a process that starts alone finds what it counts on.
LEMMA AloneStep ==
  AloneInv /\ MigInv /\ SrvShape /\ [Next]_vars => AloneInv'
<1> SUFFICES ASSUME AloneInv, MigInv, SrvShape, [Next]_vars PROVE AloneInv'  OBVIOUS
<1>1. ASSUME UNCHANGED aloneVars PROVE AloneInv'
  <2>1. Busy' = Busy  BY <1>1 DEF aloneVars, Busy, Starting, Migrating
  <2> QED BY <1>1, <2>1 DEF aloneVars, AloneInv, AloneBusy, AloneSrv, AloneMig
<1>2. CASE UNCHANGED vars  BY <1>1, <1>2 DEF vars, aloneVars
<1>3. ASSUME NEW m \in Migrators, RunMigrator(m) PROVE AloneInv'
  <2>1. /\ srv' = srv /\ Joins(m) /\ UNCHANGED <<objects, recorded, admin>> /\ m \notin Servers
        /\ MigMoved(m, "ensure", 1)
    BY <1>3, MigLeads, StartupAssumption DEF RunMigrator, StartMigrator, Rest
  <2>2. AloneMig(m)' /\ \A n \in Migrators \ {m} : mig'[n] = mig[n]
    BY <2>1 DEF MigMoved, AloneMig
  <2> QED BY <2>1, <2>2, JoinStep
<1>4. ASSUME NEW m \in Migrators, KillMigrator(m) PROVE AloneInv'
  <2>1. /\ srv' = srv /\ UNCHANGED <<objects, recorded, admin, beside>> /\ m \notin Servers
        /\ MigMoved(m, "idle", 1)
    BY <1>4, MigLeads, StartupAssumption DEF KillMigrator, StopMigrator, Rest
  <2>2. AloneMig(m)' /\ ~Migrating(m)' /\ \A n \in Migrators \ {m} : mig'[n] = mig[n]
    BY <2>1 DEF MigMoved, AloneMig, Migrating
  <2> QED BY <2>1, <2>2, SoloStep
<1>5. ASSUME NEW s \in Servers, Launch(s) PROVE AloneInv'
  <2>1. /\ mig' = mig /\ Joins(s) /\ UNCHANGED <<objects, recorded, admin>> /\ s \notin Migrators
        /\ Moved(s, "tables", 1)
    BY <1>5, LaunchLeads, StartupAssumption DEF Launch, migrateVars
  <2>2. AloneSrv(s)' /\ \A q \in Servers \ {s} : srv'[q] = srv[q]
    BY <2>1 DEF Moved, AloneSrv
  <2> QED BY <2>1, <2>2, JoinStep
<1>6. ASSUME NEW s \in Servers, Start(s)
      PROVE  /\ s \in Busy /\ UNCHANGED <<mig, recorded, beside>>
             /\ s \notin beside => AloneSrv(s)
  <2>1. Starting(s) /\ UNCHANGED <<mig, recorded, beside>>
    BY <1>6 DEF Start, Starting, HasTable, CreateTable, MigrateFloatAmounts, CountSeed,
       CreateSeed, FindAdmin, CreateAdmin, migrateVars
  <2> QED BY <2>1, BusyIs DEF AloneInv
<1>7. ASSUME NEW s \in Servers, HasTable(s) PROVE AloneInv'
  <2>1. objects' = objects  BY <1>7 DEF HasTable, migrateVars
  <2> QED BY <1>6, <1>7, <2>1, HasTableLeads, ServerAlone DEF Start
<1>8. ASSUME NEW s \in Servers, CreateTable(s) PROVE AloneInv'
  <2>1. s \notin beside => Tables[srv[s].k] \notin objects
    BY <1>6, <1>8 DEF Start, AloneSrv, CreateTable
  <2> QED BY <1>6, <1>8, <2>1, CreateTableLeads, ServerAlone DEF Start
<1>9. ASSUME NEW s \in Servers, MigrateFloatAmounts(s) PROVE AloneInv'
  BY <1>6, <1>9, RefillLeads, ServerAlone DEF Start
<1>10. ASSUME NEW s \in Servers, CountSeed(s) PROVE AloneInv'
  BY <1>6, <1>10, CountSeedLeads, ServerAlone DEF Start
<1>11. ASSUME NEW s \in Servers, CreateSeed(s) PROVE AloneInv'
  BY <1>6, <1>11, CreateSeedLeads, ServerAlone DEF Start
<1>12. ASSUME NEW s \in Servers, FindAdmin(s) PROVE AloneInv'
  BY <1>6, <1>12, FindAdminLeads, ServerAlone DEF Start
<1>13. ASSUME NEW s \in Servers, CreateAdmin(s) PROVE AloneInv'
  <2>1. s \notin beside => admin = "none"  BY <1>6, <1>13 DEF Start, AloneSrv, CreateAdmin
  <2> QED BY <1>6, <1>13, <2>1, CreateAdminLeads, ServerAlone DEF Start
<1>14. ASSUME NEW s \in Servers, Crash(s) \/ Exit(s) PROVE AloneInv'
  BY <1>14, GoesLeads, ServerRests DEF Crash, Exit, migrateVars
<1>15. ASSUME NEW s \in Servers, Signal(s) PROVE AloneInv'
  BY <1>15, SignalLeads, ServerRests DEF Signal, migrateVars
<1>16. ASSUME NEW a \in Actors, Ensures(a) PROVE AloneInv'
  <2>1. CASE CountDefault(a) \/ CreateDefault(a)
    BY <1>1, <2>1 DEF CountDefault, CreateDefault, aloneVars, migrateVars
  <2>2. CASE EnsureReturns(a) /\ a \in Servers
    BY <2>2, ServeLeads, ServerRests DEF EnsureReturns, migrateVars
  <2>3. CASE EnsureReturns(a) /\ a \notin Servers
    BY <1>1, <2>3 DEF EnsureReturns, aloneVars, migrateVars
  <2> QED BY <1>16, <2>1, <2>2, <2>3 DEF Ensures
<1>17. ASSUME NEW l \in Logins, NEW s \in Servers, Login(l, s) PROVE AloneInv'
  BY <1>1, <1>17 DEF Login, aloneVars, migrateVars
<1>18. ASSUME NEW i \in 1..Len(Defaults), DeleteDefault(Defaults[i]) PROVE AloneInv'
  BY <1>1, <1>18 DEF DeleteDefault, aloneVars, migrateVars
<1>19. ASSUME NEW b \in 0..MaxBalance, MoveBalance(b) PROVE AloneInv'
  BY <1>1, <1>19 DEF MoveBalance, aloneVars, migrateVars
<1> QED BY <1>2, <1>3, <1>4, <1>5, <1>7, <1>8, <1>9, <1>10, <1>11, <1>12, <1>13, <1>14, <1>15,
           <1>16, <1>17, <1>18, <1>19, MigrationAlone DEF Next, Start

-----------------------------------------------------------------------------
(* The theorems.                                                           *)

\* Nothing has been created and nobody runs.
LEMMA StartInvInit == Init => StartInv
<1> SUFFICES ASSUME Init PROVE StartInv  OBVIOUS
<1>1. MigInv
  <2>1. Idle \in MigRec /\ Idle.pc = "idle" /\ Idle.own = {}
    BY MigrateAssumption DEF Idle, MigRec, MigratorStates
  <2>2. mig \in [Migrators -> MigRec] /\ \A m \in Migrators : mig[m] = Idle
    BY <2>1, Zenon DEF Init, MigrateInit
  <2>3. MigShape  BY <2>1, <2>2 DEF Init, MigrateInit, MigShape
  <2>4. FileSoFar  BY <2>1, <2>2 DEF FileSoFar
  <2>5. RecordedIsComplete  BY DEF Init, MigrateInit, RecordedIsComplete
  <2> QED BY <2>3, <2>4, <2>5 DEF MigInv
<1>2. /\ srv \in [Servers -> SrvRec]
      /\ \A s \in Servers : srv[s].pc = "down" /\ srv[s].k = 1
  <2>1. Down \in SrvRec /\ Down.pc = "down" /\ Down.k = 1  BY DEF Down, SrvRec, ServerStates
  <2> QED BY <2>1, Zenon DEF Init
<1>3. /\ ensure \in [Actors -> EnsRec]
      /\ \A a \in Actors : ensure[a].k = 0 /\ ensure[a].missing = FALSE
  <2>1. NoCall \in EnsRec /\ NoCall.k = 0 /\ NoCall.missing = FALSE
    BY StartupAssumption DEF NoCall, EnsRec
  <2> QED BY <2>1, Zenon DEF Init
<1>4. SrvShape  BY <1>2 DEF SrvShape
<1>5. EnsShape  BY <1>3 DEF EnsShape, Init
<1>6. CountShape  BY DEF CountShape, Init
<1>7. ProcShape  BY MigrateAssumption DEF ProcShape, Init
<1>8. Book
  <2>1. Legacy * 0 = 0 /\ MaxBalance + Legacy \in Nat /\ MaxBalance + Legacy >= 0
    BY StartupAssumption
  <2> QED BY <2>1 DEF Book, LegacyCountedOncePerEmptying, Init
<1>9. Progress
  <2>1. ASSUME NEW s \in Servers PROVE ProgressOf(s)
    <3>1. srv[s].pc = "down" /\ ~(ensure[s].k > 0)  BY <1>2, <1>3 DEF Actors
    <3> QED BY <3>1 DEF ProgressOf, Up
  <2>2. ASSUME NEW a \in Actors PROVE Ensured(ensure[a].k)
    <3>1. ensure[a].k = 0  BY <1>3
    <3>2. \A i \in 1..Len(Defaults) : ~(i < 0)  OBVIOUS
    <3> QED BY <3>1, <3>2 DEF Ensured
  <2> QED BY <2>1, <2>2, ProgressParts
<1>10. ASSUME NEW n \in Names PROVE Pending(n) = {} /\ count[n] = 0
  <2>1. \A a \in Actors : ~Creating(a, n)  BY <1>2, <1>3 DEF Creating
  <2> QED BY <2>1 DEF Pending, Init
<1>11. OneCreates  BY <1>10 DEF OneCreates
<1>12. FewCreate
  <2>1. IsFiniteSet(Actors)  BY StartupAssumption, FS_Union DEF Actors
  <2>2. Cardinality(Actors) \in Nat /\ Cardinality({}) = 0
    BY <2>1, FS_CardinalityType, FS_EmptySet
  <2> QED BY <1>10, <2>2 DEF FewCreate
<1>13. AloneInv
  <2>1. \A m \in Migrators : mig[m].pc = "idle"  BY DEF Init, MigrateInit, Idle
  <2>2. Busy = {}  BY <1>2, <2>1 DEF Busy, Starting, Migrating
  <2> QED BY <1>2, <2>1, <2>2 DEF AloneInv, AloneBusy, AloneSrv, AloneMig
<1> QED BY <1>1, <1>4, <1>5, <1>6, <1>7, <1>8, <1>9, <1>11, <1>12, <1>13, AloneParts
        DEF StartInv, Shape, MigInv

\* Every step keeps the whole invariant.
LEMMA StartInvStep == StartInv /\ [Next]_vars => StartInv'
<1> SUFFICES ASSUME StartInv, [Next]_vars PROVE StartInv'  OBVIOUS
<1>0. /\ MigInv /\ SrvShape /\ EnsShape /\ CountShape /\ ProcShape
      /\ Book /\ Progress /\ OneCreates /\ FewCreate /\ AloneInv
  BY AloneParts DEF StartInv, Shape
<1>1. MigInv'  BY <1>0, MigInvStep
<1>2. SrvShape' /\ EnsShape' /\ CountShape' /\ ProcShape'
  BY <1>0, SrvShapeStep, EnsShapeStep, CountShapeStep, ProcShapeStep
<1>3. Book' /\ Progress' /\ OneCreates' /\ FewCreate'
  BY <1>0, BookStep, ProgressStep, OneCreatesStep, FewCreateStep
<1>4. Alone' /\ FailsOnlyBesideAnother'
  <2>1. AloneInv'  BY <1>0, AloneStep
  <2>2. AloneInv' => (Alone /\ FailsOnlyBesideAnother)'  BY AloneParts, PTL
  <2> QED BY <2>1, <2>2
<1> QED BY <1>1, <1>2, <1>3, <1>4 DEF StartInv, Shape, MigInv

\* The inductive invariant: what the tables of this deployment hold, how far
\* each start, call and command has come, and who may create what.
THEOREM StartInvariant == Spec => []StartInv
<1>1. Init => StartInv  BY StartInvInit
<1>2. StartInv /\ [Next]_vars => StartInv'  BY StartInvStep
<1> QED BY <1>1, <1>2, PTL DEF Spec

\* Every variable keeps its type, and no name has more rows than actors.
THEOREM StartupTypeCorrect == Spec => []TypeOK
<1>1. StartInv => TypeOK
  <2> SUFFICES ASSUME StartInv PROVE TypeOK  OBVIOUS
  <2>1. \A m \in Migrators : /\ mig[m].pc \in MigratorStates /\ mig[m].own \subseteq Objects
                             /\ mig[m].file \in 1..(Len(Script) + 1) /\ mig[m].stmt \in Nat
    BY DEF StartInv, Shape, MigShape, MigRec
  <2>2. \A s \in Servers : srv[s].k \in Nat \ {0} /\ srv[s].pc \in ServerStates
    BY DEF StartInv, Shape, SrvShape, SrvRec
  <2>3. \A a \in Actors : ensure[a].k \in 0..(Len(Defaults) + 1) /\ ensure[a].missing \in BOOLEAN
    <3>1. \A a \in Actors : ensure[a] \in EnsRec  BY DEF StartInv, Shape, EnsShape
    <3>2. \A a \in Actors : ensure[a].k \in 0..(Len(Defaults) + 1)  BY <3>1 DEF EnsRec
    <3>3. \A a \in Actors : ensure[a].missing \in BOOLEAN  BY <3>1, Zenon DEF EnsRec
    <3> QED BY <3>2, <3>3, Zenon
  <2>4. count \in [Names -> 0..Cardinality(Actors)]
    <3>1. IsFiniteSet(Actors)  BY StartupAssumption, FS_Union DEF Actors
    <3>2. Cardinality(Actors) \in Nat  BY <3>1, FS_CardinalityType
    <3>3. ASSUME NEW n \in Names PROVE count[n] \in 0..Cardinality(Actors)
      <4>1. count[n] \in Nat /\ count[n] + Cardinality(Pending(n)) <= Cardinality(Actors)
        BY DEF StartInv, Shape, CountShape, FewCreate
      <4>2. Pending(n) \subseteq Actors  BY DEF Pending
      <4>3. Cardinality(Pending(n)) \in Nat  BY <3>1, <4>2, FS_Subset, FS_CardinalityType
      <4> QED BY <3>2, <4>1, <4>3
    <3>4. count \in [Names -> Nat]  BY DEF StartInv, Shape, CountShape
    <3> QED BY <3>3, <3>4
  <2>5. /\ driver \in {"postgres", "mysql"}
        /\ objects \subseteq Objects \cup {Tables[i] : i \in 1..Len(Tables)}
        /\ recorded \subseteq Files
    BY DEF StartInv, Shape, MigShape
  <2>6. crew \in Crews /\ beside \subseteq Servers \cup Migrators /\ stops \in 0..MaxStops
    BY DEF StartInv, Shape, ProcShape
  <2>7. /\ at \in [Logins -> Servers \cup {None}]
        /\ admin \in {"none", "nopassword", "ready"}
        /\ rivals \subseteq Names /\ removed \subseteq Names
    BY DEF StartInv, Shape, EnsShape, CountShape
  <2>8. balance \in 0..(MaxBalance + Legacy) /\ fills \in Nat /\ emptied \in Nat
    BY DEF StartInv, Book
  <2> QED BY <2>1, <2>2, <2>3, <2>4, <2>5, <2>6, <2>7, <2>8, Zenon DEF TypeOK, ServerStates
<1> QED BY <1>1, StartInvariant, PTL

\* What a recorded migration file creates is there, whatever stopped or ran
\* beside it (runMigrations).
THEOREM RecordedIsCompleteHolds == Spec => []RecordedIsComplete
<1>1. StartInv => RecordedIsComplete  BY DEF StartInv, MigInv
<1> QED BY <1>1, StartInvariant, PTL

\* A server that takes requests has its system categories, an administrator
\* who can log in, and the default accounts that nobody deleted.
THEOREM ServingMeansReadyHolds == Spec => []ServingMeansReady
<1>1. StartInv => ServingMeansReady
  <2> SUFFICES ASSUME StartInv, NEW s \in Servers, Up(s)
               PROVE  /\ admin = "ready"
                      /\ \A i \in 1..Len(Seeds) : count[Seeds[i]] > 0
                      /\ \A i \in 1..Len(Defaults) :
                           count[Defaults[i]] > 0 \/ Defaults[i] \in removed
    BY DEF ServingMeansReady
  <2>1. admin = "ready" /\ Seeded(Len(Seeds) + 1) /\ Ensured(Len(Defaults) + 1)
    BY DEF StartInv, Progress, Up
  <2> QED BY <2>1, StartupAssumption DEF Seeded, Ensured
<1> QED BY <1>1, StartInvariant, PTL

\* The old balance enters the new one no oftener than the account was empty
\* (migrateFloatAmountsToCents).
THEOREM LegacyCountedOncePerEmptyingHolds == Spec => []LegacyCountedOncePerEmptying
<1>1. StartInv => LegacyCountedOncePerEmptying  BY DEF StartInv, Book
<1> QED BY <1>1, StartInvariant, PTL

\* A category or a default account exists twice only if two actors looked for
\* it at the same time (seedSystemCategories, EnsureDefaultDataForUser).
THEOREM TwinsNeedRivalsHolds == Spec => []TwinsNeedRivals
<1>1. StartInv => TwinsNeedRivals
  BY DEF StartInv, Shape, CountShape, OneCreates, TwinsNeedRivals
<1> QED BY <1>1, StartInvariant, PTL

\* A process that starts alone gets through, whatever earlier ones left
\* (runMigrations, store.New, EnsureBootstrapAdmin).
THEOREM FailsOnlyBesideAnotherHolds == Spec => []FailsOnlyBesideAnother
<1>1. StartInv => FailsOnlyBesideAnother  BY DEF StartInv
<1> QED BY <1>1, StartInvariant, PTL

=============================================================================
