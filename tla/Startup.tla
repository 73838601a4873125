------------------------------ MODULE Startup ------------------------------
(***************************************************************************)
(* Starting and stopping the server: run and runHTTPServer in              *)
(* cmd/server/main.go, store.New, EnsureDefaultDataForUser and             *)
(* EnsureBootstrapAdmin, beside the migration command.                     *)
(*                                                                         *)
(* Every start creates what is missing, looking first and creating then:   *)
(* the tables, the system categories, the administrator and the default    *)
(* accounts; a login creates missing default accounts too.  No step of it  *)
(* is in a transaction with another.  Several servers share the database,  *)
(* a server may stop anywhere, and its supervisor starts it again.         *)
(***************************************************************************)
EXTENDS Migrate, Integers

CONSTANTS
  Servers,   \* server processes
  Logins,    \* login requests
  Tables,    \* the tables AutoMigrate creates, in order
  Seeds,     \* names of the system categories, in order
  Defaults,  \* names of the default accounts, in order
  Legacy,    \* what the old floating-point column says of the old account
  Crews,     \* which processes a deployment has
  MaxBalance, \* bound: the old account's balance
  MaxEmptied, \* bound: how often it comes to 0
  None

\* The lists in store.go name nothing twice, and rows of two tables.
ASSUME StartupAssumption ==
  /\ Tables \in Seq(STRING) /\ Seeds \in Seq(STRING) /\ Defaults \in Seq(STRING)
  /\ Legacy \in Nat /\ MaxBalance \in Nat \ {0}
  /\ MaxEmptied \in Nat /\ Crews \subseteq SUBSET (Servers \cup Migrators)
  /\ IsFiniteSet(Servers) /\ IsFiniteSet(Logins) /\ Servers \cap Logins = {}
  /\ Servers \cap Migrators = {}
  /\ \A i, j \in 1..Len(Seeds) : Seeds[i] = Seeds[j] => i = j
  /\ \A i, j \in 1..Len(Defaults) : Defaults[i] = Defaults[j] => i = j
  /\ \A i \in 1..Len(Seeds), j \in 1..Len(Defaults) : Seeds[i] # Defaults[j]

VARIABLES
  crew,     \* the processes of this deployment
  srv,      \* per server: where its start is
  ensure,   \* per server and login: its call of EnsureDefaultDataForUser
  at,       \* per login: the server that runs it, or None
  count,    \* rows of each name: system categories and default accounts
  admin,    \* the administrator's row: "none", "nopassword" or "ready"
  balance,  \* balance_cents of an account from before the cents column
  posted,   \* history: what its owner has added to it
  fills,    \* history: how often a start has filled it from the old column
  emptied,  \* history: how often it has come to 0
  rivals,   \* history: names two actors have looked for at the same time
  removed   \* history: default accounts the owner has deleted

ownerVars == <<crew, balance, posted, fills, emptied>>
vars == <<driver, objects, recorded, mig, beside, stops, crew, srv, ensure, at,
          count, admin, balance, posted, fills, emptied, rivals, removed>>

Actors == Servers \cup Logins
Names == {Seeds[i] : i \in 1..Len(Seeds)} \cup {Defaults[i] : i \in 1..Len(Defaults)}
NoCall == [k |-> 0, missing |-> FALSE]
Down == [pc |-> "down", k |-> 1]

Starting(s) == srv[s].pc \notin {"down", "serving", "draining", "failed"}
Busy == {p \in Servers : Starting(p)} \cup {p \in Migrators : Migrating(p)}

Init ==
  /\ MigrateInit
  /\ beside = {} /\ stops = 0 /\ crew \in Crews
  /\ srv = [s \in Servers |-> Down]
  /\ ensure = [a \in Actors |-> NoCall]
  /\ at = [l \in Logins |-> None]
  /\ count = [n \in Names |-> 0]
  /\ admin \in {"none", "nopassword"}
  /\ balance = 0 /\ posted = 0 /\ fills = 0 /\ emptied = 1
  /\ rivals = {} /\ removed = {}

\* Process p starts: whoever is starting up is not alone any more.
Joins(p) == beside' = IF Busy = {} THEN beside \ {p} ELSE beside \cup Busy \cup {p}

Launch(s) ==
  /\ s \in crew /\ srv[s].pc \in {"down", "failed"}
  /\ srv' = [srv EXCEPT ![s] = [pc |-> "tables", k |-> 1]]
  /\ Joins(s)
  /\ UNCHANGED <<migrateVars, stops, ensure, at, count, admin, ownerVars, rivals, removed>>

FailStart(s) == srv' = [srv EXCEPT ![s] = [pc |-> "failed", k |-> 1]]

(***************************************************************************)
(* store.New                                                               *)
(***************************************************************************)

\* AutoMigrate: HasTable, table by table.
HasTable(s) ==
  /\ srv[s].pc = "tables"
  /\ srv' = [srv EXCEPT ![s] =
       IF srv[s].k > Len(Tables) THEN [pc |-> "refill", k |-> 1]
       ELSE IF Tables[srv[s].k] \in objects THEN [@ EXCEPT !.k = srv[s].k + 1]
       ELSE [@ EXCEPT !.pc = "create"]]
  /\ UNCHANGED <<migrateVars, beside, stops, ensure, at, count, admin, ownerVars, rivals, removed>>

\* CreateTable, which waits for a transaction that is creating the table and
\* fails if the table is there by now.
CreateTable(s) ==
  LET t == Tables[srv[s].k] IN
  /\ srv[s].pc = "create"
  /\ \A m \in Migrators : t \notin mig[m].own
  /\ IF t \in objects THEN FailStart(s) /\ UNCHANGED objects
     ELSE /\ objects' = objects \cup {t}
          /\ srv' = [srv EXCEPT ![s] = [pc |-> "tables", k |-> srv[s].k + 1]]
  /\ UNCHANGED <<driver, recorded, mig, beside, stops, ensure, at, count, admin, ownerVars,
                 rivals, removed>>

\* Mistake: every start converts.
MigrateAlways(s) ==
  /\ srv[s].pc = "refill"
  /\ balance' = Legacy /\ fills' = fills + 1
  /\ srv' = [srv EXCEPT ![s] = [pc |-> "seed", k |-> 1]]
  /\ UNCHANGED <<migrateVars, beside, stops, ensure, at, count, admin, crew, posted,
                 emptied, rivals, removed>>

\* migrateFloatAmountsToCents: a balance of 0 is taken for one that was never
\* converted.
MigrateFloatAmounts(s) ==
  /\ srv[s].pc = "refill"
  /\ IF balance = 0 /\ Legacy # 0
     THEN balance' = Legacy /\ fills' = fills + 1
     ELSE UNCHANGED <<balance, fills>>
  /\ srv' = [srv EXCEPT ![s] = [pc |-> "seed", k |-> 1]]
  /\ UNCHANGED <<migrateVars, beside, stops, ensure, at, count, admin, crew, posted,
                 emptied, rivals, removed>>

\* Mistake: the count looks for the user's categories.
CountSeedOfUser(s) ==
  /\ srv[s].pc = "seed"
  /\ srv' = [srv EXCEPT ![s].pc = IF srv[s].k > Len(Seeds) THEN "admin" ELSE "seeding"]
  /\ UNCHANGED <<migrateVars, beside, stops, ensure, at, count, admin, ownerVars, rivals, removed>>

\* seedSystemCategories: Count.
CountSeed(s) ==
  LET k == srv[s].k IN
  /\ srv[s].pc = "seed"
  /\ srv' = [srv EXCEPT ![s] =
       IF k > Len(Seeds) THEN [pc |-> "admin", k |-> 1]
       ELSE IF count[Seeds[k]] > 0 THEN [@ EXCEPT !.k = k + 1]
       ELSE [@ EXCEPT !.pc = "seeding"]]
  /\ rivals' = IF \E s2 \in Servers \ {s} : k <= Len(Seeds) /\ srv[s2] = [pc |-> "seeding", k |-> k]
               THEN rivals \cup {Seeds[k]} ELSE rivals
  /\ UNCHANGED <<migrateVars, beside, stops, ensure, at, count, admin, ownerVars, removed>>

\* seedSystemCategories: Create.
CreateSeed(s) ==
  LET k == srv[s].k IN
  /\ srv[s].pc = "seeding"
  /\ count' = [count EXCEPT ![Seeds[k]] = @ + 1]
  /\ srv' = [srv EXCEPT ![s] = [pc |-> "seed", k |-> k + 1]]
  /\ UNCHANGED <<migrateVars, beside, stops, ensure, at, admin, ownerVars, rivals, removed>>

(***************************************************************************)
(* EnsureBootstrapAdmin and EnsureDefaultDataForUser                       *)
(***************************************************************************)

CallEnsure(a) == ensure' = [ensure EXCEPT ![a] = [k |-> 1, missing |-> FALSE]]

\* Mistake: the default accounts are left to the run that creates the row.
FindAdminOnly(s) ==
  /\ srv[s].pc = "admin"
  /\ admin' = IF admin = "none" THEN admin ELSE "ready"
  /\ srv' = [srv EXCEPT ![s].pc = IF admin = "none" THEN "adding" ELSE "serving"]
  /\ UNCHANGED <<migrateVars, beside, stops, ensure, at, count, ownerVars, rivals, removed>>

\* Mistake: a row without a password is an error.
FindAdminStrict(s) ==
  /\ srv[s].pc = "admin"
  /\ CASE admin = "none" -> srv' = [srv EXCEPT ![s].pc = "adding"] /\ UNCHANGED ensure
       [] admin = "nopassword" -> FailStart(s) /\ UNCHANGED ensure
       [] OTHER -> srv' = [srv EXCEPT ![s].pc = "defaults"] /\ CallEnsure(s)
  /\ UNCHANGED <<migrateVars, beside, stops, at, count, admin, ownerVars, rivals, removed>>

\* First(&user); a row without a password is given one.
FindAdmin(s) ==
  /\ srv[s].pc = "admin"
  /\ IF admin = "none"
     THEN srv' = [srv EXCEPT ![s].pc = "adding"] /\ UNCHANGED <<admin, ensure>>
     ELSE /\ admin' = "ready"
          /\ srv' = [srv EXCEPT ![s].pc = "defaults"]
          /\ CallEnsure(s)
  /\ UNCHANGED <<migrateVars, beside, stops, at, count, ownerVars, rivals, removed>>

\* Create(&user): the unique index on the name refuses a second row.
CreateAdmin(s) ==
  /\ srv[s].pc = "adding"
  /\ IF admin = "none"
     THEN admin' = "ready" /\ CallEnsure(s) /\ srv' = [srv EXCEPT ![s].pc = "defaults"]
     ELSE FailStart(s) /\ UNCHANGED <<admin, ensure>>
  /\ UNCHANGED <<migrateVars, beside, stops, at, count, ownerVars, rivals, removed>>

\* A server that answers requests, if only the ones it has.
Up(s) == srv[s].pc \in {"serving", "draining"}
Running(a) == ensure[a].k > 0 /\ (a \in Logins => Up(at[a]))

\* EnsureDefaultDataForUser: Count.
CountDefault(a) ==
  LET k == ensure[a].k IN
  /\ Running(a) /\ ~ensure[a].missing /\ k <= Len(Defaults)
  /\ ensure' = [ensure EXCEPT ![a] =
       IF count[Defaults[k]] > 0 THEN [@ EXCEPT !.k = k + 1] ELSE [@ EXCEPT !.missing = TRUE]]
  /\ rivals' = IF \E b \in Actors \ {a} : ensure[b] = [k |-> k, missing |-> TRUE]
               THEN rivals \cup {Defaults[k]} ELSE rivals
  /\ UNCHANGED <<migrateVars, beside, stops, srv, at, count, admin, ownerVars, removed>>

\* Mistake: the loop does not move on.
CreateDefaultAgain(a) ==
  /\ Running(a) /\ ensure[a].missing
  /\ count' = [count EXCEPT ![Defaults[ensure[a].k]] = @ + 1]
  /\ UNCHANGED <<migrateVars, beside, stops, srv, ensure, at, admin, ownerVars, rivals, removed>>

\* EnsureDefaultDataForUser: Create.
CreateDefault(a) ==
  LET k == ensure[a].k IN
  /\ Running(a) /\ ensure[a].missing
  /\ count' = [count EXCEPT ![Defaults[k]] = @ + 1]
  /\ ensure' = [ensure EXCEPT ![a] = [k |-> k + 1, missing |-> FALSE]]
  /\ removed' = removed \ {Defaults[k]}
  /\ UNCHANGED <<migrateVars, beside, stops, srv, at, admin, ownerVars, rivals>>

\* RegisterRoutesWithConfig returns and ListenAndServe starts, or the login
\* goes on to its token.
EnsureReturns(a) ==
  /\ Running(a) /\ ensure[a].k > Len(Defaults)
  /\ ensure' = [ensure EXCEPT ![a] = NoCall]
  /\ IF a \in Servers
     THEN srv' = [srv EXCEPT ![a].pc = "serving"] /\ UNCHANGED at
     ELSE at' = [at EXCEPT ![a] = None] /\ UNCHANGED srv
  /\ UNCHANGED <<migrateVars, beside, stops, count, admin, ownerVars, rivals, removed>>

\* The administrator logs in.
Login(l, s) ==
  /\ at[l] = None /\ srv[s].pc = "serving"
  /\ at' = [at EXCEPT ![l] = s]
  /\ CallEnsure(l)
  /\ UNCHANGED <<migrateVars, beside, stops, srv, count, admin, ownerVars, rivals, removed>>

(***************************************************************************)
(* The owner, through any server                                           *)
(***************************************************************************)

DeleteDefault(n) ==
  /\ \E s \in Servers : srv[s].pc = "serving"
  /\ count[n] > 0
  /\ count' = [count EXCEPT ![n] = @ - 1]
  /\ removed' = removed \cup {n}
  /\ UNCHANGED <<migrateVars, beside, stops, srv, ensure, at, admin, ownerVars, rivals>>

\* A transaction moves the balance of the old account.
MoveBalance(b) ==
  /\ \E s \in Servers : srv[s].pc = "serving"
  /\ b # balance /\ emptied < MaxEmptied
  /\ balance' = b
  /\ posted' = posted + (b - balance)
  /\ emptied' = IF b = 0 THEN emptied + 1 ELSE emptied
  /\ UNCHANGED <<migrateVars, beside, stops, srv, ensure, at, count, admin, crew, fills,
                 rivals, removed>>

(***************************************************************************)
(* Stopping                                                                *)
(***************************************************************************)

\* Server s goes, and the logins it runs with it.
Goes(s) ==
  LET cut == {l \in Logins : at[l] = s} IN
  /\ srv' = [srv EXCEPT ![s] = Down]
  /\ ensure' = [a \in Actors |-> IF a = s \/ a \in cut THEN NoCall ELSE ensure[a]]
  /\ at' = [l \in Logins |-> IF l \in cut THEN None ELSE at[l]]

\* The process dies, or a query of its start fails.
Crash(s) ==
  /\ srv[s].pc \notin {"down", "failed"}
  /\ stops < MaxStops
  /\ stops' = stops + 1
  /\ Goes(s)
  /\ UNCHANGED <<migrateVars, beside, count, admin, ownerVars, rivals, removed>>

\* SIGTERM: Shutdown takes no more requests.
Signal(s) ==
  /\ srv[s].pc = "serving" /\ stops < MaxStops
  /\ stops' = stops + 1
  /\ srv' = [srv EXCEPT ![s].pc = "draining"]
  /\ UNCHANGED <<migrateVars, beside, ensure, at, count, admin, ownerVars, rivals, removed>>

\* Shutdown returns: every request is answered, or HTTP_SHUTDOWN_TIMEOUT has
\* passed and the store is closed under the ones that are left.
Exit(s) ==
  /\ srv[s].pc = "draining"
  /\ Goes(s)
  /\ UNCHANGED <<migrateVars, beside, stops, count, admin, ownerVars, rivals, removed>>

Rest == <<srv, ensure, at, count, admin, ownerVars, rivals, removed>>

RunMigrator(m) == m \in crew /\ StartMigrator(m) /\ Joins(m) /\ UNCHANGED <<stops, Rest>>
Migration(m) == MigrateStep(m) /\ UNCHANGED <<beside, stops, Rest>>
KillMigrator(m) ==
  /\ stops < MaxStops /\ stops' = stops + 1
  /\ StopMigrator(m) /\ UNCHANGED <<beside, Rest>>

Start(s) ==
  \/ HasTable(s) \/ CreateTable(s) \/ MigrateFloatAmounts(s)
  \/ CountSeed(s) \/ CreateSeed(s) \/ FindAdmin(s) \/ CreateAdmin(s)

Ensures(a) == CountDefault(a) \/ CreateDefault(a) \/ EnsureReturns(a)

Next ==
  \/ \E m \in Migrators : RunMigrator(m) \/ Migration(m) \/ KillMigrator(m)
  \/ \E s \in Servers : Launch(s) \/ Start(s) \/ Crash(s) \/ Signal(s) \/ Exit(s)
  \/ \E a \in Actors : Ensures(a)
  \/ \E l \in Logins, s \in Servers : Login(l, s)
  \/ \E i \in 1..Len(Defaults) : DeleteDefault(Defaults[i])
  \/ \E b \in 0..MaxBalance : MoveBalance(b)

\* Processes run on, and the supervisor starts a server that has ended
\* (restart: unless-stopped); nobody has to run the migration command again.
Fairness ==
  /\ \A m \in Migrators : WF_vars(Migration(m))
  /\ \A s \in Servers : WF_vars(Launch(s)) /\ WF_vars(Start(s)) /\ WF_vars(Exit(s))
  /\ \A a \in Actors : WF_vars(Ensures(a))

Spec == Init /\ [][Next]_vars /\ Fairness

(***************************************************************************)
(* Properties                                                              *)
(***************************************************************************)

TypeOK ==
  /\ driver \in {"postgres", "mysql"}
  /\ objects \subseteq Objects \cup {Tables[i] : i \in 1..Len(Tables)}
  /\ recorded \subseteq Files
  /\ \A m \in Migrators : /\ mig[m].pc \in MigratorStates /\ mig[m].own \subseteq Objects
                          /\ mig[m].file \in 1..(Len(Script) + 1) /\ mig[m].stmt \in Nat
  /\ crew \in Crews /\ beside \subseteq Servers \cup Migrators /\ stops \in 0..MaxStops
  /\ \A s \in Servers : srv[s].k \in Nat \ {0} /\
       srv[s].pc \in {"down", "tables", "create", "refill", "seed", "seeding", "admin",
                      "adding", "defaults", "serving", "draining", "failed"}
  /\ \A a \in Actors : ensure[a].k \in 0..(Len(Defaults) + 1) /\ ensure[a].missing \in BOOLEAN
  /\ at \in [Logins -> Servers \cup {None}]
  /\ count \in [Names -> 0..Cardinality(Actors)] /\ admin \in {"none", "nopassword", "ready"}
  /\ balance \in 0..(MaxBalance + Legacy) /\ fills \in Nat /\ emptied \in Nat
  /\ rivals \subseteq Names /\ removed \subseteq Names

\* A start or a migration that finds other people's work half done fails only
\* because they are at it right now: whatever earlier runs left behind, a
\* process that starts alone gets through (runMigrations, store.New,
\* EnsureBootstrapAdmin).
FailsOnlyBesideAnother ==
  /\ \A s \in Servers : srv[s].pc = "failed" => s \in beside
  /\ \A m \in Migrators : mig[m].pc = "failed" => m \in beside

\* A server that takes requests has its system categories, an administrator
\* who can log in, and the default accounts the owner has not deleted, even
\* if the process that created the administrator died before the accounts.
ServingMeansReady ==
  \A s \in Servers : Up(s) =>
    /\ admin = "ready"
    /\ \A i \in 1..Len(Seeds) : count[Seeds[i]] > 0
    /\ \A i \in 1..Len(Defaults) : count[Defaults[i]] > 0 \/ Defaults[i] \in removed

\* seedSystemCategories and EnsureDefaultDataForUser create nothing twice
\* unless two of them look for the same name at the same time.
TwinsNeedRivals == \A n \in Names : count[n] > 1 => n \in rivals

\* The balance of an old account is what its owner made of the converted one,
\* plus the old balance once more for every start that found it empty
\* (migrateFloatAmountsToCents): never more often than it was emptied.
LegacyCountedOncePerEmptying ==
  balance = posted + Legacy * fills /\ fills <= emptied

\* Once processes are no longer stopped, every server comes to take requests:
\* a start that lost a race is started again and gets through.
EveryServerServes == \A s \in Servers : s \in crew => <>[](srv[s].pc = "serving")

=============================================================================
