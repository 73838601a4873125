----------------------------- MODULE MCStartup -----------------------------
(* Instances of Startup for TLC: one system category and one default account. *)
EXTENDS Startup

\* A table both AutoMigrate and the files create, and an index of the files.
Files0001And0002 == <<<<"transactions">>, <<"lookup">>>>
ModelTables == <<"transactions">>
SystemCategories == <<"food">>
DefaultAccounts == <<"cash">>

CONSTANTS m1, m2, s1, s2

\* Two migrations beside a server, or two servers beside a migration.
ThreeProcesses == {{m1, m2, s1}, {m1, s1, s2}}

=============================================================================
