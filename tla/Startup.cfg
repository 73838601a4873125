SPECIFICATION Spec
CONSTANTS
  Migrators = {m1, m2}
  Servers = {s1, s2}
  Logins = {l1}
  Script <- Files0001And0002
  Tables <- ModelTables
  Seeds <- SystemCategories
  Defaults <- DefaultAccounts
  Ledger = "schema_migrations"
  Legacy = 1
  m1 = m1
  m2 = m2
  s1 = s1
  s2 = s2
  Crews <- ThreeProcesses
  MaxBalance = 1
  MaxEmptied = 2
  MaxStops = 1
  None = None
INVARIANTS TypeOK RecordedIsComplete FailsOnlyBesideAnother ServingMeansReady TwinsNeedRivals LegacyCountedOncePerEmptying
PROPERTIES EveryServerServes
