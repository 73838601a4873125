SPECIFICATION Spec
CONSTANTS
  Reqs = {r1, r2}
  Txs = {t1, t2}
  Accts = {a1, a2, a3}
  Cats = {c1, c2, c3}
  r1 = r1  r2 = r2  c1 = c1  c2 = c2  a1 = a1  a2 = a2
  Amounts = {0, 1}
  Openings = {0, 5}
  InitAccts = {a1, a2}
  InitCats <- SeededCats
  SystemCats = {c1}
  Ops = {"create", "update", "delete", "acctCreate", "acctUpdate", "acctDelete", "catCreate", "catUpdate", "catDelete"}
  MaxBatch = 2
  MaxOps = 4
  Faults = TRUE
  NoRow = NoRow  NoCat = NoCat  NoId = NoId  Untouched = Untouched  Free = Free
SYMMETRY Symmetry
INVARIANTS TypeOK NoDanglingReference PostedMatchesRow CategoryTypeAgrees OnlyTwoAccountsDeadlock BalanceExplained
PROPERTIES DeletedStaysDeleted ImplementsPromise
