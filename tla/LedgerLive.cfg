SPECIFICATION FairSpec
CONSTANTS
  Reqs = {r1, r2, r3}
  Txs = {t1, t2}
  Accts = {a1, a2}
  Cats = {c1}
  r1 = r1  r2 = r2  c1 = c1  c2 = c2  a1 = a1  a2 = a2
  Amounts = {1}
  Openings = {5}
  InitAccts = {a1, a2}
  InitCats <- SeededCats
  SystemCats = {}
  Ops = {"create", "update", "delete", "acctDelete", "catDelete"}
  MaxBatch = 2
  MaxOps = 3
  Faults = FALSE
  NoRow = NoRow  NoCat = NoCat  NoId = NoId  Untouched = Untouched  Free = Free
PROPERTIES EveryRequestEnds
