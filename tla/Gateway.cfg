SPECIFICATION Spec
CONSTANTS
  Reqs = {r1, r2}
  b1 = b1
  Budgets = {b1, b2}
  c1 = c1
  Cats = {c1}
  Months = {"2024-05"}
  WholeMonth = WholeMonth
  Days = {1, 2}
  Slots <- ModelSlots
  Month = 0
  Figures <- ModelFigures
  InitKind <- ModelKinds
  NoRow = NoRow
  MaxChanges = 2
  Environments <- ModelEnvironments
  Visits <- ModelVisits
  Operations <- ModelOperations
  NoReq = NoReq
  NoReply = NoReply
  NoOp = NoOp
SYMMETRY Symmetry
INVARIANTS TypeOK StartsAsWritten EveryAnswerGuarded CountedAsAnswered NegotiatedByWeight BudgetsStandAsChecked SnapshotOnceTrue
CHECK_DEADLOCK FALSE
