SPECIFICATION Spec
CONSTANTS
  Tabs = {t1, t2}
  Phone = t1
  Users = {u1, u2}
  Filters = {f1, f2}
  FirstFilter = f1
  MaxTokens = 2
  MaxSent = 4
  None = None
INVARIANTS TypeOK LiveTokensAccounted ScreenTellsTheTruth
PROPERTIES LiveSessionEndsForCause CheckingEnds
CHECK_DEADLOCK FALSE
