SPECIFICATION Spec
CONSTANTS
  Uploads = {u1, u2, u3}
  x = x  y = y  z = z
  Recs = {x, y, z}
  Bad = Bad
  Key <- FoldedKey
  Name <- CategoryOf
  InitNames = {}
  Files <- UploadedFiles
  Options = {TRUE}
  Faults = TRUE
  None = None
SYMMETRY Symmetry
INVARIANTS TypeOK JobTellsTheLedger TwinsNeedOverlap RetryRecordsNothingTwice
