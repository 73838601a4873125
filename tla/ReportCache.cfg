SPECIFICATION Spec
CONSTANTS
  Readers = {q1, q2}
  Writers = {w1}
  Keys = {k1, k2}
  Parts = 2
  TTL = 2
  MaxFill = 1
  MaxStore = 1
  ScanCount = 1
  MaxWrites = 2
  WriteOps = {"module", "import"}
  Faults = TRUE
  None = None
INVARIANTS TypeOK StaleOnlyByOverlap BoundedStaleness
SYMMETRY Symmetry
