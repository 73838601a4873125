SPECIFICATION Spec
CONSTANTS
  Uploads = {u1, u2}
  x = x  y = y  z = z
  Recs = {x, y, z}
  Bad = Bad
  Key <- FoldedKey
  Name <- CategoryOf
  InitNames = {}
  Files <- UploadedFiles
  Options = {TRUE}
  Faults = FALSE
  None = None
SYMMETRY Symmetry
INVARIANT SameFileRecordedOnce
