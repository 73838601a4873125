SPECIFICATION Spec
CONSTANTS
  Requests = {r1, r2}
  Users = {alice}
  Addresses = {ip}
  LimiterKeys <- AllKeys
  MaxFailures = 2
  Window = 2
  Lifetime = 1
  Leeway = 1
  MaxTime = 2
  Faults = TRUE
  None = None
SYMMETRY Symmetry
INVARIANTS TypeOK RevokedStaysOut RotationRevokes GuessesBounded RefusedOnlyForCause
CHECK_DEADLOCK FALSE
