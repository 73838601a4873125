SPECIFICATION Spec
CONSTANTS
  Requests = {r1, r2}
  Users = {alice}
  Addresses = {ip}
  LimiterKeys <- AllKeys
  MaxFailures = 2
  Window = 2
  Lifetime = 2
  Leeway = 1
  MaxTime = 2
  Faults = FALSE
  None = None
PROPERTIES RefreshIsFresh
CHECK_DEADLOCK FALSE
