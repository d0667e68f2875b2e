SPECIFICATION Spec
CONSTANTS
  Caches = {c1}
  MaxRegistrations = 2
  MaxRequests = 1
INVARIANT
  ReleasedAtShutdown
CHECK_DEADLOCK FALSE
