SPECIFICATION Spec
CONSTANTS
  Caches = {c1, c2}
  MaxRegistrations = 3
  MaxRequests = 2
SYMMETRY Symmetry
INVARIANTS
  EntriesOwned
  RefreshedBeforeFlush
  FlushSound
CHECK_DEADLOCK FALSE
