SPECIFICATION Spec
CONSTANTS
  MaxSpans = 3
  MaxIds = 3
  MaxCalls = 6
  MaxHeld = 2
  MaxRequests = 1
INVARIANTS
  NativeMatchesPhp
  NestedParents
  LocalRootOfScopes
  SpanLifetime
  WritesHitTheirSpan
CHECK_DEADLOCK FALSE
