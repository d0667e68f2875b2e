SPECIFICATION MCSpec
CONSTANTS
  StateKeys <- MCStateKeys
  StateValues <- MCStateValues
  RawStates <- MCRawStates
  BaggageKeys <- MCKeys
  BaggageValues <- MCValues
  BaggageMetadata <- MCMetadata
  RawBaggage <- MCRawBaggage
  Limits <- MCLimits
  MaxMembers = 2
  MaxBytes = 11
  MaxEntries = 2
  MaxSpanContexts = 2
  MaxCalls = 5
  MaxMixed = 4
INVARIANTS
  TraceStateSound
  InjectedTraceArrives
  InjectedBaggageArrives
CHECK_DEADLOCK FALSE
