SPECIFICATION Spec
CONSTANTS
  Applications <- MCApplications
  Addrs = {a1}
  DisabledPlugins = {}
  MaxDepth = 2
  MaxSpans = 3
  MaxObjects = 2
  MaxPanics = 1
  MaxRequests = 1
INVARIANTS
  OutcomeOnOwnSpan
  StateFollowsCalls
  PanicIsLocal
  StatementDescribesItself
CHECK_DEADLOCK FALSE
