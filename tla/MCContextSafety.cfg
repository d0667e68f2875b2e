SPECIFICATION MCSpec
CONSTANTS
  Main = Main
  Executions = {e1}
  Frames = {f1, f2}
  ForkFrames = {f1}
  HookScopes = 1
  MaxIds = 3
  MaxScopes = 2
  MaxRequests = 2
INVARIANTS
  StacksAgree
  RustFollowsPhp
  RootStaysStored
  RequestsIsolated
PROPERTIES
  ForksIsolated
CHECK_DEADLOCK FALSE
