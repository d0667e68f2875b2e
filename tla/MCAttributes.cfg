SPECIFICATION Spec
CONSTANTS
  Environments <- MCEnvironments
  Keys <- MCKeys
  PhpValues <- MCValues
  Arrays <- MCArrays
  ExceptionAttributes <- MCException
  Texts <- MCTexts
  Severities <- MCSeverities
  x = x
  y = y
  MaxDepth = 2
  MaxLogStrings = 1
  MaxCalls = 4
  MaxRequests = 2
INVARIANTS
  LimitsKept
  LastWriteWins
PROPERTIES
  EmittedAsChosen
SYMMETRY TextSymmetry
CHECK_DEADLOCK FALSE
