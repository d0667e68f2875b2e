SPECIFICATION Spec
CONSTANTS
  MaxQueueSize = 2
  MaxExportBatchSize = 1
  MaxConcurrentExports = 1
  MaxAttempts = 1
  MaxElapsedIsZero = FALSE
  ControlCapacity = 8
  ExporterMayPanic = FALSE
  RelaxedReorder = FALSE
  MaxSpans = 2
  MaxCalls = 0
INVARIANT
  ForcedShutdownAccounted
CHECK_DEADLOCK FALSE
