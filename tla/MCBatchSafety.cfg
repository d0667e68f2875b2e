SPECIFICATION Spec
CONSTANTS
  MaxQueueSize = 2
  MaxExportBatchSize = 1
  MaxConcurrentExports = 2
  MaxAttempts = 2
  MaxElapsedIsZero = FALSE
  ControlCapacity = 2
  ExporterMayPanic = FALSE
  RelaxedReorder = TRUE
  MaxSpans = 3
  MaxCalls = 2
INVARIANTS
  Ledger
  DepthExact
  FlushIsBarrier
  FullBatchWakesWorker
  RetryAccounting
PROPERTIES
  ShutdownClosesQueue
CHECK_DEADLOCK FALSE
