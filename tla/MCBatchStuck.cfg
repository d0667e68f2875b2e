SPECIFICATION StuckExporterSpec
CONSTANTS
  MaxQueueSize = 3
  MaxExportBatchSize = 1
  MaxConcurrentExports = 1
  MaxAttempts = 2
  MaxElapsedIsZero = FALSE
  ControlCapacity = 2
  ExporterMayPanic = TRUE
  RelaxedReorder = TRUE
  MaxSpans = 3
  MaxCalls = 1
INVARIANTS
  AbortStopsExports
  DrainAccounted
PROPERTIES
  CallsReturn
CHECK_DEADLOCK FALSE
