SPECIFICATION FairSpec
CONSTANTS
  MaxQueueSize = 2
  MaxExportBatchSize = 2
  MaxConcurrentExports = 1
  MaxAttempts = 2
  MaxElapsedIsZero = FALSE
  ControlCapacity = 2
  ExporterMayPanic = TRUE
  RelaxedReorder = TRUE
  MaxSpans = 2
  MaxCalls = 1
PROPERTIES
  ImplementsDelivery
  ShutdownStopsWorker
CHECK_DEADLOCK FALSE
