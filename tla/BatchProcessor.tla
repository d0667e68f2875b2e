--------------------------- MODULE BatchProcessor ---------------------------
(***************************************************************************)
(* The bounded batch span processor: src/otel/src/trace/batch_processor.rs *)
(*                                                                         *)
(* Two threads share a bounded span channel, a bounded control channel,    *)
(* four flags and the runtime metrics: the PHP request thread (non-ZTS     *)
(* builds have exactly one), which runs on_start, on_end, force_flush and  *)
(* shutdown_with_timeout, and the export worker, which runs run_worker.    *)
(* One action is one access to shared state, or a run of accesses that the *)
(* other thread cannot tell apart.  Spans are counted, not named: every    *)
(* property here is about how many spans are where.                        *)
(***************************************************************************)
EXTENDS Integers, Sequences

CONSTANTS
  MaxQueueSize,          \* config.max_queue_size: capacity of the span channel
  MaxExportBatchSize,    \* config.max_export_batch_size
  MaxConcurrentExports,  \* config.max_concurrent_exports
  MaxAttempts,           \* config.retry.max_attempts
  MaxElapsedIsZero,      \* config.retry.max_elapsed = 0: retries disabled
  ControlCapacity,       \* capacity of the control channel (8 in the code)
  ExporterMayPanic,      \* whether a call into the exporter may unwind
  RelaxedReorder,        \* whether Relaxed accesses of the worker may be reordered
  MaxSpans,              \* bound: spans started
  MaxCalls               \* bound: force_flush calls

ASSUME ConfigAssumption ==
  /\ MaxQueueSize \in Nat \ {0}
  /\ MaxExportBatchSize \in 1 .. MaxQueueSize
  /\ MaxConcurrentExports \in Nat \ {0}
  /\ MaxAttempts \in Nat \ {0}
  /\ ControlCapacity \in Nat \ {0, 1}
  /\ MaxSpans \in Nat
  /\ MaxCalls \in Nat
  /\ MaxElapsedIsZero \in BOOLEAN
  /\ ExporterMayPanic \in BOOLEAN
  /\ RelaxedReorder \in BOOLEAN

VARIABLES
  \* request thread: program counter and locals
  rpc,               \* where the request thread is
  depth,             \* on_end: the queue depth it observed
  calls,             \* number of the last control call, which owns the reply slot
  reply,             \* what the worker sent to the reply slot of call number calls
  remaining,         \* shutdown_with_timeout: queue_depth as loaded
  \* worker: program counter and locals
  wpc,               \* where the worker is
  message,           \* the control message being served
  target,            \* export_available: queue_depth on entry
  processed,         \* export_available: spans taken so far
  batch_len,         \* take_batch: length of the batch being filled
  pending_batches,   \* export_round: batches not yet settled in this attempt
  pending_spans,     \* ... and the spans in them
  retry_batches,     \* export_round: batches set aside for the next attempt
  retry_spans,       \* ... and the spans in them
  attempt,           \* export_round: number of the current attempt
  may_retry_again,   \* export_round: whether a further attempt is permitted
  spent,             \* export_round: started.elapsed() >= max_elapsed
  failed,            \* export_available: first_error is set
  \* shared state
  queue,             \* spans in the span channel
  control,           \* the control channel
  export_pending, flush_requested, abort_export, shutdown_started,
  senders_dropped,   \* the processor, and with it both senders, is dropped
  \* BatchMetricsInner
  sampled_started, sampled_ended, queued, exported,
  dropped_queue_full, dropped_export_failure, dropped_shutdown,
  export_failures, export_retries, export_retry_recovered,
  queue_depth, queue_high_watermark, in_flight,
  \* history, read by no guard
  reported,          \* what a timed-out shutdown added to dropped_shutdown
  abandoned,         \* spans the worker let go of without counting them
  late_attempts,     \* export attempts started after abort_export was set
  late_notice        \* the last full batch was reported while the clearing of
                     \* export_pending was late, and no target was loaded since

requestVars  == <<rpc, depth, calls, reply, remaining>>
roundVars    == <<pending_batches, pending_spans, retry_batches, retry_spans,
                  attempt, may_retry_again, spent>>
exportVars   == <<target, processed, batch_len, failed>>
workerVars   == <<wpc, message, exportVars, roundVars>>
channelVars  == <<queue, control>>
flagVars     == <<export_pending, flush_requested, abort_export,
                  shutdown_started, senders_dropped>>
spanMetrics  == <<sampled_started, sampled_ended, queued, dropped_queue_full,
                  dropped_shutdown, queue_high_watermark>>
exportMetrics == <<exported, dropped_export_failure, export_failures,
                   export_retries, export_retry_recovered>>
gaugeVars    == <<queue_depth, in_flight>>
historyVars  == <<reported, abandoned, late_attempts, late_notice>>

vars == <<requestVars, workerVars, channelVars, flagVars, spanMetrics,
          exportMetrics, gaugeVars, historyVars>>

-----------------------------------------------------------------------------
(* Control messages.  The reply channel inside ForceFlush and Shutdown is   *)
(* the number of the call that made it.                                     *)

Kinds == {"Export", "ForceFlush", "Shutdown", "SetResource", "Timer"}

Message(kind, id) == [kind |-> kind, id |-> id]

Messages == [kind : Kinds, id : Nat]

\* recv_timeout returned Timeout: the worker serves the schedule, not a message.
Timer == Message("Timer", 0)

RequestStates == {"idle", "sending", "notify", "flushSend", "flushWait",
                  "shutSend", "shutWait", "loadDepth", "loadInFlight", "join"}

WorkerStates == {"recv", "clear", "lateClear", "load", "round", "take", "taken",
                 "attempt", "exporting", "account", "backoff", "finish",
                 "exiting", "stopped", "dead"}

\* The worker's thread, and with it both receivers, is gone.
WorkerGone == wpc \in {"stopped", "dead"}

Waiting == rpc \in {"flushWait", "shutWait"}

\* RetryPolicy::retries_enabled
RetriesEnabled == MaxAttempts > 1 /\ ~MaxElapsedIsZero

MaxOf(a, b) == IF a > b THEN a ELSE b

MinOf(a, b) == IF a < b THEN a ELSE b

\* BoundedBatchSpanProcessor::new
Init ==
  /\ rpc = "idle" /\ depth = 0 /\ calls = 0 /\ reply = "none" /\ remaining = 0
  /\ wpc = "recv" /\ message = Timer
  /\ target = 0 /\ processed = 0 /\ batch_len = 0 /\ failed = FALSE
  /\ pending_batches = 0 /\ pending_spans = 0
  /\ retry_batches = 0 /\ retry_spans = 0
  /\ attempt = 0 /\ may_retry_again = FALSE /\ spent = FALSE
  /\ queue = 0 /\ control = <<>>
  /\ export_pending = FALSE /\ flush_requested = FALSE /\ abort_export = FALSE
  /\ shutdown_started = FALSE /\ senders_dropped = FALSE
  /\ sampled_started = 0 /\ sampled_ended = 0 /\ queued = 0 /\ exported = 0
  /\ dropped_queue_full = 0 /\ dropped_export_failure = 0 /\ dropped_shutdown = 0
  /\ export_failures = 0 /\ export_retries = 0 /\ export_retry_recovered = 0
  /\ queue_depth = 0 /\ queue_high_watermark = 0 /\ in_flight = 0
  /\ reported = 0 /\ abandoned = 0 /\ late_attempts = 0 /\ late_notice = FALSE

-----------------------------------------------------------------------------
(* The request thread.                                                      *)

\* The caller still holds the processor and is not inside one of its calls.
Callable == rpc = "idle" /\ ~senders_dropped

\* Mutant: on_end does not look at shutdown_started.
Accepting_Always == TRUE

Accepting == ~shutdown_started

\* Mutant: a span that left queue_depth's count is still counted.
ReleaseDepth_Missing == UNCHANGED queue_depth

ReleaseDepth == queue_depth' = queue_depth - 1

OnStart ==
  /\ Callable
  /\ sampled_started < MaxSpans
  /\ sampled_started' = sampled_started + 1
  /\ UNCHANGED <<requestVars, workerVars, channelVars, flagVars, sampled_ended,
                 queued, dropped_queue_full, dropped_shutdown,
                 queue_high_watermark, exportMetrics, gaugeVars, historyVars>>

\* on_end after shutdown_started: the span is refused and counted.
OnEndRefused ==
  /\ Callable
  /\ sampled_ended < sampled_started
  /\ ~Accepting
  /\ sampled_ended' = sampled_ended + 1
  /\ dropped_shutdown' = dropped_shutdown + 1
  /\ UNCHANGED <<requestVars, workerVars, channelVars, flagVars, sampled_started,
                 queued, dropped_queue_full, queue_high_watermark,
                 exportMetrics, gaugeVars, historyVars>>

\* on_end reserves its place in queue_depth before it touches the channel.
OnEndReserve ==
  /\ Callable
  /\ sampled_ended < sampled_started
  /\ Accepting
  /\ sampled_ended' = sampled_ended + 1
  /\ queue_depth' = queue_depth + 1
  /\ depth' = queue_depth + 1
  /\ rpc' = "sending"
  /\ UNCHANGED <<calls, reply, remaining, workerVars, channelVars, flagVars,
                 sampled_started, queued, dropped_queue_full, dropped_shutdown,
                 queue_high_watermark, exportMetrics, in_flight, historyVars>>

\* span_sender.try_send: Ok.
SpanQueued ==
  /\ rpc = "sending"
  /\ ~WorkerGone
  /\ queue < MaxQueueSize
  /\ queue' = queue + 1
  /\ queued' = queued + 1
  /\ queue_high_watermark' = MaxOf(queue_high_watermark, MinOf(depth, MaxQueueSize))
  /\ rpc' = IF depth >= MaxExportBatchSize THEN "notify" ELSE "idle"
  /\ depth' = 0
  /\ UNCHANGED <<calls, reply, remaining, workerVars, control, flagVars,
                 sampled_started, sampled_ended, dropped_queue_full,
                 dropped_shutdown, exportMetrics, gaugeVars, historyVars>>

\* span_sender.try_send: Full.
SpanRefusedFull ==
  /\ rpc = "sending"
  /\ ~WorkerGone
  /\ queue >= MaxQueueSize
  /\ ReleaseDepth
  /\ dropped_queue_full' = dropped_queue_full + 1
  /\ rpc' = "idle"
  /\ depth' = 0
  /\ UNCHANGED <<calls, reply, remaining, workerVars, channelVars, flagVars,
                 sampled_started, sampled_ended, queued, dropped_shutdown,
                 queue_high_watermark, exportMetrics, in_flight, historyVars>>

\* span_sender.try_send: Disconnected.
SpanRefusedDisconnected ==
  /\ rpc = "sending"
  /\ WorkerGone
  /\ ReleaseDepth
  /\ dropped_shutdown' = dropped_shutdown + 1
  /\ rpc' = "idle"
  /\ depth' = 0
  /\ UNCHANGED <<calls, reply, remaining, workerVars, channelVars, flagVars,
                 sampled_started, sampled_ended, queued, dropped_queue_full,
                 queue_high_watermark, exportMetrics, in_flight, historyVars>>

\* control_sender.try_send(m) succeeds.
ControlAccepts == ~WorkerGone /\ Len(control) < ControlCapacity

NotifyExport ==
  /\ rpc = "notify"
  /\ rpc' = "idle"
  /\ LET send == ~export_pending /\ ControlAccepts
     IN  /\ control' = IF send THEN Append(control, Message("Export", 0)) ELSE control
         /\ export_pending' = (export_pending \/ send)
  /\ late_notice' = (export_pending /\ wpc = "lateClear")
  /\ UNCHANGED <<depth, calls, reply, remaining, workerVars, queue,
                 flush_requested, abort_export, shutdown_started, senders_dropped,
                 spanMetrics, exportMetrics, gaugeVars, reported, abandoned,
                 late_attempts>>

\* force_flush raises flush_requested and opens a reply channel.
ForceFlushBegin ==
  /\ Callable
  /\ calls < MaxCalls
  /\ flush_requested' = TRUE
  /\ calls' = calls + 1
  /\ reply' = "none"
  /\ rpc' = "flushSend"
  /\ UNCHANGED <<depth, remaining, workerVars, channelVars, export_pending,
                 abort_export, shutdown_started, senders_dropped, spanMetrics,
                 exportMetrics, gaugeVars, historyVars>>

\* shutdown_with_timeout; a second call returns AlreadyShutdown at once.
ShutdownBegin ==
  /\ Callable
  /\ ~shutdown_started
  /\ shutdown_started' = TRUE
  /\ flush_requested' = TRUE
  /\ calls' = calls + 1
  /\ reply' = "none"
  /\ rpc' = "shutSend"
  /\ UNCHANGED <<depth, remaining, workerVars, channelVars, export_pending,
                 abort_export, senders_dropped, spanMetrics, exportMetrics,
                 gaugeVars, historyVars>>

\* wait_for_control: try_send of the message; Full and Disconnected return.
ControlSend(kind, here, wait) ==
  /\ rpc = here
  /\ \/ /\ ControlAccepts
        /\ control' = Append(control, Message(kind, calls))
        /\ rpc' = wait
     \/ /\ ~ControlAccepts
        /\ rpc' = "idle"
        /\ UNCHANGED control
  /\ UNCHANGED <<depth, calls, reply, remaining, workerVars, queue, flagVars,
                 spanMetrics, exportMetrics, gaugeVars, historyVars>>

ForceFlushSend == ControlSend("ForceFlush", "flushSend", "flushWait")

ShutdownSend == ControlSend("Shutdown", "shutSend", "shutWait")

\* wait_for_control: recv_timeout ends with the worker's result, with Timeout,
\* or with Disconnected once the worker dropped the reply channel.
ForceFlushReturn ==
  /\ rpc = "flushWait"
  /\ rpc' = "idle"
  /\ reply' = "none"
  /\ UNCHANGED <<depth, calls, remaining, workerVars, channelVars, flagVars,
                 spanMetrics, exportMetrics, gaugeVars, historyVars>>

\* An Ok result goes on to join the worker; an error or Disconnected returns.
ShutdownReply ==
  /\ rpc = "shutWait"
  /\ reply # "none" \/ WorkerGone
  /\ rpc' = IF reply = "ok" THEN "join" ELSE "idle"
  /\ reply' = "none"
  /\ UNCHANGED <<depth, calls, remaining, workerVars, channelVars, flagVars,
                 spanMetrics, exportMetrics, gaugeVars, historyVars>>

\* handle.join returns when the worker thread has ended.
ShutdownJoin ==
  /\ rpc = "join"
  /\ WorkerGone
  /\ rpc' = "idle"
  /\ UNCHANGED <<depth, calls, reply, remaining, workerVars, channelVars, flagVars,
                 spanMetrics, exportMetrics, gaugeVars, historyVars>>

\* The shutdown budget expired: abort_export is stored first ...
ShutdownTimeout ==
  /\ rpc = "shutWait"
  /\ reply = "none"
  /\ ~WorkerGone
  /\ abort_export' = TRUE
  /\ rpc' = "loadDepth"
  /\ UNCHANGED <<depth, calls, reply, remaining, workerVars, channelVars,
                 export_pending, flush_requested, shutdown_started,
                 senders_dropped, spanMetrics, exportMetrics, gaugeVars, historyVars>>

\* ... then queue_depth is loaded ...
ShutdownLoadDepth ==
  /\ rpc = "loadDepth"
  /\ remaining' = queue_depth
  /\ rpc' = "loadInFlight"
  /\ UNCHANGED <<depth, calls, reply, workerVars, channelVars, flagVars,
                 spanMetrics, exportMetrics, gaugeVars, historyVars>>

\* ... then in_flight, and their sum is counted as dropped.
ShutdownLoadInFlight ==
  /\ rpc = "loadInFlight"
  /\ dropped_shutdown' = dropped_shutdown + remaining + in_flight
  /\ reported' = reported + remaining + in_flight
  /\ remaining' = 0
  /\ rpc' = "idle"
  /\ UNCHANGED <<depth, calls, reply, workerVars, channelVars, flagVars,
                 sampled_started, sampled_ended, queued, dropped_queue_full,
                 queue_high_watermark, exportMetrics, gaugeVars, abandoned,
                 late_attempts, late_notice>>

\* set_resource: the provider's builder calls it before the processor is shared,
\* so on an empty control channel.
SetResource ==
  /\ Callable
  /\ sampled_started = 0 /\ calls = 0
  /\ control = <<>>
  /\ ControlAccepts
  /\ control' = Append(control, Message("SetResource", 0))
  /\ UNCHANGED <<requestVars, workerVars, queue, flagVars, spanMetrics,
                 exportMetrics, gaugeVars, historyVars>>

\* The provider shuts the processor down before it drops it.
DropProcessor ==
  /\ Callable
  /\ shutdown_started
  /\ senders_dropped' = TRUE
  /\ UNCHANGED <<requestVars, workerVars, channelVars, export_pending,
                 flush_requested, abort_export, shutdown_started, spanMetrics,
                 exportMetrics, gaugeVars, historyVars>>

RequestStep ==
  \/ SpanQueued \/ SpanRefusedFull \/ SpanRefusedDisconnected \/ NotifyExport
  \/ ForceFlushSend \/ ForceFlushReturn
  \/ ShutdownSend \/ ShutdownReply \/ ShutdownJoin
  \/ ShutdownTimeout \/ ShutdownLoadDepth \/ ShutdownLoadInFlight

RequestCall ==
  \/ OnStart \/ OnEndRefused \/ OnEndReserve
  \/ ForceFlushBegin \/ ShutdownBegin \/ SetResource \/ DropProcessor

-----------------------------------------------------------------------------
(* The worker: run_worker's loop.                                           *)

\* Mutant: the Export arm never clears export_pending.
ArmOf_KeepsPending(kind) == "load"

\* The match on the message: only Export has something to do before exporting.
ArmOf(kind) == IF kind = "Export" THEN "clear" ELSE "load"

\* recv_timeout: a message is waiting.
RecvMessage ==
  /\ wpc = "recv"
  /\ control # <<>>
  /\ Head(control).kind # "SetResource"
  /\ message' = Head(control)
  /\ control' = Tail(control)
  /\ wpc' = ArmOf(Head(control).kind)
  /\ UNCHANGED <<requestVars, exportVars, roundVars, queue, flagVars, spanMetrics,
                 exportMetrics, gaugeVars, historyVars>>

\* exporter.set_resource touches nothing but the exporter.
RecvSetResource ==
  /\ wpc = "recv"
  /\ control # <<>>
  /\ Head(control).kind = "SetResource"
  /\ control' = Tail(control)
  /\ UNCHANGED <<requestVars, workerVars, queue, flagVars, spanMetrics,
                 exportMetrics, gaugeVars, historyVars>>

\* Mutant: the worker blocks in recv, without the schedule.
RecvTimeout_Never == FALSE

\* recv_timeout: the scheduled delay passed on an empty channel.
RecvTimeout ==
  /\ wpc = "recv"
  /\ control = <<>>
  /\ ~senders_dropped
  /\ message' = Timer
  /\ wpc' = "load"
  /\ UNCHANGED <<requestVars, exportVars, roundVars, channelVars, flagVars,
                 spanMetrics, exportMetrics, gaugeVars, historyVars>>

\* recv_timeout: Disconnected.  The thread ends with whatever is still queued.
RecvDisconnected ==
  /\ wpc = "recv"
  /\ control = <<>>
  /\ senders_dropped
  /\ wpc' = "stopped"
  /\ queue' = 0
  /\ abandoned' = abandoned + queue
  /\ UNCHANGED <<requestVars, message, exportVars, roundVars, control, flagVars,
                 spanMetrics, exportMetrics, gaugeVars, reported, late_attempts,
                 late_notice>>

\* export_pending.store(false); "lateClear" is the store landing after the load
\* of queue_depth that follows it in program order.
ClearExportPending ==
  /\ wpc \in {"clear", "lateClear"}
  /\ export_pending' = FALSE
  /\ wpc' = IF wpc = "clear" THEN "load" ELSE "round"
  /\ UNCHANGED <<requestVars, message, exportVars, roundVars, channelVars,
                 flush_requested, abort_export, shutdown_started, senders_dropped,
                 spanMetrics, exportMetrics, gaugeVars, historyVars>>

\* export_available: target is the queue depth on entry.
LoadTarget ==
  /\ \/ wpc = "load" /\ wpc' = "round"
     \/ RelaxedReorder /\ wpc = "clear" /\ wpc' = "lateClear"
  /\ target' = queue_depth
  /\ processed' = 0
  /\ failed' = FALSE
  /\ late_notice' = FALSE
  /\ UNCHANGED <<requestVars, message, batch_len, roundVars, channelVars, flagVars,
                 spanMetrics, exportMetrics, gaugeVars, reported, abandoned,
                 late_attempts>>

\* Mutant: the loop ends with the first failed round.
MoreRounds_StopsOnError == processed < target /\ ~abort_export /\ ~failed

\* Mutant: the loop does not look at abort_export.
MoreRounds_IgnoresAbort == processed < target

MoreRounds == processed < target /\ ~abort_export

\* export_available: the loop condition.
CheckRound ==
  /\ wpc = "round"
  /\ wpc' = IF MoreRounds THEN "take" ELSE "finish"
  /\ UNCHANGED <<requestVars, message, exportVars, roundVars, channelVars, flagVars,
                 spanMetrics, exportMetrics, gaugeVars, historyVars>>

\* take_batch: try_recv returns a span ...
TakeSpan ==
  /\ wpc = "take"
  /\ batch_len < MaxExportBatchSize
  /\ queue > 0
  /\ queue' = queue - 1
  /\ wpc' = "taken"
  /\ UNCHANGED <<requestVars, message, exportVars, roundVars, control, flagVars,
                 spanMetrics, exportMetrics, gaugeVars, historyVars>>

\* ... and only then is queue_depth decremented.
PushSpan ==
  /\ wpc = "taken"
  /\ ReleaseDepth
  /\ batch_len' = batch_len + 1
  /\ wpc' = "take"
  /\ UNCHANGED <<requestVars, message, target, processed, failed, roundVars,
                 channelVars, flagVars, spanMetrics, exportMetrics, in_flight,
                 historyVars>>

\* take_batch returns a batch: full, or cut short by an empty channel.
CloseBatch ==
  /\ wpc = "take"
  /\ batch_len > 0
  /\ batch_len = MaxExportBatchSize \/ queue = 0
  /\ pending_batches' = pending_batches + 1
  /\ pending_spans' = pending_spans + batch_len
  /\ processed' = processed + batch_len
  /\ batch_len' = 0
  /\ wpc' = IF pending_batches + 1 = MaxConcurrentExports THEN "attempt" ELSE "take"
  /\ UNCHANGED <<requestVars, message, target, failed, retry_batches, retry_spans,
                 attempt, may_retry_again, spent, channelVars, flagVars,
                 spanMetrics, exportMetrics, gaugeVars, historyVars>>

\* take_batch returns an empty batch: export what is there, or leave the loop.
NoBatch ==
  /\ wpc = "take"
  /\ batch_len = 0
  /\ queue = 0
  /\ wpc' = IF pending_batches > 0 THEN "attempt" ELSE "finish"
  /\ UNCHANGED <<requestVars, message, exportVars, roundVars, channelVars, flagVars,
                 spanMetrics, exportMetrics, gaugeVars, historyVars>>

\* Batches that StartAttempt exports once more.
Retried == IF attempt > 0 THEN pending_batches ELSE 0

\* export_round: the next attempt, up to the calls of exporter.export.
StartAttempt ==
  /\ wpc = "attempt"
  /\ attempt' = attempt + 1
  /\ export_retries' = export_retries + Retried
  /\ in_flight' = pending_spans
  /\ spent' \in {spent, TRUE}
  /\ may_retry_again' = (RetriesEnabled /\ attempt + 1 < MaxAttempts /\ ~spent')
  /\ late_attempts' = IF abort_export THEN late_attempts + 1 ELSE late_attempts
  /\ wpc' = "exporting"
  /\ UNCHANGED <<requestVars, message, exportVars, pending_batches, pending_spans,
                 retry_batches, retry_spans, channelVars, flagVars, spanMetrics,
                 exported, dropped_export_failure, export_failures,
                 export_retry_recovered, queue_depth, reported, abandoned,
                 late_notice>>

\* Mutant: export_round returns without resetting the gauge.
LeaveRound_KeepsInFlight ==
  /\ UNCHANGED in_flight
  /\ attempt' = 0 /\ may_retry_again' = FALSE /\ spent' = FALSE
  /\ wpc' = "round"

\* export_round returns: in_flight is reset, its locals go out of scope.
LeaveRound ==
  /\ in_flight' = 0
  /\ attempt' = 0 /\ may_retry_again' = FALSE /\ spent' = FALSE
  /\ wpc' = "round"

\* export_round lets go of its spans uncounted.
AbandonRound ==
  /\ LeaveRound
  /\ abandoned' = abandoned + pending_spans
  /\ pending_batches' = 0
  /\ pending_spans' = 0
  /\ UNCHANGED <<requestVars, message, exportVars, retry_batches, retry_spans,
                 channelVars, flagVars, spanMetrics, exportMetrics, queue_depth,
                 reported, late_attempts, late_notice>>

\* The concurrent exports have all returned and abort_export is set.
ExportAborted ==
  /\ wpc = "exporting"
  /\ abort_export
  /\ AbandonRound

\* The concurrent exports have all returned; their results are looked at next.
ExportReturned ==
  /\ wpc = "exporting"
  /\ ~abort_export
  /\ wpc' = "account"
  /\ UNCHANGED <<requestVars, message, exportVars, roundVars, channelVars, flagVars,
                 spanMetrics, exportMetrics, gaugeVars, historyVars>>

\* The next result belongs to a batch of k spans.
TakeResult(k) ==
  /\ wpc = "account"
  /\ pending_batches > 0
  /\ pending_batches - 1 <= pending_spans - k
  /\ pending_spans - k <= (pending_batches - 1) * MaxExportBatchSize
  /\ pending_batches' = pending_batches - 1
  /\ pending_spans' = pending_spans - k

BatchExported(k) ==
  /\ TakeResult(k)
  /\ exported' = exported + k
  /\ export_retry_recovered' = IF attempt > 1 THEN export_retry_recovered + 1
                                              ELSE export_retry_recovered
  /\ UNCHANGED <<requestVars, wpc, message, exportVars, retry_batches, retry_spans,
                 attempt, may_retry_again, spent, channelVars, flagVars,
                 spanMetrics, dropped_export_failure, export_failures,
                 export_retries, gaugeVars, historyVars>>

\* A retryable error while a further attempt is permitted.
BatchSetAside(k) ==
  /\ TakeResult(k)
  /\ may_retry_again
  /\ retry_batches' = retry_batches + 1
  /\ retry_spans' = retry_spans + k
  /\ UNCHANGED <<requestVars, wpc, message, exportVars, attempt, may_retry_again,
                 spent, channelVars, flagVars, spanMetrics, exportMetrics,
                 gaugeVars, historyVars>>

\* A terminal error, or a retryable one with no attempt left:
\* record_terminal_failure.
BatchFailed(k) ==
  /\ TakeResult(k)
  /\ export_failures' = export_failures + 1
  /\ dropped_export_failure' = dropped_export_failure + k
  /\ failed' = TRUE
  /\ UNCHANGED <<requestVars, wpc, message, target, processed, batch_len,
                 retry_batches, retry_spans, attempt, may_retry_again, spent,
                 channelVars, flagVars, spanMetrics, exported, export_retries,
                 export_retry_recovered, gaugeVars, historyVars>>

\* Mutant: the batches set aside are forgotten when the budget runs out.
FailSetAside_Forgotten ==
  UNCHANGED <<export_failures, dropped_export_failure, failed>>

\* record_terminal_failure for every batch set aside (there may be none).
FailSetAside ==
  /\ export_failures' = export_failures + retry_batches
  /\ dropped_export_failure' = dropped_export_failure + retry_spans
  /\ failed' = (failed \/ retry_batches > 0)

\* Every result is looked at, and there is no batch to retry, or the elapsed
\* budget has run out by now.
RoundDone ==
  /\ wpc = "account"
  /\ pending_batches = 0
  /\ FailSetAside
  /\ LeaveRound
  /\ retry_batches' = 0
  /\ retry_spans' = 0
  /\ UNCHANGED <<requestVars, message, target, processed, batch_len,
                 pending_batches, pending_spans, channelVars, flagVars,
                 spanMetrics, exported, export_retries, export_retry_recovered,
                 queue_depth, historyVars>>

\* export_round schedules the batches set aside for another attempt.
ScheduleRetry ==
  /\ wpc = "account"
  /\ pending_batches = 0
  /\ retry_batches > 0
  /\ ~spent
  /\ pending_batches' = retry_batches
  /\ pending_spans' = retry_spans
  /\ retry_batches' = 0
  /\ retry_spans' = 0
  /\ in_flight' = retry_spans
  /\ wpc' = "backoff"
  /\ UNCHANGED <<requestVars, message, exportVars, attempt, may_retry_again, spent,
                 channelVars, flagVars, spanMetrics, exportMetrics, queue_depth,
                 historyVars>>

\* wait_backoff returns true.
BackoffAborted ==
  /\ wpc = "backoff"
  /\ abort_export
  /\ AbandonRound

\* wait_backoff returns false because a flush or shutdown asks for it ...
BackoffCutShort ==
  /\ wpc = "backoff"
  /\ ~abort_export
  /\ flush_requested
  /\ wpc' = "attempt"
  /\ UNCHANGED <<requestVars, message, exportVars, roundVars, channelVars, flagVars,
                 spanMetrics, exportMetrics, gaugeVars, historyVars>>

\* ... or because the delay passed; the delay is at most what remains of the
\* elapsed budget, so the budget may be spent by then.
BackoffElapsed ==
  /\ wpc = "backoff"
  /\ ~abort_export
  /\ ~flush_requested
  /\ spent' \in {spent, TRUE}
  /\ wpc' = "attempt"
  /\ UNCHANGED <<requestVars, message, exportVars, pending_batches, pending_spans,
                 retry_batches, retry_spans, attempt, may_retry_again,
                 channelVars, flagVars, spanMetrics, exportMetrics, gaugeVars,
                 historyVars>>

\* Mutant: one reply channel for all calls, so an answer to a call that timed out
\* reaches the next one.
SendReply_Shared ==
  \E result \in {"ok", "err"} :
    /\ failed => result = "err"
    /\ reply' = IF Waiting THEN result ELSE reply

\* sender.send(result): only the caller still waiting on this call sees it.
SendReply ==
  \E result \in {"ok", "err"} :
    /\ failed => result = "err"
    /\ reply' = IF Waiting /\ message.id = calls THEN result ELSE reply

\* export_available has returned to the Export or Timeout arm.
FinishExport ==
  /\ wpc = "finish"
  /\ message.kind \in {"Export", "Timer"}
  /\ wpc' = "recv"
  /\ message' = Timer
  /\ target' = 0 /\ processed' = 0 /\ failed' = FALSE
  /\ UNCHANGED <<requestVars, batch_len, roundVars, channelVars, flagVars,
                 spanMetrics, exportMetrics, gaugeVars, historyVars>>

\* ... to the ForceFlush arm: exporter.force_flush, lower the flag, reply.
FinishForceFlush ==
  /\ wpc = "finish"
  /\ message.kind = "ForceFlush"
  /\ flush_requested' = FALSE
  /\ SendReply
  /\ wpc' = "recv"
  /\ message' = Timer
  /\ target' = 0 /\ processed' = 0 /\ failed' = FALSE
  /\ UNCHANGED <<rpc, depth, calls, remaining, batch_len, roundVars, channelVars,
                 export_pending, abort_export, shutdown_started, senders_dropped,
                 spanMetrics, exportMetrics, gaugeVars, historyVars>>

\* ... to the Shutdown arm: exporter.shutdown_with_timeout, discard_remaining
\* when aborted, reply, leave the loop.
FinishShutdown ==
  /\ wpc = "finish"
  /\ message.kind = "Shutdown"
  /\ SendReply
  /\ wpc' = "exiting"
  /\ message' = Timer
  /\ target' = 0 /\ processed' = 0 /\ failed' = FALSE
  /\ queue' = IF abort_export THEN 0 ELSE queue
  /\ queue_depth' = IF abort_export THEN 0 ELSE queue_depth
  /\ abandoned' = IF abort_export THEN abandoned + queue ELSE abandoned
  /\ UNCHANGED <<rpc, depth, calls, remaining, batch_len, roundVars, control,
                 flagVars, spanMetrics, exportMetrics, in_flight, reported,
                 late_attempts, late_notice>>

\* Mutant: the Shutdown arm does not leave the loop.
WorkerExit_LoopsOn ==
  /\ wpc = "exiting"
  /\ wpc' = "recv"
  /\ UNCHANGED <<requestVars, message, exportVars, roundVars, channelVars, flagVars,
                 spanMetrics, exportMetrics, gaugeVars, historyVars>>

\* The thread ends and drops both receivers with what they hold.
WorkerExit ==
  /\ wpc = "exiting"
  /\ wpc' = "stopped"
  /\ queue' = 0
  /\ control' = <<>>
  /\ abandoned' = abandoned + queue
  /\ UNCHANGED <<requestVars, message, exportVars, roundVars, flagVars, spanMetrics,
                 exportMetrics, gaugeVars, reported, late_attempts, late_notice>>

\* A call into the exporter unwinds: the thread ends where it stands.
WorkerPanic ==
  /\ ExporterMayPanic
  /\ \/ wpc = "exporting"
     \/ wpc = "finish" /\ ~failed /\ message.kind \in {"ForceFlush", "Shutdown"}
  /\ wpc' = "dead"
  /\ queue' = 0
  /\ control' = <<>>
  /\ abandoned' = abandoned + queue + pending_spans
  /\ pending_batches' = 0
  /\ pending_spans' = 0
  /\ UNCHANGED <<requestVars, message, exportVars, retry_batches, retry_spans,
                 attempt, may_retry_again, spent, flagVars, spanMetrics,
                 exportMetrics, gaugeVars, reported, late_attempts, late_notice>>

WorkerStep ==
  \/ RecvMessage \/ RecvSetResource \/ RecvTimeout \/ RecvDisconnected
  \/ ClearExportPending \/ LoadTarget \/ CheckRound
  \/ TakeSpan \/ PushSpan \/ CloseBatch \/ NoBatch
  \/ StartAttempt \/ ExportAborted \/ ExportReturned
  \/ \E k \in 1 .. MaxExportBatchSize :
       BatchExported(k) \/ BatchSetAside(k) \/ BatchFailed(k)
  \/ RoundDone \/ ScheduleRetry
  \/ BackoffAborted \/ BackoffCutShort \/ BackoffElapsed
  \/ FinishExport \/ FinishForceFlush \/ FinishShutdown \/ WorkerExit

Next == RequestCall \/ RequestStep \/ WorkerStep \/ WorkerPanic

Spec == Init /\ [][Next]_vars

\* Neither thread stops inside a call: every wait of the request thread has a
\* timeout, every wait of the worker too, and the exporter bounds each export.
FairSpec == Spec /\ WF_vars(RequestStep) /\ WF_vars(WorkerStep)

\* The exporter may hang: only the request thread, and a worker that has already
\* replied to Shutdown and has nothing left to do but end, keep going.
StuckExporterSpec == Spec /\ WF_vars(RequestStep) /\ WF_vars(WorkerExit)

-----------------------------------------------------------------------------
(* Properties.                                                              *)

\* 1 in the states where P holds, to count a span that is between two places.
Here(P) == IF P THEN 1 ELSE 0

\* Spans the worker has taken out of the channel and not settled.
InHand == Here(wpc = "taken") + batch_len + pending_spans + retry_spans

\* Where the threads are, and what the control channel holds.
PlaceTypes ==
  /\ rpc \in RequestStates
  /\ reply \in {"none", "ok", "err"}
  /\ wpc \in WorkerStates
  /\ message \in Messages
  /\ control \in Seq(Messages)
  /\ Len(control) <= ControlCapacity

FlagTypes ==
  /\ may_retry_again \in BOOLEAN /\ spent \in BOOLEAN /\ failed \in BOOLEAN
  /\ export_pending \in BOOLEAN /\ flush_requested \in BOOLEAN
  /\ abort_export \in BOOLEAN /\ shutdown_started \in BOOLEAN
  /\ senders_dropped \in BOOLEAN /\ late_notice \in BOOLEAN

CounterTypes ==
  /\ depth \in Nat /\ calls \in Nat /\ remaining \in Nat
  /\ target \in Nat /\ processed \in Nat
  /\ batch_len \in 0 .. MaxExportBatchSize
  /\ pending_batches \in 0 .. MaxConcurrentExports /\ pending_spans \in Nat
  /\ retry_batches \in 0 .. MaxConcurrentExports /\ retry_spans \in Nat
  /\ attempt \in 0 .. MaxAttempts
  /\ queue \in 0 .. MaxQueueSize
  /\ sampled_started \in Nat /\ sampled_ended \in Nat /\ queued \in Nat
  /\ exported \in Nat /\ dropped_queue_full \in Nat
  /\ dropped_export_failure \in Nat /\ dropped_shutdown \in Nat
  /\ export_failures \in Nat /\ export_retries \in Nat
  /\ export_retry_recovered \in Nat
  /\ queue_depth \in Nat /\ in_flight \in Nat
  /\ queue_high_watermark \in 0 .. MaxQueueSize
  /\ reported \in Nat /\ abandoned \in Nat /\ late_attempts \in Nat

\* Type invariant.  Every counter and gauge is a usize that must not wrap below
\* zero, both channels respect their capacity, an export is attempted at most
\* max_attempts times, and the high watermark keeps to its clamp.
TypeOK == PlaceTypes /\ FlagTypes /\ CounterTypes

\* Every ended span is in exactly one place: counted as exported or as dropped,
\* let go of by the worker, in the worker's hand, in the channel, or in on_end's.
EndedBalance ==
  sampled_ended = exported + dropped_queue_full + dropped_export_failure
                  + (dropped_shutdown - reported) + abandoned
                  + InHand + queue + Here(rpc = "sending")

\* The same for the spans that entered the channel.
QueuedBalance ==
  queued = exported + dropped_export_failure + abandoned + InHand + queue

\* No span is counted twice and none is lost, whatever the interleaving of
\* on_end, the worker, retries, a timed-out shutdown and a worker panic.
Ledger == EndedBalance /\ QueuedBalance

\* The gauge queue_depth is the channel's length, plus the span on_end has
\* reserved and not yet sent, plus the one the worker has received and not yet
\* discounted.  So it never wraps below zero and never lags behind the channel.
DepthExact ==
  ~WorkerGone => queue_depth = queue + Here(rpc = "sending") + Here(wpc = "taken")

\* in_flight is exactly what is being exported or waits for a retry, is zero
\* between rounds, and is bounded by the concurrent batches.
InFlightExact ==
  /\ wpc \in {"exporting", "backoff"} => in_flight = pending_spans
  /\ wpc \in {"recv", "clear", "load", "round", "take", "taken", "finish",
              "exiting", "stopped"} => in_flight = 0
  /\ in_flight <= MaxConcurrentExports * MaxExportBatchSize

\* The documented accounting invariant: once the worker has stopped after a
\* shutdown that did not run out of its budget, every ended span is counted as
\* exported or as one kind of drop.
DrainAccounted ==
  wpc \in {"exiting", "stopped"} /\ ~abort_export =>
    sampled_ended = exported + dropped_queue_full + dropped_export_failure
                    + dropped_shutdown

\* When force_flush gets the worker's answer, no span ended before the call is
\* still in the channel or in the worker's hand, even if an earlier flush timed
\* out and was answered late.
FlushIsBarrier ==
  rpc = "flushWait" /\ reply # "none" => queue = 0 /\ InHand = 0

\* A full batch wakes the worker, and the trigger always arms again.  export_pending,
\* which keeps on_end from sending Export, is up only while an Export message is
\* queued or being served.  And when the worker sleeps on an empty control channel
\* with no on_end under way, less than a batch is queued; the one exception is a
\* batch whose notice fell between the load of queue_depth and a store to
\* export_pending that landed after it (both accesses are Relaxed).
FullBatchWakesWorker ==
  /\ export_pending /\ ~WorkerGone =>
       \/ wpc \in {"clear", "lateClear"}
       \/ \E i \in 1 .. Len(control) : control[i].kind = "Export"
  /\ wpc = "recv" /\ control = <<>> /\ rpc = "idle" =>
       queue_depth < MaxExportBatchSize \/ late_notice

\* A batch counted as recovered was retried, and is counted once.
RecoveredWereRetried ==
  export_retry_recovered + (IF attempt > 1 /\ wpc \in {"exporting", "account"}
                            THEN pending_batches ELSE 0) <= export_retries

\* What metrics say of exports under way is exact through retries, aborts and partial
\* failures: in_flight counts the spans of the attempt or its backoff and nothing
\* between rounds, and no batch is counted as recovered that was not retried.
RetryAccounting == InFlightExact /\ RecoveredWereRetried

\* After the shutdown budget expired the worker starts at most one more export.
AbortStopsExports == late_attempts <= 1

QueueOnlyDrains ==
  shutdown_started => /\ queued' = queued
                      /\ queue' + InHand' <= queue + InHand

\* Once a shutdown has begun nothing enters the channel, and the number of spans
\* the worker still owes only goes down.
ShutdownClosesQueue == [][QueueOnlyDrains]_vars

\* Every call into the processor returns, even when the exporter hangs.
CallsReturn == (rpc # "idle") ~> (rpc = "idle")

\* A worker that has been sent Shutdown ends, whatever was queued before it.
ShutdownStopsWorker == (rpc = "shutWait") ~> WorkerGone

\* "with every drop reported by getRuntimeMetrics()": once a forced shutdown has
\* returned and the worker has ended, the drops are all counted.
ForcedShutdownAccounted ==
  wpc = "stopped" /\ rpc = "idle" /\ abort_export =>
    sampled_ended = exported + dropped_queue_full + dropped_export_failure
                    + dropped_shutdown
=============================================================================
