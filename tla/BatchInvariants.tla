--------------------------- MODULE BatchInvariants ---------------------------
(***************************************************************************)
(* The inductive invariants behind the theorems of BatchProofs: what each  *)
(* place of the two threads implies.                                       *)
(***************************************************************************)
EXTENDS BatchDelivery

\* Places of the worker inside export_available, after target was loaded.
Working == {"lateClear", "round", "take", "taken", "attempt", "exporting",
            "account", "backoff"}

\* What export_available and export_round hold at each of the worker's places.
RoundShape ==
  /\ wpc \notin {"take", "taken"} => batch_len = 0
  /\ wpc \notin {"take", "taken", "attempt", "exporting", "account", "backoff"} =>
       pending_batches = 0
  /\ wpc # "account" => retry_batches = 0
  /\ pending_batches = 0 => pending_spans = 0
  /\ retry_batches = 0 => retry_spans = 0
  /\ pending_batches + retry_batches <= MaxConcurrentExports
  /\ wpc \in {"take", "taken"} => pending_batches < MaxConcurrentExports
  /\ wpc = "taken" => batch_len < MaxExportBatchSize
  /\ wpc \notin {"attempt", "exporting", "account", "backoff", "dead"} => attempt = 0
  /\ wpc \in {"attempt", "backoff"} => attempt < MaxAttempts
  /\ wpc \in {"exporting", "account"} /\ may_retry_again => attempt < MaxAttempts
  /\ retry_batches > 0 => may_retry_again

\* Where the request thread can be once shutdown has begun, and what it implies.
CallShape ==
  /\ rpc = "sending" => queue_depth > 0
  /\ shutdown_started => rpc \notin {"sending", "notify"}
  /\ rpc \in {"shutSend", "shutWait", "loadDepth", "loadInFlight", "join"} =>
       shutdown_started
  /\ abort_export => shutdown_started
  /\ rpc \in {"loadDepth", "loadInFlight"} => abort_export
  /\ senders_dropped => rpc = "idle" /\ shutdown_started

\* A Shutdown message is on its way or being served only after the call that
\* sends it; SetResource is only ever the first message.
ControlShape ==
  /\ \A i \in 1 .. Len(control) :
       /\ control[i].kind = "SetResource" => i = 1
       /\ control[i].kind = "Shutdown" => shutdown_started /\ rpc # "shutSend"
  /\ message.kind = "Shutdown" \/ wpc \in {"exiting", "stopped"} =>
       shutdown_started /\ rpc # "shutSend"

\* The spans still queued are within what export_available has left to do.
Covered == queue + Here(wpc = "taken") + batch_len <= target - processed

\* Some message will make the worker export again.
ToServe == \E i \in 1 .. Len(control) : control[i].kind # "SetResource"

\* Until the shutdown budget expires nothing is let go of uncounted: once the
\* Shutdown message was sent, or refused by a full control channel, everything
\* queued is still ahead of the worker.
DrainShape ==
  ~abort_export =>
    /\ reported = 0
    /\ wpc # "dead" => abandoned = 0
    /\ message.kind = "Shutdown" =>
         /\ wpc \in Working => Covered
         /\ wpc = "finish" => queue = 0
    /\ wpc \in {"exiting", "stopped"} => queue = 0
    /\ shutdown_started /\ rpc # "shutSend" /\ wpc # "dead" =>
         \/ queue = 0
         \/ ToServe
         \/ wpc \in {"clear", "load"}
         \/ wpc \in Working /\ Covered

IndInv ==
  /\ TypeOK /\ RoundShape /\ CallShape /\ DepthExact
  /\ ControlShape /\ Ledger /\ DrainShape

-----------------------------------------------------------------------------
(* What the second part of BatchProofs needs besides IndInv.                *)

\* A batch in an attempt, or set aside for the next, has one to max_export_batch_size
\* spans, and in_flight is set inside export_round only.
BatchSizes ==
  /\ pending_spans <= pending_batches * MaxExportBatchSize
  /\ retry_spans <= retry_batches * MaxExportBatchSize
  /\ in_flight <= MaxConcurrentExports * MaxExportBatchSize
  /\ wpc \in {"exporting", "backoff"} => in_flight = pending_spans
  /\ wpc \notin {"attempt", "exporting", "account", "backoff", "dead"} => in_flight = 0

\* Once an attempt was started in spite of abort_export, its results are thrown away
\* and the loop of export_available ends.
AbortShape ==
  /\ late_attempts <= 1
  /\ late_attempts > 0 =>
       abort_export /\ wpc \notin {"take", "taken", "attempt", "account", "backoff"}

\* Messages that carry a reply channel.
Answered(m) == m.kind \in {"ForceFlush", "Shutdown"}

\* The control channel keeps the order of the calls, and a call that has not sent its
\* message yet is newer than everything in it.
CallOrder ==
  /\ message.id <= calls
  /\ \A i \in 1 .. Len(control) : control[i].id <= calls
  /\ \A i, j \in 1 .. Len(control) :
       i < j /\ Answered(control[i]) /\ Answered(control[j]) => control[i].id < control[j].id
  /\ \A i \in 1 .. Len(control) :
       Answered(message) /\ Answered(control[i]) => message.id < control[i].id
  /\ rpc \in {"flushSend", "shutSend"} =>
       /\ Answered(message) => message.id < calls
       /\ \A i \in 1 .. Len(control) : Answered(control[i]) => control[i].id < calls

\* A flush is not answered by a Shutdown.
OwnAnswer ==
  rpc \in {"flushSend", "flushWait"} =>
    /\ message.kind = "Shutdown" => message.id # calls
    /\ \A i \in 1 .. Len(control) : control[i].kind = "Shutdown" => control[i].id # calls

\* Once Shutdown was sent it is in the channel or being served until the worker ends.
ShutdownAhead ==
  /\ rpc = "shutWait" \/ abort_export =>
       \/ message.kind = "Shutdown"
       \/ \E i \in 1 .. Len(control) : control[i].kind = "Shutdown"
       \/ wpc \in {"exiting", "stopped", "dead"}
  /\ wpc = "recv" => message = Timer

\* While the caller of force_flush waits nothing is queued, so what was queued at the
\* load of the target is all there is to take.
FlushShape ==
  /\ reply # "none" => Waiting
  /\ rpc = "flushWait" /\ message.kind = "ForceFlush" /\ message.id = calls =>
       /\ wpc \in Working => Covered
       /\ wpc = "finish" => queue = 0
  /\ FlushIsBarrier

\* export_pending is up only while an Export message is on its way or being served; a
\* depth of a full batch that no on_end is about to report is reported already, or is
\* what the worker is exporting now, or was reported while the store was late.
TriggerShape ==
  /\ export_pending /\ ~WorkerGone =>
       \/ wpc \in {"clear", "lateClear"}
       \/ \E i \in 1 .. Len(control) : control[i].kind = "Export"
  /\ rpc = "sending" => queue_depth <= depth
  /\ ~abort_export /\ rpc # "notify" /\ wpc \notin {"exiting", "stopped", "dead"} =>
       \/ queue_depth - Here(rpc = "sending") < MaxExportBatchSize
       \/ ToServe
       \/ late_notice
       \/ wpc \in {"clear", "load"}
       \/ /\ wpc \in Working
          /\ queue_depth - Here(rpc = "sending") + batch_len
               < MaxExportBatchSize + target - processed

\* The invariant of the second part of BatchProofs.
FlowInv ==
  /\ BatchSizes /\ RecoveredWereRetried /\ AbortShape
  /\ CallOrder /\ OwnAnswer /\ ShutdownAhead /\ FlushShape /\ TriggerShape
=============================================================================
