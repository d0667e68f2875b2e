---------------------------- MODULE BatchDelivery ----------------------------
(* The batch processor implements SpanDelivery.  The drops it counted late, *)
(* from a timed-out shutdown, are taken at the moment the worker really let *)
(* the spans go.                                                            *)
EXTENDS BatchProcessor

Dropped == dropped_queue_full + dropped_export_failure
           + (dropped_shutdown - reported) + abandoned

Delivery == INSTANCE SpanDelivery WITH
  ended <- sampled_ended, delivered <- exported, dropped <- Dropped,
  closed <- shutdown_started

\* The processor delivers or drops every ended span exactly once, accepts none
\* after shutdown_with_timeout has begun, and settles every span in the end.
ImplementsDelivery == Delivery!Spec
=============================================================================
