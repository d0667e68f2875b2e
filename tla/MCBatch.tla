------------------------------ MODULE MCBatch -------------------------------
(* TLC instances of the batch processor.  Each MCBatch*.cfg fixes one       *)
(* configuration of the processor, the misbehaviour it has to survive and   *)
(* the bounds MaxSpans and MaxCalls on what the request thread does.        *)
EXTENDS BatchDelivery
=============================================================================
