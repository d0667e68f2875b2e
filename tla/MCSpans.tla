------------------------------ MODULE MCSpans ------------------------------
(* Instances of Spans for TLC. *)
EXTENDS Spans
=============================================================================
