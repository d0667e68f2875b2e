---------------------------- MODULE SpanDelivery ----------------------------
(***************************************************************************)
(* What the span processor promises: a span that was ended is owed until   *)
(* it is either delivered to the exporter or dropped, exactly once.  A     *)
(* closed processor drops what it is given, and owes no new span.          *)
(***************************************************************************)
EXTENDS Integers

VARIABLES
  ended,      \* spans ended so far
  delivered,  \* spans the exporter took
  dropped,    \* spans given up
  closed      \* shutdown has begun

vars == <<ended, delivered, dropped, closed>>

Owed == ended - delivered - dropped

Init == ended = 0 /\ delivered = 0 /\ dropped = 0 /\ closed = FALSE

Accept ==
  /\ ~closed
  /\ ended' = ended + 1
  /\ UNCHANGED <<delivered, dropped, closed>>

Refuse ==
  /\ closed
  /\ ended' = ended + 1
  /\ dropped' = dropped + 1
  /\ UNCHANGED <<delivered, closed>>

Deliver ==
  \E k \in 1 .. Owed :
    /\ delivered' = delivered + k
    /\ UNCHANGED <<ended, dropped, closed>>

Drop ==
  \E k \in 1 .. Owed :
    /\ dropped' = dropped + k
    /\ UNCHANGED <<ended, delivered, closed>>

Close ==
  /\ ~closed
  /\ closed' = TRUE
  /\ UNCHANGED <<ended, delivered, dropped>>

Next == Accept \/ Refuse \/ Deliver \/ Drop \/ Close

\* Safety part of the promise.
SafeSpec == Init /\ [][Next]_vars

\* The whole promise: an owed span is not owed for ever.
Spec == SafeSpec /\ WF_vars(Deliver \/ Drop)
=============================================================================
