---------------------------- MODULE MCObservable -----------------------------
(* TLC instances of the observable instruments.                             *)
EXTENDS ObservableMetrics, TLC

\* Instruments are interchangeable.
Symmetry == Permutations(Caches)
=============================================================================
