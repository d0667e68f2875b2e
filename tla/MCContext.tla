----------------------------- MODULE MCContext ------------------------------
(* A TLC instance of the context storage.  Executions and an RSHUTDOWN that *)
(* unwinds are explored apart, the one with more scopes and the other with  *)
(* more hooked functions: together they take TLC too long.                  *)
EXTENDS ContextStorage

CONSTANTS
  ForkFrames,   \* bound: frames that are hooked while executions are forked
  HookScopes    \* bound: scopes of a request that may unwind

VARIABLE workload   \* "forks" or "panics"

MCInit == Init /\ workload \in {"forks", "panics"}

MCNext ==
  /\ Next
  /\ UNCHANGED workload
  /\ workload = "forks" => guard_map' \subseteq ForkFrames /\ ~panicked'
  /\ workload = "panics" => DOMAIN fork_stacks' = {} /\ Len(scopes') <= HookScopes

MCSpec == MCInit /\ [][MCNext]_<<vars, workload>>
=============================================================================
