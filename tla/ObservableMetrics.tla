------------------------- MODULE ObservableMetrics --------------------------
(***************************************************************************)
(* Observable instruments: src/otel/src/metrics/observable.rs, and the     *)
(* AsyncCache of src/otel/src/metrics/instrument.rs.                       *)
(*                                                                         *)
(* PHP callbacks run on the request thread, when they are registered and   *)
(* again at RSHUTDOWN, and leave their observations in the caches of their *)
(* instruments.  The exporter's thread copies one cache at a time, under   *)
(* its lock, whenever it likes: an invariant of this module is something   *)
(* it can rely on at any moment, also in the middle of a callback.         *)
(*                                                                         *)
(* A callback is PHP code: it may observe, register further callbacks,     *)
(* detach any callback, keep its observer for later, and throw.            *)
(***************************************************************************)
EXTENDS Integers, Sequences

CONSTANTS
  Caches,             \* instruments of this process, each with its AsyncCache
  MaxRegistrations,   \* bound: callbacks registered
  MaxRequests         \* bound: requests served by this thread

ASSUME ObservableAssumption == MaxRegistrations \in Nat /\ MaxRequests \in Nat

VARIABLES
  targets,     \* the caches of each registration; NEXT_CALLBACK_ID is its length
  callbacks,   \* CALLBACKS: registrations in it
  entries,     \* <<cache, id>>: the cache's map has a vector for this id
  observed,    \* <<cache, id, run>>: it holds an observation made in this run
  runs,        \* how often each callback was called
  calls,       \* callbacks being executed, innermost last, and who called them
  observers,   \* <<cache, id>> of the Observer objects PHP code can have
  tokens,      \* registrations whose ObservableCallback object PHP code can have
  phase,       \* "idle", "running", or the step RSHUTDOWN is at
  ids,         \* flush_and_clear_request_callbacks: its list of registrations
  pending,     \* ... and those not refreshed yet
  requests,    \* requests begun
  ran,         \* history: registrations called since RSHUTDOWN began
  late         \* history: <<cache, id>> observed when id was no longer registered

registryVars == <<targets, callbacks, runs>>
cacheVars    == <<entries, observed>>
phpVars      == <<observers, tokens>>
flushVars    == <<phase, ids, pending>>
historyVars  == <<ran, late>>

vars == <<registryVars, cacheVars, calls, phpVars, flushVars, requests, historyVars>>

Registrations == 1 .. Len(targets)

-----------------------------------------------------------------------------
Init ==
  /\ targets = <<>> /\ callbacks = {} /\ runs = <<>>
  /\ entries = {} /\ observed = {}
  /\ calls = <<>>
  /\ observers = {} /\ tokens = {}
  /\ phase = "idle" /\ ids = {} /\ pending = {}
  /\ requests = 0
  /\ ran = {} /\ late = {}

\* PHP code runs: the script's, or that of a callback.
PhpRuns == phase = "running" \/ calls # <<>>

\* Mutant: the vector of the last run is kept.
Cleared_Not(id, caches) == {}

\* AsyncCache::replace with an empty vector, for every target.
Cleared(id, caches) == {o \in observed : o[1] \in caches /\ o[2] = id}

\* invoke_callback, up to the call itself.
Invoke(id, caches, by) ==
  /\ entries' = entries \cup (caches \X {id})
  /\ observed' = observed \ Cleared(id, caches)
  /\ observers' = observers \cup (caches \X {id})
  /\ calls' = Append(calls, [id |-> id, by |-> by])
  /\ ran' = ran \cup {id}

\* Mutant: only one of the targets is cleaned up.
Forgotten_One(id) == {CHOOSE cache \in targets[id] : TRUE}

Forgotten(id) == targets[id]

\* detach_callback; a registration that is gone already has nothing to remove.
DetachCallbacks(gone) ==
  LET forgotten(o) == o[2] \in gone \cap callbacks /\ o[1] \in Forgotten(o[2])
  IN  /\ callbacks' = callbacks \ gone
      /\ entries' = {e \in entries : ~forgotten(e)}
      /\ observed' = {o \in observed : ~forgotten(o)}

RequestInit ==
  /\ phase = "idle"
  /\ requests < MaxRequests
  /\ requests' = requests + 1
  /\ phase' = "running"
  /\ UNCHANGED <<registryVars, cacheVars, calls, phpVars, ids, pending, historyVars>>

NextCallbackId == Len(targets) + 1

\* register_callback, by AsynchronousInstrument::observe, Meter::batchObserve or
\* the factory of an observable instrument: the callback is called at once.
Register(caches) ==
  LET id == NextCallbackId
  IN  /\ PhpRuns
      /\ id <= MaxRegistrations
      /\ targets' = Append(targets, caches)
      /\ callbacks' = callbacks \cup {id}
      /\ runs' = Append(runs, 1)
      /\ Invoke(id, caches, "register")
      /\ UNCHANGED <<tokens, flushVars, requests, late>>

\* Observer::observe, AsyncCache::push
Observe(cache, id) ==
  /\ PhpRuns
  /\ <<cache, id>> \in observers
  /\ entries' = entries \cup {<<cache, id>>}
  /\ observed' = observed \cup {<<cache, id, runs[id]>>}
  /\ late' = IF id \in callbacks THEN late ELSE late \cup {<<cache, id>>}
  /\ UNCHANGED <<registryVars, calls, phpVars, flushVars, requests, ran>>

\* ObservableCallback::detach
Detach(id) ==
  /\ PhpRuns
  /\ id \in tokens
  /\ tokens' = tokens \ {id}
  /\ DetachCallbacks({id})
  /\ UNCHANGED <<targets, runs, calls, observers, flushVars, requests, historyVars>>

Top == calls[Len(calls)]

Pop == SubSeq(calls, 1, Len(calls) - 1)

\* The callback returns.  register_callback hands out a token, which the factory of
\* an instrument drops.
CallbackReturns ==
  /\ calls # <<>>
  /\ calls' = Pop
  /\ tokens' \in {tokens, IF Top.by = "register" THEN tokens \cup {Top.id} ELSE tokens}
  /\ UNCHANGED <<registryVars, cacheVars, observers, flushVars, requests, historyVars>>

\* Mutant: an exception ends the refresh.
PendingAfterError_None == {}

PendingAfterError == pending

\* The callback throws: a registration is taken back, a refresh goes on.
CallbackThrows ==
  /\ calls # <<>>
  /\ calls' = Pop
  /\ IF Top.by = "register"
     THEN DetachCallbacks({Top.id}) /\ UNCHANGED pending
     ELSE pending' = PendingAfterError /\ UNCHANGED <<callbacks, entries, observed>>
  /\ UNCHANGED <<targets, runs, phpVars, phase, ids, requests, historyVars>>

-----------------------------------------------------------------------------
(* flush_and_clear_request_callbacks, first thing in RSHUTDOWN.             *)

\* PHP code is over, except for the callbacks still to be called.  Without any the
\* code returns here; the steps that follow then have nothing to change.
ShutdownBegin ==
  /\ phase = "running"
  /\ calls = <<>>
  /\ ids' = callbacks
  /\ pending' = callbacks
  /\ ran' = {}
  /\ phase' = "refresh"
  /\ UNCHANGED <<registryVars, cacheVars, calls, phpVars, requests, late>>

\* A callback that an earlier one detached is passed over.
Refresh(id) ==
  /\ phase = "refresh"
  /\ calls = <<>>
  /\ id \in pending
  /\ pending' = pending \ {id}
  /\ IF id \in callbacks
     THEN /\ runs' = [runs EXCEPT ![id] = @ + 1]
          /\ Invoke(id, targets[id], "flush")
     ELSE UNCHANGED <<runs, cacheVars, observers, calls, ran>>
  /\ UNCHANGED <<targets, callbacks, tokens, phase, ids, requests, late>>

\* meter_provider::force_flush: the exporter reads every cache.
Flush ==
  /\ phase = "refresh"
  /\ calls = <<>>
  /\ pending = {}
  /\ phase' = "flush"
  /\ UNCHANGED <<registryVars, cacheVars, calls, phpVars, ids, pending, requests,
                 historyVars>>

\* The registrations are released; PHP frees the objects of the request.
Release ==
  /\ phase = "flush"
  /\ DetachCallbacks(ids)
  /\ ids' = {}
  /\ observers' = {} /\ tokens' = {}
  /\ phase' = "idle"
  /\ UNCHANGED <<targets, runs, calls, pending, requests, historyVars>>

Next ==
  \/ RequestInit
  \/ \E caches \in SUBSET Caches \ {{}} : Register(caches)
  \/ \E o \in observers : Observe(o[1], o[2])
  \/ \E id \in tokens : Detach(id)
  \/ CallbackReturns \/ CallbackThrows
  \/ ShutdownBegin
  \/ \E id \in pending : Refresh(id)
  \/ Flush \/ Release

Spec == Init /\ [][Next]_vars

-----------------------------------------------------------------------------
(* Properties.                                                              *)

\* Type invariant.
TypeOK ==
  /\ targets \in Seq(SUBSET Caches \ {{}})
  /\ callbacks \subseteq Registrations
  /\ runs \in Seq(Nat) /\ Len(runs) = Len(targets)
  /\ entries \subseteq Caches \X Registrations
  /\ observed \subseteq Caches \X Registrations \X Nat
  /\ calls \in Seq([id : Nat, by : {"register", "flush"}])
  /\ \A i \in 1 .. Len(calls) : calls[i].id \in Registrations
  /\ observers \subseteq Caches \X Registrations
  /\ tokens \subseteq Registrations
  /\ phase \in {"idle", "running", "refresh", "flush"}
  /\ ids \subseteq Registrations /\ pending \subseteq ids
  /\ requests \in Nat
  /\ ran \subseteq Registrations /\ late \subseteq Caches \X Registrations

\* The caches hold a vector for exactly the registered callbacks, in each of their
\* instruments: nothing is left of a registration that failed, was detached or was
\* released, not even when a callback detached itself or registered others while
\* it ran.  Only an observer used after the detach brings a vector back.
EntriesOwned ==
  \A cache \in Caches, id \in Registrations :
    <<cache, id>> \in entries <=> \/ id \in callbacks /\ cache \in targets[id]
                                 \/ <<cache, id>> \in late

\* "Refresh PHP observable callbacks": whatever callbacks throw, register and
\* detach meanwhile, the final flush exports no callback that was not called
\* since RSHUTDOWN began.
RefreshedBeforeFlush == phase = "flush" => callbacks \subseteq ran

\* "flush their latest values once": the final flush reads no observation of an
\* earlier run of a callback.
FlushIsLatest ==
  phase = "flush" =>
    \A o \in observed : o[2] \in callbacks => o[3] = runs[o[2]]

\* The caches are well formed and, when they are flushed, of the latest run.
FlushSound == TypeOK /\ FlushIsLatest

\* "release every request-owned zval before PHP tears the request heap down".
ReleasedAtShutdown == phase = "idle" => callbacks = {}
=============================================================================
