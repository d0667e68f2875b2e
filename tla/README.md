# TLA+ models of the OpenTelemetry PHP extension

This directory models the extension under `src/otel/src`: what the Rust code does
with spans, contexts, hooks, providers, headers, attributes and observable callbacks
between the PHP engine that calls it and the exporter that receives its data. Each module is
translated from the source it names; `PROJECT.json` maps every definition to its
lines. TLC checks the modules on small instances and TLAPS proves the theorems
of the `*Proofs` modules for every value of the constants.

## The system and its parts

The extension is a shared library loaded into PHP. A PHP process serves one
request after another on one thread (MINIT, then RINIT ... RSHUTDOWN per request,
then MSHUTDOWN), may be forked by a process manager after MINIT, and gets
background threads from the exporters. The parts that keep state:

| part | state it keeps | operations | where it interacts |
|---|---|---|---|
| batch span processor (`trace/batch_processor.rs`) | span channel, control channel, four atomic flags, 13 runtime counters, the worker thread and its round | `on_start`, `on_end`, `force_flush`, `shutdown_with_timeout`, `set_resource`, the worker loop, rounds, retries | called by spans that end; calls the OTLP exporter |
| context storage (`context/`) | table of context instances, table of detached recording contexts, guard stack, stacks of the main and the forked executions | activate, attach, scope, detach, fork, switch, destroy, clear | spans, hooks and RINIT/RSHUTDOWN attach contexts; the Rust SDK keeps a context stack of its own |
| request lifecycle (`request.rs`) | root context and guard, backup of the environment, `PROPAGATOR_INSTALLED` | RINIT, RSHUTDOWN | starts and ends the root span, begins and ends a request in every other part |
| local root span (`trace/local_root_span.rs`) | id of the request's root context | store, get, clear | framework hooks add attributes to it |
| automatic instrumentation and framework plugins (`auto/`) | observed functions, `CONTEXT_GUARD_MAP` and `EXEC_DATA_FLAGS` by address of `execute_data`, connection and statement attributes by address of a PHP object | pre and post hook of each handler | creates spans and attaches them around hooked functions; names the root span |
| observable metrics (`metrics/observable.rs`, `metrics/instrument.rs`) | registered callbacks, next id, one cache per instrument | register, observe, detach, refresh and flush at RSHUTDOWN | PHP callbacks on the request thread; the metric reader's thread reads the caches |
| provider registries (`trace/tracer_provider.rs`, `logs/logger_provider.rs`, `metrics/meter_provider.rs`, `runtime.rs`) | providers by (pid, hash of the configuration), hash of the request, runtimes by pid | begin and end of a request, `init_once`, get, shutdown | RINIT/RSHUTDOWN/MSHUTDOWN, lazily after a fork |
| spans and builder (`trace/span*.rs`, `non_recording_span.rs`, `tracer.rs`) | SDK spans inside PHP objects and inside contexts | build, start, activate, write, end, free | context storage, local root, batch processor |
| propagation, baggage, trace state (`trace/propagation/`, `context/propagation/`, `baggage/`, `trace_state.rs`) | values; headers in a PHP array | parse, update, inject, extract | headers of requests, in and out |
| attribute limits (`util.rs`) | limits of the request | begin and end of a request, conversions | spans, events, links, metrics, log records |
| logs (`logs/`) | records being built, table of interned strings | build, emit | log exporter, current span |
| OTLP transport (`trace/otlp_transport.rs`) | HTTP and gRPC clients | export | network |
| panic containment, logging (`panic.rs`, `logging.rs`) | counters of the log limiter | contain, report | every entry from the engine |

What is hard here, and what correct means:

* **Batch processor.** Two threads, two bounded channels, gauges kept apart from
  the channels they describe, Relaxed atomics, timeouts on every wait, retries
  with a budget, batches exported concurrently that fail one by one, a shutdown
  that gives up. Correct: every ended span is exported or dropped exactly once
  and the counters say which; a flush is a barrier; a shutdown closes the queue,
  returns in time and stops the worker; nothing waits for ever.
* **Context storage.** One thread, but the same context lives on a PHP stack, in
  a table of instances and on the SDK's stack, and the order of calls is the
  caller's: scopes, executions (fibers) and hooked functions end in any order,
  requests follow each other on the same thread-locals, and a panic may cut an
  RSHUTDOWN short. Correct: the views agree, RSHUTDOWN finds and ends the root
  span, nothing leaks into another execution or another request.
* **Observable metrics.** Callbacks re-enter the code that calls them, and throw.
  Correct: caches hold data of registered callbacks only; the final flush of a
  request exports fresh values; everything is released at RSHUTDOWN.
* **Providers.** Fork between `init_once` and use, configurations that differ
  between requests, an environment that a request changes and must put back, a
  shutdown that must leave the parent's providers alone. Correct: a lookup gives a
  provider that works in this process and was built from the configuration it is
  found under; nothing of one request configures the next.
* **Hooks.** The two hooks of a call share no stack frame: they meet through tables
  keyed by addresses that the engine uses again, and through the current context,
  which the hooked function may change. Any hook may panic half way. Correct: the
  outcome lands on the span of the same call, a panic costs no other call its span,
  an object is described by its own entry.
* **Spans.** One span is owned by a PHP object, or lives in a native context, or is
  only named by a span context, and a context carries two of these views. Correct:
  the views agree, a new span's parent is the innermost scope's, a write reaches the
  span whose id the script sees, each span is exported once and not too early.
* **Propagation.** Members and entries are escaped, split, trimmed and limited on the
  way, in a carrier that may hold older headers. Correct: what was injected is what
  arrives.
* **Attributes and logs.** Limits are read once per request and the values are nested
  PHP arrays; a record takes its span when it is emitted, or earlier. Correct: the
  limits in force are this request's and are kept everywhere; the last write wins.

## Modules

| module | stands for |
|---|---|
| `BatchProcessor` | `trace/batch_processor.rs`, both threads, one action per access to shared state |
| `SpanDelivery` | abstract specification of a span processor: a span is owed until delivered or dropped |
| `BatchDelivery` | the refinement mapping from the processor to `SpanDelivery` |
| `BatchInvariants`, `BatchProofs` | the inductive invariants, the theorems about `BatchProcessor` and the refinement, and those about flushes, wake-ups, retries and aborts |
| `ContextStorage`, `ContextProofs` | `context/*.rs`, with RINIT/RSHUTDOWN, the local root span and the hooks' guards as they act on contexts |
| `Providers`, `ProvidersProofs` | the three provider registries, `runtime.rs`, the caches of `meter.rs`, and the environment that `request.rs` imports, backs up and restores |
| `AutoInstrumentation`, `AutoProofs` | `auto/`: both ways of hooking, and the handlers of the five plugins |
| `Spans`, `SpansProofs` | the tracing API: `tracer.rs`, `span_builder.rs`, `span.rs`, `non_recording_span.rs`, `local_root_span.rs`, and the contexts that carry spans |
| `Propagation`, `PropagationProofs` | trace state, baggage, the propagators and the array carrier |
| `Attributes` | `util.rs` and `logs/`: limits, conversions, records |
| `ObservableMetrics`, `ObservableProofs` | `metrics/observable.rs` and `AsyncCache` of `metrics/instrument.rs` |
| `Filters`, `FilterProofs` | a sequence filtered by a set (what stays on the SDK's context stack when guards are dropped, in a trace state or in a baggage), and its lemmas |
| `MCBatch`, `MCContext`, `MCProviders`, `MCAuto`, `MCSpans`, `MCPropagation`, `MCAttributes`, `MCObservable` | roots for TLC |

Components that share state are composed inside a module where they interact:
`ContextStorage` has the request, the hooks and the scripts acting on one set of
stacks; `Spans` has the request's root, hooks and scripts acting on one set of spans;
`Providers` has the request and the registries acting on one environment. Between
these modules the interfaces are narrow (an id, a span context, a provider), and each
module takes the other side as a choice.

Operators called `X_Something`, each marked as a mutant, are faulty variants of
the definition `X`. No module uses them; replacing `X` by one of them must break
the property that `PROJECT.json` names, which shows that the property can fail.

### BatchProcessor

`rpc` and `wpc` are the program counters of the request thread and of the worker.
Spans are counted and not named, because every property is about how many spans
are where; batches are counted with the spans in them, and a batch of `k` spans
is settled by `\E k`. Every shared counter is a variable of the same name.

* `on_end` is three steps: the flag test and the reservation in `queue_depth`
  (`OnEndReserve`), the `try_send` with its three results (`SpanQueued`,
  `SpanRefusedFull`, `SpanRefusedDisconnected`), and the wake-up (`NotifyExport`).
* `force_flush` and `shutdown_with_timeout` are begin, send and wait. A wait ends
  by the reply or by its timeout, and the timeout may fire at any time. A reply
  for a call that has given up goes nowhere: replies carry the number of the call.
  A shutdown that times out sets `abort_export` and then loads `queue_depth` and
  `in_flight` in two further steps, as the code does.
* The worker receives a message or its timer, clears `export_pending`, loads the
  target, and runs rounds: `take_batch` span by span, an export attempt, the
  results batch by batch in any order, and the backoff in front of a retry.
  `MoreRounds` is the loop condition of `export_available`.
* `RelaxedReorder` lets the store to `export_pending` come after the load of
  `queue_depth`, which their Relaxed ordering permits; `batch_safety` and
  `batch_delivery` allow it. `ExporterMayPanic` lets
  the exporter unwind, and the worker dies with its channels and its spans.
* Time is not a variable. Whether the elapsed budget is spent, whether a timer or
  a timeout fires and how long a backoff lasts are nondeterministic choices. The
  kinds of export errors are only retryable or not.
* `reported`, `abandoned`, `late_attempts` and `late_notice` are history variables.

### ContextStorage

Every call is one action, since all of the state is thread-local. A context is
named by the span it carries; `ctx_of` remembers which context an id was given
to, its length is `INSTANCE_COUNTER`. `attached` is the context stack of the Rust
SDK, which is external code: a guard pushes an entry, and dropping the guard
removes that entry wherever it is on the stack.

`RequestInitRoot` and `RequestShutdown` model RINIT and RSHUTDOWN as far as they
act on contexts, with the early return of `shutdown()` when the root context is
not found, and `RequestShutdownPanics` a contained panic in front of it. A detach
whose result is not zero changes nothing but the scope's own flag. A span that
ends and is removed from the detached table is not a separate action: PHP spans
record nothing in the model, so they never get there, except the root span
(`EndLocalRoot`).

### Providers

The model follows one lineage of processes: `Fork` goes on in the child, with a copy
of the parent's memory, since what the parent does next is the behaviour without the
fork. The `OTEL_*` variables are one record: what decides the kind of a provider
(`ConfigType`), whether the SDK or the URL is disabled, and what is captured. `RequestInit`
is `on_request_init` as a whole: backup, import (from `$_SERVER` or a `.env` file), the
caches of the request, `init_once` of the three signals; `RequestShutdown` undoes it, and
`RequestShutdownPanics` is one that unwinds before it could. `Hashed` is `compute_config_hash`,
which reads a variable that is not set as `''`; the builders tell the two apart (`Kind`).
Two different texts hashing to the same 64 bits are left out.
A provider is `stray` when `getTracer` builds it while `putenv` is in force. PHP's own `putenv` remembers
what it changed and restores it at the end of the request (external; `unput`). `dirty`
records what may keep an import from being undone, and `EnvRestored` excepts just that.

### AutoInstrumentation

Every hook is a short program over a few steps: start a span, keep its guard, take it
back, mark the call, note an outcome on the current span, store or look up attributes by
object address, note something on the root span. `Pre` and `Post` list the programs of each handler,
one per branch of its code. The address of `execute_data` is the depth of the call, so it
is used again as soon as a call returns; `Addrs` are the addresses of objects, which
`Free` and `Allocate` use again. `HookPanics` cuts a program at any step, and the PHP
function runs on; `Bailout` is a fatal error of PHP 7, where frames vanish without their
post hooks. A panic while a function is being selected leaves it without handlers.
Selection, both ways of hooking (observer API and `execute_ex`) and disabled plugins are
in `Hooked` and `Call`. PHP methods that a hook itself calls are not calls of the model.

### Spans

A span object is owned (it holds the SDK span), bound (it names a context), or passive (a
`NonRecordingSpan`); a context has a native side and two PHP values. `SpanContextOf` and
`Target` say what an object reports and what a write through it reaches. A call of the
script is one action; an SDK span ends by `End`, when its last owner is freed (`Freed`), or
with the request. Setters of name, attributes, events and links are one `Write`: they
differ in the data only. `With` and `Save` put a value under the span or the local-root key of a
context (`Context::with`): the PHP value changes and the native context does not, so such a
context is marked `keyed`. Executions, and scope objects that outlive their scope, are in
`ContextStorage`.

### Propagation

Trace state keys and values are shapes (length, kind of the bytes, position of `@`), which
is what validation and `limited_header` ask for. Baggage texts are sequences of a few
kinds of bytes, because they are escaped, split and trimmed: `url_encode`, `parse_into_builder`
and `baggage_header` are modelled by what they do. The trace-context propagator of the
Rust SDK is external (`SdkExtract`), and so is its parser of trace states (`sdk_from_str`),
which is modelled after version 0.31 of the `opentelemetry` crate. A span context has both
trace states: `state`, the SDK's, which is read from a header with `from_str(..).unwrap_or_default()`
and travels, and `php`, the object that `getTraceState` gives. The two parsers differ: the SDK
refuses a vendor of 14 bytes, empty members and a blank in front of a member, keeps a key that
comes twice and any number of members, and takes keys that begin with a digit or are empty.
A blank behind a member and an `=` in front of a value (the SDK strips it) are left out. A span context's number stands for both
ids and the sampled flag: the SDK writes and reads no other flag.

### Attributes

A PHP value is its type, the length of its text and its elements. `from_env` is the table
of limits with its fallbacks, `zval_to_vec` and `any_value_with_limits` the two conversions,
`set_any_attribute` the record's own. The limits are those of the constants of the code;
`MaxDepth` and `MaxLogStrings` are parameters, small in the runs. Loggers are assumed
enabled. The logger of the SDK is external: it gives a record whose trace context was not
set the active span (`SdkCorrelate`), so `setContext(false)`, or a context without a valid
span, does not keep a record from being correlated. The values nest, so this module has RECURSIVE operators and no theorems.

### ObservableMetrics

`calls` is the stack of callbacks being executed. A callback is PHP code: while it
runs, `Observe`, `Register` and `Detach` are enabled, and it ends by
`CallbackReturns` or `CallbackThrows`. The observations in a cache are named by
the run of the callback they were made in. The exporter's thread copies one cache
at a time under its lock, so that it may meet any state of the model, and the
invariants hold in all of them.

## What TLC checks

| run | instance | shows |
|---|---|---|
| `batch_safety` | queue 2, batches of 1, 2 concurrent, 2 attempts, control channel 2, 3 spans, 2 flushes, 1 shutdown, reordering | type and span ledger, both gauges, the flush barrier, full batches that wake the worker, retry counters, a closed queue |
| `batch_delivery` | queue 2, batches of 2 that may be partial, panics, reordering, `FairSpec` | the processor implements `SpanDelivery` with its liveness; a worker sent Shutdown ends |
| `batch_stuck` | queue 3, batch 1, 3 spans, panics, `StuckExporterSpec` | calls return although the exporter hangs; the accounting after a drain of several rounds; at most one export starts after the abort |
| `batch_forced` | violation | a forced shutdown can lose spans that no counter reports |
| `context_safety` | 2 requests; one fork, one hooked function and 2 scopes, or two hooked functions, 1 scope and an RSHUTDOWN that may unwind | the three views agree, the SDK's stack follows PHP, the root context stays stored, requests and executions are isolated |
| `providers_safety` | 2 processes (symmetric), 3 configurations (unset, the same with `''`, memory), 1 `putenv`, 2 requests | lookups are usable and of the request's configuration, registries keyed by the hash, the environment restored, caches current, other processes' providers kept |
| `auto_safety` | 5 applications of 3 or 4 hooked functions, calls nested twice, 3 spans, 2 objects at 1 address, 1 panic, 1 request | outcomes on their own span, tables that follow the calls, panics that stay local, statements described by themselves |
| `spans_safety` | 3 spans, 3 contexts, 2 span objects held, scripts of 7 calls | the two views of a context agree unless `with` set one of them, parents nest, the local root, lifetimes, writes |
| `propagation` | keys that both parsers take, that one of them takes or none, 2 list members, 11 bytes and 2 entries of baggage, scripts of 6 calls of one propagator or 4 of both | trace states stay valid; an injected trace arrives, its state whole or not at all; injected baggage arrives |
| `attributes` | 2 environments, 2 requests, 4 calls, nesting 2, 1 log string | limits are this request's and are kept, the last write wins, records leave with the span that was chosen, or else with the active one |
| `observable_safety` | 2 instruments (symmetric), 3 registrations, 2 requests | caches follow the registry; the final flush is complete and fresh |
| `observable_release` | violation | a callback registered during the refresh outlives its request |

Several properties are conjunctions of named parts that are one statement about the
code: `RetryAccounting` (gauge of exports in flight, recovered batches), `RequestsIsolated`,
`CachesAreCurrent`, `StateFollowsCalls`, `SpanLifetime`, `TraceStateSound`,
`LimitsKept` and `FlushSound`; some of them include the module's type invariant.

**Bounds.** `MaxSpans`, `MaxCalls`, `MaxIds`, `MaxScopes`, `MaxRegistrations`, `MaxPuts`,
`MaxObjects`, `MaxPanics`, `MaxHeld` and `MaxRequests` end the supply of inputs. The instances
are chosen so that the cases happen: three spans against a queue of two overflow it; a
control channel of two is filled by `SetResource` and one `Export` before `Shutdown`; two
batches in a round fail independently; the answer to a flush that timed out meets the
next flush; a backlog of three batches of one leaves rounds to skip after an abort or an
error; two requests let state leak from one to the next; three registrations let a
callback register one and detach another while it runs. A call inside a call, a second
object at the address of a freed one and one panic are what the tables of the hooks can
get wrong; three spans and six calls allow a scope under a scope under the root, one of
them remote or ended; a fork in the middle of a request and one between two requests
differ; two entries and eleven bytes of baggage are crossed by scripts of four calls. A
request, a worker and a process may stop for good, so deadlock is not checked.

**Fairness.** `FairSpec` gives weak fairness to the steps of both threads, though not to
the calls that start them: the request thread never waits without a timeout, the
worker's `recv_timeout` and backoff are bounded, and the exporter has a timeout
per export. `StuckExporterSpec` drops the last of these: only the request thread
goes on, and a worker that has replied to Shutdown and is on its way out.
With `RelaxedReorder` a full batch may be left to the schedule timer, when its notice
falls between the load of `queue_depth` and a store to `export_pending` that lands after
it. `FullBatchWakesWorker` says that this is the only way to miss one, and that
`export_pending` is lowered again all the same, so that the next full batch wakes the
worker; that the one missed is exported is part of `ImplementsDelivery`.
The modules other than the processor have no fairness: everything in them happens
inside a call of the PHP engine, and their properties are safety.

### Where code and text disagree

* `batch_forced`: between the store of `abort_export` and the loads of
  `queue_depth` and `in_flight` the worker may drop spans on its own. The
  repository says that every drop of a forced shutdown is reported.
* `observable_release`: the ids to release are listed before the callbacks run.

Both are quoted with their lines in `PROJECT.json`.

### Observations without a run

Seen while modelling; the properties state what holds in spite of them.

Batch processor:
* `flush_requested` is one flag for several waiters: a flush that is answered after its
  caller left lowers it under a later waiter (`batch_processor.rs:701`), whose
  backoff is then not cut short.
* The last backoff is clipped to the budget, and the retry after it starts with the
  budget spent (`batch_processor.rs:878`).

Contexts and requests:
* A context captured under the recording root and then detached stays in the table of
  detached contexts until RSHUTDOWN (`storage.rs:102`).
* `fork` copies ids and `detach` removes the instance, so a detach in one execution takes
  the instance from another (`storage.rs:150`).
* `Storage::attach` of one context twice gives two scopes one id (`storage.rs:137`).
* After an RSHUTDOWN that panicked, the local root id of the old request stays until the
  next RINIT replaces it.
* A tracer provider built after `putenv` is registered under the hash of the request
  (`tracer_provider.rs:86`), in a process whose RINIT built none: a child forked inside the
  request, or one that was disabled at RINIT. `KeyedByConfig` and `LookupIsConfigured` except it, and show that no other
  provider, and no logger or meter provider at all, goes astray like this.
* A variable that is unset and one set to `''` hash alike (`unwrap_or_default`,
  `tracer_provider.rs:139`, `logger_provider.rs:112`, `meter_provider.rs:107`), but the builders
  tell them apart: `OTEL_BSP_MAX_QUEUE_SIZE=''` is refused by `parse_usize`
  (`batch_processor.rs:167`), and an exporter of `''` turns logs and metrics off
  (`logger_provider.rs:240`). A request that sets one of
  them to `''` is given the provider of a request that left it unset, or the other way round,
  whichever came first; `LookupIsConfigured` states that configurations differ in no other way
  from that of the provider found.

Hooks:
* A statement that was never prepared under a hook, at the address of a freed one, finds
  the entry of the old one.
* A fatal error of PHP 7 leaves flags behind, which the next call at that depth replaces.
* A PHP span that is activated is natively a remote span context; a hook that ends under
  it records its outcome on a span that does not record (`OutcomeOnOwnSpan` excepts scopes
  left open by the hooked function).
* A panic in the Symfony pre hook, after the mark and before the span, makes the post hook
  note the outcome on the enclosing span.

Spans:
* `Span::getCurrent()` directly under the request's root gives a `NonRecordingSpan`: writes
  through it are lost, while `LocalRootSpan::current()` gives one that works, but an invalid
  one inside a hooked function that opened no scope.
* `Context::with(ContextKeys::span(), $span)` sets the object a context shows and not the native
  span (`context_class.rs:230`): under such a context `Span::getCurrent()` is `$span`, but new
  spans are children of the native one, and so are injected headers. `NativeMatchesPhp` and
  `NestedParents` say where the difference ends: `storeInContext` and `activate` set both.
* Spans started in a hooked function while a PHP scope is open are children of the scope's
  span, not of the hook's.

Propagation and metrics:
* Extracting from a carrier without a valid `traceparent` replaces the parent's span object by
  a non-recording one with the same span context.
* A `TraceState` that `valid_key` accepts may be one the SDK refuses: with a vendor of 14 bytes
  `createFromRemoteParent` keeps showing it, while the native span context, every child and every
  injected header have none (`trace_state.rs:143`). A state only the SDK takes travels on, and the
  script is shown none. `InjectedTraceArrives` states both.
* An empty baggage leaves an older header in a carrier that is used again; a baggage over
  8192 bytes is written and read as none; keys and metadata are written unescaped; with two
  spellings of a header in a carrier, `set` removes the first only.
* An observer kept by PHP code after its callback was detached creates a vector again
  (`instrument.rs:66`), and the reader's thread may collect between the clearing of the
  caches and the observations of the run (`observable.rs:149`).

## What is proved

The proofs hold for every value of the constants under the named assumptions of
the modules: `ConfigAssumption` (positive sizes, a batch no larger than the queue,
which the configuration code enforces), `ContextAssumption` and
`ObservableAssumption` (bounds are naturals; the main execution is no fork),
`ProvidersAssumption` and `EntriesAssumption` (configurations have their type, `None` is none
of the values it is beside), and `AutoAssumption` (an application calls functions that have handlers; no
object has the address 0; bounds are naturals), and for `Propagation` `BoundsAssumption`
(limits are integers, bounds naturals), `StateAssumption` (keys and values of trace states
have a length, raw headers are sequences of raw members) and `TextAssumption` (what a
script writes and what stands in a header is made of the bytes of the model). `Spans`
needs none.

**BatchProofs.** `IndInv` of `BatchInvariants` is inductive (`Invariance`), and gives
`TypeCorrect`, `LedgerBalanced`, `QueueDepthExact` and `DrainIsAccounted`; the action
property `ShutdownCloses` and the refinement `DeliverySafety` (safety part of
`SpanDelivery`) follow from it step by step. The ledger alone is not inductive: a
step that settles a batch is balanced only when the batches and spans in hand fit
the worker's place (`RoundShape`), and a gauge does not go below zero only because of
`DepthExact`. The accounting after a drain needs the argument of `DrainShape`: once
`Shutdown` was sent, or refused by a full control channel, the queued spans stay
ahead of the worker until it stops, since some message is still to be served, or
the worker is about to load its target, or what is left is covered by the target
already loaded; and nothing is added (`CallShape`, `ControlShape`). There is one lemma per
part of the invariant, with a case per action, and frame lemmas for the actions
of the other thread.

**BatchProofs, second part.** `FlowInv` is inductive together with `IndInv` (`FlowInvariance`) and
gives four more properties of the runs. `RetriesAccounted` (`RetryAccounting`): a batch in
hand has between one span and a full batch (`BatchSizes`), so the spans of the batches
settled one by one add up. `AbortIsPrompt` (`AbortStopsExports`): between two attempts the
worker passes a test of `abort_export`, so after it was raised the one attempt it may start
is the one whose test came before (`AbortShape`). `FlushBarrier` (`FlushIsBarrier`): calls
are numbered, the requests in the control channel are in the order of their calls
(`CallOrder`), a reply kept for the caller is the answer to its own call (`OwnAnswer`), and
from the moment the worker takes up the last flush until it answers, what is queued is
covered by the target it loaded after the call (`FlushShape`). A worker that gives up its
target does so for a shutdown, and then `Shutdown` is ahead of it or being served
(`ShutdownAhead`), which a caller that waits for a flush did not send. `TriggersWake` (`FullBatchWakesWorker`)
holds with and without the reordering of the two Relaxed accesses: `export_pending` is up only
while an `Export` message is queued or being served, and what is queued when the worker goes
back to sleep was covered by its target, or is less than a batch, or was reported in between,
which `late_notice` remembers (`TriggerShape`).

**ContextProofs.** `GuardsFollowStack` (`StacksAgree`) and `RootKept`
(`RootStaysStored`). The invariant adds that ids on stacks, in scopes and in the
tables were given out, and that user code never holds the root's id: no stack and no
scope has it, so no detach can take it out of the table. That is why `shutdown()`
never takes its early return. `FullInv` adds what the SDK's stack holds: the guards of the
scopes are a subsequence of it equal to `GUARD_STACK`, each hook in `CONTEXT_GUARD_MAP` has
one entry, the request one while it has a root span, and there is nothing else. From it
follow `SdkFollowsPhp` (`RustFollowsPhp`), `RequestIsolation` (`RequestsIsolated`) and the
action property `ForkIsolation` (`ForksIsolated`), for any number of executions, scopes,
hooks and requests.

**AutoProofs.** All four properties of `auto_safety`: `CallsOwnState` (`StateFollowsCalls`),
`OwnOutcome` (`OutcomeOnOwnSpan`), `PanicsAreLocal` and `StatementsDescribed`, for every set of
applications, any depth of calls and any number
of spans, objects, panics and requests. The invariant says where a hook stands: the rest
of its program is what is left of one of the words of its handler after some number of
steps, and guard, flag, span and table of the call are those that number of steps leaves
(`PreAt`, `PostAt`). Calls that are not at the top have finished their pre hook, so what their
post hook will find is fixed (`Fits`), spans of inner calls are younger (`Younger`), and as
long as nothing panicked the hooks' entries of the context stack are the spans of the
calls in progress in their order (`NestInv`): this is why the current span at the outcome
is the call's own. `LocalInv` is the part of it that survives a panic.

**SpansProofs.** All five properties of `spans_safety`: `ViewsNameOneSpan`
(`NativeMatchesPhp`), `ParentsNest` (`NestedParents`), `LocalRoots` (`LocalRootOfScopes`),
`SpansEndInTime` (`SpanLifetime`) and `WritesArrive` (`WritesHitTheirSpan`), for any number of
spans, contexts, objects, calls and requests. None is inductive. The two views agree, in
every context whose span `with` did not set,
because a context-bound object is always bound to the request's root context, which no
detach and no `end` takes out of the tables (`Objects`, `IdShape`), so what an object reports
does not change while the request runs. Each scope has one entry of the stack, one guard
and one object (`ScopeShape`), and in a stack made by `Span::activate` alone each context
carries as local root the object of the last scope that starts one (`RootsFollowScopes`). A
span that ended without a call is one that nothing refers to, and nothing can come to
refer to it again (`LifeShape`, `ReferencedBefore`). The proof shows once that everything the
script can get hold of is sound (`SoundObject`, `SoundContext`), and then per call what it
does to spans (`SpanStep`), values (`ValueStep`), ids, scopes and local roots.

**PropagationProofs.** All three properties of `propagation`: `SoundTraceStates`
(`TraceStateSound`), `InjectedTraces` (`InjectedTraceArrives`) and `InjectedBaggages`
(`InjectedBaggageArrives`), for any keys, values, metadata, raw headers and limits and any
number of calls. `PropagationInvariant` (`PropagationInvariantHolds`) says that the script's
trace state and those it is shown are `Sound` (members valid, no more than `MaxMembers`, keys
unique), that the SDK's have only members it takes and give the object shown, unless the SDK
refused that (`SpanContexts`), that a baggage has each key once and no empty one, and that the
carrier still holds, under one spelling, the headers last injected (`HoldsTrace`,
`HoldsBaggage`), through further injections by one propagator or both. The rest is what the
functions do to a state with the invariant:
* a sound trace state is what its header parses to (`SpellsItself`): each prefix of it is
  sound, so no member is refused or taken for a second value of its key;
* of a header that a trace state spells the SDK reads all members or none (`SdkReadsHeader`),
  and what a script is shown of the SDK's state has only members the SDK takes (`ShownTaken`),
  so whatever was refused was refused at the first reading;
* a pass of `limited_header` has, before each index, passed over members that are short or
  were dropped, and its running length is that of the members left (`PassedStep`); the
  second pass ends with a header that fits, and drops a member of at most 128 bytes only if
  the first pass dropped every longer one (`LimitedFits`);
* `set` replaces the one header of a name, whatever its spelling, keeps the others, and is
  found by `get` and by the request's own reading of the headers (`SetHolds`, `RequestHolds`);
* an entry that needs no escape in its key and no comma in its metadata survives the way
  out and back (`ReadEntry`): `url_encode` leaves no separator and no blank in the value, so
  cutting at `;` and `=` finds the parts again, trimming changes nothing but the
  metadata's blanks, and decoding gives the value back, which is then trimmed;
* the entries of a header are what stands between its commas (`SplitPlain`), they are
  found one by one (`FoundEntries`), and those a reader accepts still have unique keys, so
  that setting them in a builder keeps each (`SetAllBaggage`, `ReadPlain`).

The folds of the code are loops, and each fold of the model is shown to be a recursive
function of the length of the prefix (the lemmas called `...Run`), about which one can
argue by induction.

**FilterProofs.** `Keep` distributes over `Append` and concatenation, over the removal of a
member at the end or in the middle, and commutes with itself. The lemmas are by induction
over the length, done on the set of lengths for which the claim fails: it has no least
member. The module also shows how to take a fold apart: `FoldExists` gives the recursive
function behind a fold over a sequence, from the definition of `MapThenFoldSet`, and
`UpToInduction` is induction up to a bound.

**ProvidersProofs.** All six properties of `providers_safety`: `LookupsAreUsable`,
`LookupsAreConfigured`, `RegistryIsKeyed`, `ImportsAreUndone`, `CachesStayCurrent` and the action
property `OthersAreKept`, for any lineage of processes, any configurations and any number of
requests and calls of `putenv`. None of them is inductive. A lookup is usable because whatever is
registered under a key was built in the process of that key, with that process's runtime, from a
configuration with the hash of that key (`RegistryInv`); because the hash of a request is that of
its environment without what `putenv` changed (`HashIsOfRequest`), in a forked child too; and
because in the process of its RINIT the request's providers are there already (`ServedInv`), so
that `putenv` can mislead a builder only elsewhere. A builder asks for nothing that is not
hashed, but tells unset from `''` (`HashDecides`). The environment is restored because at each point the value to go back to is in place, in the backup of this
process, or in the memory of `putenv` (`BackupInv`).

**ObservableProofs.** `CachesFollowRegistry` (`EntriesOwned`), `FinalFlushIsFresh`
(`RefreshedBeforeFlush`) and `FlushIsSound` (`FlushSound`). The invariant says that what is
registered during the refresh was called or is still pending, and that a callback
already called holds observations of its last run only.

**Only model-checked.** Liveness and everything under fairness (`CallsReturn`,
`ShutdownStopsWorker`, the liveness part of `ImplementsDelivery`), which are out of
the prover's reach, `ReleasedAtShutdown` and `ForcedShutdownAccounted`, which do not hold
(see above what they show), and the three properties of `attributes`: `LimitsKept`,
`LastWriteWins` and `EmittedAsChosen`. PHP values nest, so the conversions of `Attributes`
are RECURSIVE operators, about which the prover's backends cannot reason.

## What is not modelled

* Fibers that interleave hooked calls: in `AutoInstrumentation` calls end last in, first out,
  on one execution. What a switch of executions does to the guards of hooks is in
  `ContextStorage`; the addresses of `execute_data` differ between fibers.
* Which route names the root span: one test in one hook, of an argument Symfony passes.
* A custom PHP context storage (`Context::setStorage`), which replaces this code,
  and the keys and values of a context other than the span's, an immutable map.
* OTLP transport: options resolved from the environment and handed to clients of other
  crates. `Providers` sees settings that can be used or not, the processor an export that
  succeeds, fails, hangs or unwinds.
* The parsing of the batch processor's configuration, the matcher of excluded URLs (a
  choice in `Providers`), the attributes of the root span, the names of spans made from SQL.
* Carriers that are objects and custom getters and setters: PHP code.
* Synchronous instruments, bodies and timestamps of log records: values handed to the SDK.
* Memory exporters (test doubles), registration of classes and ini entries, globals
  initialisers, logging and its limiter: no state a property is about.
* The vendored binding to the Zend API: third-party code.

## Plan

1. Done: batch processor with its abstract specification and proofs; context storage with
   the request's root; observable callbacks; providers with their proofs; hooks and
   plugins; spans; propagation; attributes and logs.
2. Done: proofs of the remaining safety properties of the batch processor and of the
   context storage, and of all those of the hooks and of the spans.
3. Done: proofs of the properties of propagation, with lemmas about its folds.
4. Left: the conversions of `Attributes` over values of bounded nesting, written without
   RECURSIVE operators, so that `LimitsKept` can be proved; more of the OTLP transport if
   it comes to keep state of its own.
