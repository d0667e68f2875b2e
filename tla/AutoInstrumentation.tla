------------------------ MODULE AutoInstrumentation -------------------------
(***************************************************************************)
(* Automatic instrumentation: the observer of PHP 8 (auto/observer.rs) and *)
(* the execute_ex wrapper of PHP 7 (auto/execute.rs), the plugin manager,  *)
(* and the handlers of the framework plugins (auto/plugin/).               *)
(*                                                                         *)
(* A handler is a pair of hooks around a PHP function, and a hook is a     *)
(* short program over a few steps: start a span, take its guard back, note *)
(* the outcome on the current span, keep what a later hook needs.  The two *)
(* hooks of a call share no stack frame.  They communicate through tables  *)
(* keyed by addresses (of execute_data, and of PHP objects), which the     *)
(* engine uses again, and through the current context, which the hooked    *)
(* function may leave different from how it found it.  A panic may cut any *)
(* hook short; it is contained and the PHP function runs all the same.     *)
(*                                                                         *)
(* The address of execute_data is the depth of the call.                   *)
(***************************************************************************)
EXTENDS Integers, SequencesExt, Filters

CONSTANTS
  Applications,      \* sets of hooked functions that an application calls
  Addrs,             \* addresses of PHP objects
  DisabledPlugins,   \* otel.auto.disabled_plugins
  MaxDepth,          \* bound: calls in progress
  MaxSpans,          \* bound: spans of a request, those of hooks and of PHP code
  MaxObjects,        \* bound: objects allocated
  MaxPanics,         \* bound: panics inside hooks
  MaxRequests        \* bound: requests

VARIABLES
  observer_api,      \* the build: observer API, or execute_ex
  functions,         \* the hooked functions of this application
  frames,            \* calls in progress, innermost last
  program,           \* steps left of the hook that runs; <<>> while PHP code runs
  hook,              \* "none", "pre", "post"
  held,              \* the span whose guard the hook's _guard holds, 0 for None
  ctx,               \* the SDK's context stack
  guard_map,         \* CONTEXT_GUARD_MAP: address of execute_data -> span, 0
  flags,             \* EXEC_DATA_FLAGS: address -> "true", "false", or "none"
  connection_attrs,  \* CONNECTION_ATTRS of the plugins: whom the entry describes, 0
  statement_attrs,   \* STATEMENT_ATTRS, likewise
  heap,              \* PHP objects: address -> id and whether a prepare described it
  ignored,           \* functions whose selection panicked: they have no handlers
  phase,             \* "idle" between requests, "running"
  spans, objects, panics, requests,   \* counters
  bailed,            \* history: a fatal error left frames (PHP 7): "no", "now", "before"
  unwound            \* history: the last RSHUTDOWN unwound

tableVars == <<guard_map, flags, connection_attrs, statement_attrs>>
countVars == <<objects, panics, requests>>
fixedVars == <<observer_api, functions, ignored, bailed, unwound>>

vars == <<observer_api, functions, frames, program, hook, held, ctx, tableVars, heap, ignored,
          phase, spans, countVars, bailed, unwound>>

-----------------------------------------------------------------------------
(* The handlers.  Pre gives the programs a pre hook may run, depending on    *)
(* what it finds in PHP objects, Post those of the post hook.                *)

\* The headers of the request are injected from the span just started.
Psr18SendRequestPre == {<<"start", "outcome">>}
Psr18SendRequestPost == {<<"take", "outcome">>}

LaminasApplicationRunPre == {<<"onroot", "start">>}
LaminasApplicationRunPost == {<<"take">>}

\* The error is noted on the span around the call.
LaminasCompleteRequestPre == {<<>>, <<"enclosing">>}

LaminasRoutePre == {<<>>, <<"onroot">>}

LaminasDbConnectPre == {<<"start", "outcome", "connection">>}
LaminasDbConnectPost == {<<"take", "outcome">>}

LaminasStatementPreparePre == {<<"start">>}
LaminasStatementPreparePost == {<<"take", "outcome", "statement", "outcome">>}

LaminasStatementExecutePre == {<<"start">>}
LaminasStatementExecutePost == {<<"take", "outcome", "describe">>}

LaminasConnectionExecutePre == {<<"start">>}
LaminasConnectionExecutePost == {<<"take", "outcome">>}

Zf1RoutePost == {<<"onroot">>}

\* Exceptions go to the root span.
Zf1SendResponsePost == {<<>>, <<"onroot">>}

\* No span for a connection that is open already, or for the abstract method.
Zf1AdapterConnectPre == {<<"unmarked">>, <<"start", "connection", "mark">>}
Zf1AdapterConnectPost == {<<"takemarked", "outcome", "unmark">>}

\* The statement is the value returned, when there is one.
Zf1AdapterPreparePre == {<<"start">>}
Zf1AdapterPreparePost == {<<"take", "outcome">>, <<"take", "outcome", "statement">>}

Zf1StatementExecutePre == {<<"describe", "start", "outcome">>}
Zf1StatementExecutePost == {<<"take", "outcome">>}

\* A Laravel command has the span of its own handler.
SymfonyConsoleCommandPre == {<<"unmarked">>, <<"mark", "start">>}
SymfonyConsoleCommandPost == {<<"unmarkstop", "take", "outcome">>}

\* A sub-request leaves the root span alone.
SymfonyHttpKernelPost(sub) == IF sub THEN {<<>>} ELSE {<<"onroot">>}

LaravelConsoleCommandPre == {<<"start">>}
LaravelConsoleCommandPost == {<<"take", "outcome">>}

LaravelHttpKernelPre == {<<"onroot">>}
LaravelHttpKernelPost == {<<>>, <<"onroot">>}

LaminasFunctions == {"Application::run", "completeRequest", "setRouteMatch", "connect",
                     "prepare", "execute", "Connection::execute"}
Zf1Functions     == {"route", "sendResponse", "_connect", "Adapter::prepare",
                     "Statement::execute"}
SymfonyFunctions == {"Command::run", "HttpKernel::handle"}
LaravelFunctions == {"Command::execute", "Kernel::handle"}
AllFunctions     == {"sendRequest"} \cup LaminasFunctions \cup Zf1Functions
                    \cup SymfonyFunctions \cup LaravelFunctions

ASSUME AutoAssumption ==
  /\ Applications \subseteq SUBSET AllFunctions
  /\ DisabledPlugins \subseteq {"psr18", "laminas", "zf1", "symfony", "laravel"}
  /\ 0 \notin Addrs
  /\ \A n \in {MaxDepth, MaxSpans, MaxObjects, MaxPanics, MaxRequests} : n \in Nat

PluginOf(fn) ==
  CASE fn \in LaminasFunctions -> "laminas"
    [] fn \in Zf1Functions -> "zf1"
    [] fn \in SymfonyFunctions -> "symfony"
    [] fn \in LaravelFunctions -> "laravel"
    [] OTHER -> "psr18"

Pre(fn) ==
  CASE fn = "sendRequest"         -> Psr18SendRequestPre
    [] fn = "Application::run"    -> LaminasApplicationRunPre
    [] fn = "completeRequest"     -> LaminasCompleteRequestPre
    [] fn = "setRouteMatch"       -> LaminasRoutePre
    [] fn = "connect"             -> LaminasDbConnectPre
    [] fn = "prepare"             -> LaminasStatementPreparePre
    [] fn = "execute"             -> LaminasStatementExecutePre
    [] fn = "Connection::execute" -> LaminasConnectionExecutePre
    [] fn = "_connect"            -> Zf1AdapterConnectPre
    [] fn = "Adapter::prepare"    -> Zf1AdapterPreparePre
    [] fn = "Statement::execute"  -> Zf1StatementExecutePre
    [] fn = "Command::run"        -> SymfonyConsoleCommandPre
    [] fn = "Command::execute"    -> LaravelConsoleCommandPre
    [] fn = "Kernel::handle"      -> LaravelHttpKernelPre
    [] OTHER                      -> {<<>>}

Post(fn, sub) ==
  CASE fn = "sendRequest"         -> Psr18SendRequestPost
    [] fn = "Application::run"    -> LaminasApplicationRunPost
    [] fn = "connect"             -> LaminasDbConnectPost
    [] fn = "prepare"             -> LaminasStatementPreparePost
    [] fn = "execute"             -> LaminasStatementExecutePost
    [] fn = "Connection::execute" -> LaminasConnectionExecutePost
    [] fn = "route"               -> Zf1RoutePost
    [] fn = "sendResponse"        -> Zf1SendResponsePost
    [] fn = "_connect"            -> Zf1AdapterConnectPost
    [] fn = "Adapter::prepare"    -> Zf1AdapterPreparePost
    [] fn = "Statement::execute"  -> Zf1StatementExecutePost
    [] fn = "Command::run"        -> SymfonyConsoleCommandPost
    [] fn = "HttpKernel::handle"  -> SymfonyHttpKernelPost(sub)
    [] fn = "Command::execute"    -> LaravelConsoleCommandPost
    [] fn = "Kernel::handle"      -> LaravelHttpKernelPost
    [] OTHER                      -> {<<>>}

\* Functions whose hooks use the object they are called on or return.
StatementFunctions == {"prepare", "execute", "Adapter::prepare", "Statement::execute"}
ConnectFunctions   == {"connect", "_connect"}

-----------------------------------------------------------------------------
Depths == 1 .. MaxDepth
Me == Last(frames)
Here == Len(frames)

NoFrames == [d \in Depths |-> 0]
NoFlags == [d \in Depths |-> "none"]
NoAttrs == [p \in {"laminas", "zf1"} |-> [a \in Addrs |-> 0]]

Init ==
  /\ observer_api \in BOOLEAN /\ functions \in Applications
  /\ frames = <<>> /\ program = <<>> /\ hook = "none" /\ held = 0
  /\ ctx = <<>>
  /\ guard_map = NoFrames /\ flags = NoFlags
  /\ connection_attrs = NoAttrs /\ statement_attrs = NoAttrs
  /\ heap = [a \in Addrs |-> [id |-> 0, described |-> FALSE]]
  /\ ignored = {}
  /\ phase = "idle"
  /\ spans = 0 /\ objects = 0 /\ panics = 0 /\ requests = 0
  /\ bailed = "no" /\ unwound = FALSE

\* Entries of the SDK's context stack, and those of hooks.
SdkContexts  == [by : {"hook", "user"}, span : Nat]
HookContexts == [by : {"hook"}, span : Nat]

\* The guard of this span is dropped: its entry leaves the stack, wherever it is.
Without(stack, span) == Keep(stack, SdkContexts \ {[by |-> "hook", span |-> span]})

CurrentSpan == IF ctx = <<>> THEN 0 ELSE Last(ctx).span

-----------------------------------------------------------------------------
(* PHP code.                                                                *)

PhpRuns == phase = "running" /\ hook = "none"

RequestInit ==
  /\ phase = "idle" /\ requests < MaxRequests
  /\ phase' = "running" /\ requests' = requests + 1
  /\ UNCHANGED <<fixedVars, frames, program, hook, held, ctx, tableVars, heap, spans, objects,
                 panics>>

\* The calls the hooks may assume: a statement has an object, a sub-request is made
\* while its main request is handled.
Callable(fn, this, sub) ==
  /\ fn \in StatementFunctions \cup ConnectFunctions <=> this # 0
  /\ this # 0 => heap[this].id # 0
  /\ sub => fn = "HttpKernel::handle" /\ \E i \in 1 .. Here : frames[i].fn = fn

\* get_function_observer: handlers of the plugins that are not disabled.
Hooked(fn) == PluginOf(fn) \notin DisabledPlugins /\ fn \notin ignored

\* A hooked function is called: observer_instrument, pre_observe, handle_execution.
\* Calls end last in, first out: a fiber suspended inside a hooked function while others
\* are called and return is not modelled (the tables key their calls by address, so no
\* later call would be confused with it, but its span would stay current meanwhile).
Call(fn, this, sub, pre) ==
  /\ PhpRuns
  /\ Here < MaxDepth
  /\ fn \in functions /\ Hooked(fn) /\ Callable(fn, this, sub) /\ pre \in Pre(fn)
  /\ frames' = Append(frames, [fn |-> fn, this |-> this, sub |-> sub, span |-> 0,
                               cut |-> FALSE])
  /\ program' = pre
  /\ hook' = "pre"
  /\ UNCHANGED <<fixedVars, held, ctx, tableVars, heap, phase, spans, countVars>>

\* Selecting the hooks of a function panics when it is first called: the engine is
\* told that there are none.
CallUnselected(fn) ==
  /\ PhpRuns
  /\ fn \in functions /\ Hooked(fn)
  /\ panics < MaxPanics /\ panics' = panics + 1
  /\ \A i \in 1 .. Here : frames[i].fn # fn
  /\ ignored' = IF observer_api THEN ignored \cup {fn} ELSE ignored
  /\ UNCHANGED <<observer_api, functions, frames, program, hook, held, ctx, tableVars, heap, phase,
                 spans, objects, requests, bailed, unwound>>

\* The function returns or throws: post_observe, run_post_hooks.
Return(post) ==
  /\ PhpRuns
  /\ frames # <<>>
  /\ post \in Post(Me.fn, Me.sub)
  /\ program' = post
  /\ hook' = "post"
  /\ UNCHANGED <<fixedVars, frames, held, ctx, tableVars, heap, phase, spans, countVars>>

\* A fatal error: PHP 7 leaves the frames without a post hook.  (PHP 8 ends the
\* observed calls one by one, which is Return.)
Bailout ==
  /\ PhpRuns
  /\ ~observer_api /\ frames # <<>>
  /\ frames' = <<>>
  /\ bailed' = "now"
  /\ UNCHANGED <<observer_api, functions, program, hook, held, ctx, tableVars, heap, ignored, phase,
                 spans, countVars, unwound>>

\* PHP code activates a span of its own, and detaches one.
UserAttach ==
  /\ PhpRuns
  /\ spans < MaxSpans
  /\ spans' = spans + 1
  /\ ctx' = Append(ctx, [by |-> "user", span |-> spans + 1])
  /\ UNCHANGED <<fixedVars, frames, program, hook, held, tableVars, heap, phase, countVars>>

UserDetach ==
  LET last == SelectLastInSeq(ctx, LAMBDA e : e.by = "user")
  IN  /\ PhpRuns
      /\ last # 0
      /\ ctx' = RemoveAt(ctx, last)
      /\ UNCHANGED <<fixedVars, frames, program, hook, held, tableVars, heap, phase, spans,
                     countVars>>

\* Objects come and go, and addresses are used again.
Allocate(a) ==
  /\ PhpRuns
  /\ heap[a].id = 0 /\ objects < MaxObjects
  /\ objects' = objects + 1
  /\ heap' = [heap EXCEPT ![a] = [id |-> objects + 1, described |-> FALSE]]
  /\ UNCHANGED <<fixedVars, frames, program, hook, held, ctx, tableVars, phase, spans,
                 panics, requests>>

Free(a) ==
  /\ PhpRuns
  /\ heap[a].id # 0
  /\ \A i \in 1 .. Here : frames[i].this # a
  /\ heap' = [heap EXCEPT ![a] = [id |-> 0, described |-> FALSE]]
  /\ UNCHANGED <<fixedVars, frames, program, hook, held, ctx, tableVars, phase, spans,
                 countVars>>

-----------------------------------------------------------------------------
(* The steps of a hook.                                                     *)

Step(name) == hook # "none" /\ program # <<>> /\ Head(program) = name

Rest == program' = Tail(program) /\ UNCHANGED hook

\* Mutant: the span is made current, but its guard is stored for nobody.
StartSpan_NoGuard ==
  /\ Step("start") /\ spans < MaxSpans
  /\ spans' = spans + 1
  /\ frames' = [frames EXCEPT ![Here].span = spans + 1]
  /\ ctx' = Append(ctx, [by |-> "hook", span |-> spans + 1])
  /\ Rest
  /\ UNCHANGED <<fixedVars, held, tableVars, heap, phase, countVars>>

\* start_and_activate_span; a guard left at this address is dropped by store_guard.
StartSpan ==
  /\ Step("start") /\ spans < MaxSpans
  /\ spans' = spans + 1
  /\ frames' = [frames EXCEPT ![Here].span = spans + 1]
  /\ ctx' = Without(Append(ctx, [by |-> "hook", span |-> spans + 1]), guard_map[Here])
  /\ guard_map' = [guard_map EXCEPT ![Here] = spans + 1]
  /\ Rest
  /\ UNCHANGED <<fixedVars, held, flags, connection_attrs, statement_attrs, heap, phase,
                 countVars>>

\* Mutant: the guard that take_guard returns is not kept until the hook ends.
TakeGuard_Dropped ==
  /\ Step("take") \/ Step("takemarked")
  /\ guard_map' = [guard_map EXCEPT ![Here] = 0]
  /\ ctx' = Without(ctx, guard_map[Here])
  /\ Rest
  /\ UNCHANGED <<fixedVars, frames, held, flags, connection_attrs, statement_attrs, heap, 
                 phase, spans, countVars>>

\* take_guard, which zf1 calls for a marked call only.
TakeGuard ==
  /\ Step("take") \/ Step("takemarked")
  /\ IF Step("take") \/ flags[Here] = "true"
     THEN held' = guard_map[Here] /\ guard_map' = [guard_map EXCEPT ![Here] = 0]
     ELSE UNCHANGED <<held, guard_map>>
  /\ Rest
  /\ UNCHANGED <<fixedVars, frames, ctx, flags, connection_attrs, statement_attrs, heap, 
                 phase, spans, countVars>>

\* set_exec_data_flag
SetFlag ==
  /\ Step("mark") \/ Step("unmarked")
  /\ flags' = [flags EXCEPT ![Here] = IF Step("mark") THEN "true" ELSE "false"]
  /\ Rest
  /\ UNCHANGED <<fixedVars, frames, held, ctx, guard_map, connection_attrs, statement_attrs, heap,
                 phase, spans, countVars>>

\* Mutant: the flag is read and stays.
RemoveFlag_Not ==
  /\ Step("unmark") \/ Step("unmarkstop")
  /\ program' = IF Step("unmarkstop") /\ flags[Here] # "true" THEN <<>> ELSE Tail(program)
  /\ UNCHANGED <<fixedVars, hook, frames, held, ctx, tableVars, heap, phase, spans,
                 countVars>>

\* remove_exec_data_flag; symfony's hook returns when the call was not marked.
RemoveFlag ==
  /\ Step("unmark") \/ Step("unmarkstop")
  /\ flags' = [flags EXCEPT ![Here] = "none"]
  /\ program' = IF Step("unmarkstop") /\ flags[Here] # "true" THEN <<>> ELSE Tail(program)
  /\ UNCHANGED <<fixedVars, hook, frames, held, ctx, guard_map, connection_attrs, statement_attrs,
                 heap, phase, spans, countVars>>

\* record_exception, set_status, set_attributes, add_link on the current span; the
\* framework's name, the name of the route or an exception on the root span.
RecordOutcome ==
  /\ Step("outcome") \/ Step("enclosing") \/ Step("onroot")
  /\ Rest
  /\ UNCHANGED <<fixedVars, frames, held, ctx, tableVars, heap, phase, spans, countVars>>

\* CONNECTION_ATTRS.insert
StoreConnection ==
  /\ Step("connection")
  /\ connection_attrs' = [connection_attrs EXCEPT ![PluginOf(Me.fn)][Me.this] = heap[Me.this].id]
  /\ Rest
  /\ UNCHANGED <<fixedVars, frames, held, ctx, guard_map, flags, statement_attrs, heap, 
                 phase, spans, countVars>>

\* Mutant: an entry that exists is kept.
Stored_Kept(old, id) == IF old = 0 THEN id ELSE old

Stored(old, id) == id

\* STATEMENT_ATTRS.insert, with the link to the connection found by its address.
StoreStatement ==
  LET a == Me.this
      p == PluginOf(Me.fn)
  IN  /\ Step("statement")
      /\ statement_attrs' = [statement_attrs EXCEPT ![p][a] = Stored(@, heap[a].id)]
      /\ heap' = [heap EXCEPT ![a].described = TRUE]
      /\ Rest
      /\ UNCHANGED <<fixedVars, frames, held, ctx, guard_map, flags, connection_attrs, 
                     phase, spans, countVars>>

\* STATEMENT_ATTRS.get: name, attributes and link of the span of an execution.
DescribeExecution ==
  /\ Step("describe")
  /\ Rest
  /\ UNCHANGED <<fixedVars, frames, held, ctx, tableVars, heap, phase, spans, countVars>>

\* The hook ends, and what it holds goes.  After a post hook the frame is gone.
LeaveHook(panicking) ==
  /\ hook # "none"
  /\ hook' = "none" /\ program' = <<>> /\ held' = 0
  /\ ctx' = IF held = 0 THEN ctx ELSE Without(ctx, held)
  /\ frames' = IF hook = "post" THEN Front(frames)
               ELSE [frames EXCEPT ![Here].cut = panicking]
  /\ UNCHANGED <<fixedVars, tableVars, heap, phase, spans, objects, requests>>

HookReturns == program = <<>> /\ LeaveHook(FALSE) /\ UNCHANGED panics

\* A step panics: contain() swallows it and no later step of this hook runs.
HookPanics ==
  /\ program # <<>>
  /\ panics < MaxPanics /\ panics' = panics + 1
  /\ LeaveHook(TRUE)

-----------------------------------------------------------------------------
(* RSHUTDOWN.                                                               *)

RequestEnds ==
  /\ PhpRuns /\ frames = <<>>
  /\ phase' = "idle"
  /\ heap' = [a \in Addrs |-> [id |-> 0, described |-> FALSE]]
  /\ spans' = 0
  /\ UNCHANGED <<observer_api, functions, ignored, frames, program, hook, held, flags, countVars>>

\* clear_context_storage, then request_shutdown of every plugin; the flags of
\* execute_data are not cleared.
RequestShutdown ==
  /\ RequestEnds
  /\ ctx' = <<>> /\ guard_map' = NoFrames
  /\ connection_attrs' = NoAttrs /\ statement_attrs' = NoAttrs
  /\ bailed' = (IF bailed = "no" THEN "no" ELSE "before") /\ unwound' = FALSE

\* RSHUTDOWN unwinds at its beginning: the tables keep what they have.
RequestShutdownPanics ==
  /\ RequestEnds
  /\ ~unwound
  /\ unwound' = TRUE
  /\ UNCHANGED <<ctx, guard_map, connection_attrs, statement_attrs, bailed>>

Next ==
  \/ RequestInit
  \/ \E fn \in functions, this \in Addrs \cup {0}, sub \in BOOLEAN :
       \E pre \in Pre(fn) : Call(fn, this, sub, pre)
  \/ \E fn \in functions : CallUnselected(fn)
  \/ frames # <<>> /\ \E post \in Post(Me.fn, Me.sub) : Return(post)
  \/ Bailout
  \/ UserAttach \/ UserDetach
  \/ \E a \in Addrs : Allocate(a) \/ Free(a)
  \/ StartSpan \/ TakeGuard \/ SetFlag \/ RemoveFlag \/ RecordOutcome
  \/ StoreConnection \/ StoreStatement \/ DescribeExecution
  \/ HookReturns \/ HookPanics
  \/ RequestShutdown \/ RequestShutdownPanics

Spec == Init /\ [][Next]_vars

-----------------------------------------------------------------------------
(* Properties.                                                              *)

\* Every variable has its type.
TypeOK ==
  /\ observer_api \in BOOLEAN /\ functions \in Applications
  /\ \A i \in 1 .. Here : /\ frames[i].fn \in functions
                          /\ frames[i].this \in Addrs \cup {0}
                          /\ frames[i].span \in 0 .. MaxSpans
  /\ Here <= MaxDepth
  /\ hook \in {"none", "pre", "post"} /\ held \in 0 .. MaxSpans
  /\ guard_map \in [Depths -> 0 .. MaxSpans]
  /\ flags \in [Depths -> {"true", "false", "none"}]
  /\ \A p \in {"laminas", "zf1"}, a \in Addrs :
       connection_attrs[p][a] \in 0 .. objects /\ statement_attrs[p][a] \in 0 .. objects
  /\ ignored \subseteq functions
  /\ phase \in {"idle", "running"}

\* Nothing has gone wrong in this process that the hooks cannot make good.
Undisturbed == panics = 0 /\ bailed # "now" /\ ~unwound

\* What a post hook records (exception, exit code, response status) lands on the span
\* its own pre hook started, although it asks for the current span.  (Not so when the
\* hooked function leaves a scope of PHP code open: then that scope's span gets it.)
OutcomeOnOwnSpan ==
  /\ Step("outcome") /\ Undisturbed /\ Me.span # 0
  /\ ctx # <<>> /\ Last(ctx).by # "user"
  => CurrentSpan = Me.span

\* Calls whose pre hook has started a span.
StartedFrames ==
  [fn : AllFunctions, this : Addrs \cup {0}, sub : BOOLEAN, span : 1 .. MaxSpans, cut : BOOLEAN]

\* The contexts of hooks nest like their calls: those on the context stack are the
\* spans of the calls in progress, oldest first.
HookContextsNest ==
  LET on      == Keep(ctx, HookContexts)
      started == Keep(frames, StartedFrames)
  IN  Undisturbed =>
        /\ Len(on) = Len(started)
        /\ \A i \in 1 .. Len(started) : on[i].span = started[i].span

\* Guards and flags are kept for calls in progress only, so a later call at the same
\* address never meets those of an earlier one.  (A fatal error leaves flags for good.)
TablesFollowFrames ==
  Undisturbed =>
    \A d \in Depths : d > Here => guard_map[d] = 0 /\ (bailed = "no" => flags[d] = "none")

\* A panic in a hook costs at most the guard of its own call: every other call in
\* progress still has its span on the context stack, to be released by its post hook.
PanicIsLocal ==
  bailed # "now" /\ ~unwound =>
    \A i \in 1 .. Here :
      frames[i].span # 0 /\ ~frames[i].cut =>
        \/ guard_map[i] = frames[i].span
        \/ i = Here /\ held = frames[i].span
        \/ i = Here /\ hook = "post"

\* A statement that was prepared under a hook is described by its own entry, also when
\* its address belonged to another statement before.
StatementDescribesItself ==
  \A a \in Addrs :
    heap[a].id # 0 /\ heap[a].described =>
      \E p \in {"laminas", "zf1"} : statement_attrs[p][a] = heap[a].id

\* Nothing a request left in the tables reaches the next one, once RSHUTDOWN has run.
CleanBetweenRequests ==
  phase = "idle" /\ ~unwound =>
    ctx = <<>> /\ guard_map = NoFrames /\ connection_attrs = NoAttrs /\ statement_attrs = NoAttrs

\* Guards, flags and contexts belong to the calls in progress, and nothing else: they
\* nest like the calls, no table keeps an entry for a call that has returned, and a
\* request leaves none behind.
StateFollowsCalls == TypeOK /\ HookContextsNest /\ TablesFollowFrames /\ CleanBetweenRequests
=============================================================================
