--------------------------- MODULE ContextStorage ---------------------------
(***************************************************************************)
(* The current context of a PHP request: src/otel/src/context/storage.rs,  *)
(* the Scope and Context classes on top of it, the request's root span     *)
(* (src/otel/src/request.rs), the local root span and the guards of the    *)
(* automatic instrumentation (src/otel/src/auto/utils.rs).                 *)
(*                                                                         *)
(* All of it is thread-local state of one PHP thread, so a call is one     *)
(* action.  What goes wrong here goes wrong over long sequences of calls:  *)
(* the same context is on a PHP stack, in a table of instances and on the  *)
(* context stack of the Rust SDK, and scopes, executions, hooked functions *)
(* and requests begin and end in any order.                                *)
(*                                                                         *)
(* A native context is named by the span it carries.  The Rc in a stack    *)
(* entry (id, Rc) is ctx_of[id]: an id is given to one context for good.   *)
(***************************************************************************)
EXTENDS Integers, SequencesExt, Filters

CONSTANTS
  Executions,         \* ids given to Storage::fork
  Main,               \* CURRENT_EXECUTION is None
  Frames,             \* execute_data of hooked functions
  MaxIds,             \* bound: context instances
  MaxScopes,          \* bound: scope objects of a request
  MaxRequests         \* bound: requests served by this thread

ASSUME ContextAssumption ==
  /\ Main \notin Executions
  /\ MaxIds \in Nat /\ MaxScopes \in Nat /\ MaxRequests \in Nat

VARIABLES
  ctx_of,             \* the context each id was given to; INSTANCE_COUNTER is its length
  context_storage,    \* CONTEXT_STORAGE: ids in it
  detached_storage,   \* DETACHED_SPAN_STORAGE: ids in it
  guard_stack,        \* GUARD_STACK: ids, the guards being in attached
  main_stack,         \* MAIN_STACK: ids
  fork_stacks,        \* FORK_STACKS: execution id -> stack of ids
  current_execution,  \* CURRENT_EXECUTION
  guard_map,          \* CONTEXT_GUARD_MAP: frames in it
  attached,           \* guards on the Rust SDK's context stack, oldest first
  local_root,         \* LOCAL_ROOT_SPAN_ID, 0 for None
  request_id,         \* OTEL_CONTEXT_ID, 0 for None; OTEL_REQUEST_GUARD is set with it
  recording,          \* root spans that are sampled and have not ended
  phase,              \* "idle" between requests, "running"
  requests,           \* requests begun
  scopes,             \* the Scope objects of this request
  held,               \* contexts a PHP variable holds
  panicked            \* history: the last RSHUTDOWN unwound

tableVars   == <<context_storage, detached_storage>>
stackVars   == <<main_stack, fork_stacks, current_execution>>
requestVars == <<local_root, request_id, recording>>
phpVars     == <<scopes, held>>
phaseVars   == <<phase, requests, panicked>>

vars == <<ctx_of, tableVars, guard_stack, stackVars, guard_map, attached,
          requestVars, phpVars, phaseVars>>

-----------------------------------------------------------------------------
(* Contexts, by the span they carry.                                        *)

NoSpan      == 0     \* no valid span context
PassiveSpan == -1    \* valid, records nothing: a PHP span, or an unsampled one
HookSpan    == -2    \* the recording span of a hooked function
\* n > 0 is the root span of the request whose root context has id n.

Ids == 1 .. Len(ctx_of)

Contexts == {NoSpan, PassiveSpan, HookSpan} \cup Ids

\* span_context().is_valid() && is_recording()
Recording(ctx) == ctx = HookSpan \/ ctx \in recording

\* get_context_instance finds the id.
Stored(id) == id \in context_storage \cup detached_storage

\* store_context_instance: the id that the next context gets.
NextId == Len(ctx_of) + 1

Pop(stack) == SubSeq(stack, 1, Len(stack) - 1)

IdsOn(stack) == {stack[i] : i \in 1 .. Len(stack)}

-----------------------------------------------------------------------------
(* The Rust SDK's context stack.  A guard may be dropped out of order; the   *)
(* current context is that of the latest guard not dropped yet.              *)

Guard(by, key, ctx) == [by |-> by, key |-> key, ctx |-> ctx]

ScopeGuard(id) == Guard("scope", id, ctx_of[id])

\* The guards by who holds them: GUARD_STACK, CONTEXT_GUARD_MAP, OTEL_REQUEST_GUARD.
ScopeGuards   == [by : {"scope"}, key : Nat, ctx : Int]
HookGuards    == [by : {"hook"}, key : Frames, ctx : Int]
RequestGuards == [by : {"request"}, key : Nat, ctx : Int]

RustCurrent == IF attached = <<>> THEN NoSpan ELSE Last(attached).ctx

\* The guard of the topmost scope with this id is dropped.
DropScope(guards, id) ==
  RemoveAt(guards, SelectLastInSeq(guards, LAMBDA g : g.by = "scope" /\ g.key = id))

\* The oldest guard held in this place is dropped, if there is one.
DropOldest(guards, by) == RemoveFirstMatch(guards, LAMBDA g : g.by = by)

DropHook(guards, frame) ==
  RemoveFirstMatch(guards, LAMBDA g : g.by = "hook" /\ g.key = frame)

-----------------------------------------------------------------------------
(* The active stack.                                                        *)

\* with_active_stack; a fork without a stack gets an empty one.
StackOf(execution) ==
  IF execution = Main THEN main_stack
  ELSE IF execution \in DOMAIN fork_stacks THEN fork_stacks[execution] ELSE <<>>

Active == StackOf(current_execution)

\* Mutant: the stack of the main execution is written whatever is active.
SetActive_MainOnly(stack) == main_stack' = stack /\ UNCHANGED fork_stacks

SetActive(stack) ==
  IF current_execution = Main
  THEN main_stack' = stack /\ UNCHANGED fork_stacks
  ELSE /\ fork_stacks' = [e \in DOMAIN fork_stacks \cup {current_execution} |->
                            IF e = current_execution THEN stack ELSE fork_stacks[e]]
       /\ UNCHANGED main_stack

\* current_context
CurrentContext == IF Active # <<>> THEN ctx_of[Last(Active)] ELSE RustCurrent

Init ==
  /\ ctx_of = <<>>
  /\ context_storage = {} /\ detached_storage = {}
  /\ guard_stack = <<>> /\ main_stack = <<>>
  /\ fork_stacks = [e \in {} |-> <<>>]
  /\ current_execution = Main
  /\ guard_map = {} /\ attached = <<>>
  /\ local_root = 0 /\ request_id = 0 /\ recording = {}
  /\ phase = "idle" /\ requests = 0
  /\ scopes = <<>> /\ held = {}
  /\ panicked = FALSE

-----------------------------------------------------------------------------
(* Requests.                                                                *)

\* RINIT without a root span: disabled, or a CLI that does not ask for one.
RequestInitPlain ==
  /\ phase = "idle"
  /\ requests < MaxRequests
  /\ phase' = "running"
  /\ requests' = requests + 1
  /\ UNCHANGED <<ctx_of, tableVars, guard_stack, stackVars, guard_map, attached,
                 requestVars, phpVars, panicked>>

\* RINIT with a root span.  A guard left in OTEL_REQUEST_GUARD is dropped when the
\* new one, already attached, replaces it.
RequestInitRoot(sampled) ==
  /\ phase = "idle"
  /\ requests < MaxRequests
  /\ NextId <= MaxIds
  /\ ctx_of' = Append(ctx_of, NextId)
  /\ context_storage' = context_storage \cup {NextId}
  /\ recording' = IF sampled THEN recording \cup {NextId} ELSE recording
  /\ request_id' = NextId
  /\ local_root' = IF RustCurrent = NoSpan THEN NextId ELSE local_root
  /\ attached' = Append(DropOldest(attached, "request"),
                        Guard("request", NextId, NextId))
  /\ phase' = "running"
  /\ requests' = requests + 1
  /\ UNCHANGED <<detached_storage, guard_stack, stackVars, guard_map, phpVars, panicked>>

\* Mutant: clear_context_storage leaves CONTEXT_GUARD_MAP alone.
Released_ForgetsHooks(g) ==
  \/ g.by = "scope" /\ g.key \in IdsOn(guard_stack)
  \/ g.by = "request" /\ request_id # 0

\* Guards that shutdown() and clear_context_storage drop.
Released(g) ==
  \/ g.by = "scope" /\ g.key \in IdsOn(guard_stack)
  \/ g.by = "hook" /\ g.key \in guard_map
  \/ g.by = "request" /\ request_id # 0

\* RSHUTDOWN.  When the root context is not to be found, shutdown() returns early
\* and clears nothing; clear_request_state runs in any case.  PHP frees the
\* objects of the request afterwards.
RequestShutdown ==
  LET lost == request_id # 0 /\ ~Stored(request_id)
  IN  /\ phase = "running"
      /\ recording' = IF lost THEN recording ELSE recording \ {request_id}
      /\ request_id' = 0
      /\ local_root' = 0
      /\ context_storage' = IF lost THEN context_storage ELSE {}
      /\ detached_storage' = IF lost THEN detached_storage ELSE {}
      /\ guard_stack' = IF lost THEN guard_stack ELSE <<>>
      /\ main_stack' = IF lost THEN main_stack ELSE <<>>
      /\ fork_stacks' = IF lost THEN fork_stacks ELSE [e \in {} |-> <<>>]
      /\ current_execution' = IF lost THEN current_execution ELSE Main
      /\ guard_map' = IF lost THEN guard_map ELSE {}
      /\ attached' = IF lost THEN attached
                     ELSE Keep(attached, {g \in Range(attached) : ~Released(g)})
      /\ scopes' = <<>>
      /\ held' = {}
      /\ phase' = "idle"
      /\ panicked' = FALSE
      /\ UNCHANGED <<ctx_of, requests>>

\* RSHUTDOWN unwinds in flush_and_clear_request_callbacks and is contained.
RequestShutdownPanics ==
  /\ phase = "running"
  /\ scopes' = <<>>
  /\ held' = {}
  /\ phase' = "idle"
  /\ panicked' = TRUE
  /\ UNCHANGED <<ctx_of, tableVars, guard_stack, stackVars, guard_map, attached,
                 requestVars, requests>>

-----------------------------------------------------------------------------
(* Scopes.                                                                  *)

Running == phase = "running"

NewScope(id) ==
  [id |-> id, execution |-> current_execution, detached |-> FALSE]

\* attach_context
AttachId(id, ctx) ==
  /\ attached' = Append(attached, Guard("scope", id, ctx))
  /\ SetActive(Append(Active, id))
  /\ guard_stack' = Append(guard_stack, id)
  /\ scopes' = Append(scopes, NewScope(id))
  /\ UNCHANGED <<detached_storage, current_execution, guard_map, requestVars, held,
                 phaseVars>>

\* Context::getCurrent, Storage::current
Capture ==
  /\ Running
  /\ CurrentContext \notin held
  /\ held' = held \cup {CurrentContext}
  /\ UNCHANGED <<ctx_of, tableVars, guard_stack, stackVars, guard_map, attached,
                 requestVars, scopes, phaseVars>>

\* Context::activate, and Storage::attach of a context that has no id yet: a root
\* context, one made by Span::storeInContext, or one derived from a context held.
Activate(ctx) ==
  /\ Running
  /\ Len(scopes) < MaxScopes
  /\ NextId <= MaxIds
  /\ ctx \in {NoSpan, PassiveSpan} \cup held
  /\ ctx_of' = Append(ctx_of, ctx)
  /\ context_storage' = context_storage \cup {NextId}
  /\ AttachId(NextId, ctx)

\* Mutant: the root context's id is handed out like that of the active one.
KnownIds_WithRoot ==
  {scopes[k].id : k \in 1 .. Len(scopes)} \cup {Last(Active) : i \in 1 .. Len(Active)}
  \cup ({request_id} \ {0})

\* context_id of the Context objects user code can have.
KnownIds ==
  {scopes[k].id : k \in 1 .. Len(scopes)} \cup {Last(Active) : i \in 1 .. Len(Active)}

\* Storage::attach of a context that has an id, which is used again while it can
\* still be found.
AttachAgain(id) ==
  /\ Running
  /\ Len(scopes) < MaxScopes
  /\ id \in KnownIds
  /\ IF Stored(id)
     THEN /\ AttachId(id, ctx_of[id])
          /\ UNCHANGED <<ctx_of, context_storage>>
     ELSE /\ NextId <= MaxIds
          /\ ctx_of' = Append(ctx_of, ctx_of[id])
          /\ context_storage' = context_storage \cup {NextId}
          /\ AttachId(NextId, ctx_of[id])

\* Storage::scope: another Scope object for what is on top.
StorageScope ==
  /\ Running
  /\ Active # <<>>
  /\ Len(scopes) < MaxScopes
  /\ scopes' = Append(scopes, NewScope(Last(Active)))
  /\ UNCHANGED <<ctx_of, tableVars, guard_stack, stackVars, guard_map, attached,
                 requestVars, held, phaseVars>>

\* Scope::detach when it returns 0: a scope that is detached already, belongs to
\* another execution (INACTIVE) or is not on top (MISMATCH) changes nothing.
Detach(k) ==
  LET id == scopes[k].id
  IN  /\ Running
      /\ ~scopes[k].detached
      /\ scopes[k].execution = current_execution
      /\ guard_stack # <<>>
      /\ Last(guard_stack) = id
      /\ guard_stack' = Pop(guard_stack)
      /\ attached' = DropScope(attached, id)
      /\ IF Active # <<>> /\ Last(Active) = id
         THEN SetActive(Pop(Active))
         ELSE UNCHANGED <<main_stack, fork_stacks>>
      /\ context_storage' = context_storage \ {id}
      /\ detached_storage' = IF id \in context_storage /\ Recording(ctx_of[id])
                             THEN detached_storage \cup {id} ELSE detached_storage
      /\ local_root' = IF id = local_root THEN 0 ELSE local_root
      /\ scopes' = [scopes EXCEPT ![k].detached = TRUE]
      /\ UNCHANGED <<ctx_of, current_execution, guard_map, request_id, recording, held,
                     phaseVars>>

-----------------------------------------------------------------------------
(* Executions (fibers, coroutines).                                         *)

Fork(e) ==
  /\ Running
  /\ fork_stacks' = [x \in DOMAIN fork_stacks \cup {e} |->
                       IF x = e THEN Active ELSE fork_stacks[x]]
  /\ UNCHANGED <<ctx_of, tableVars, guard_stack, main_stack, current_execution,
                 guard_map, attached, requestVars, phpVars, phaseVars>>

\* Mutant: GUARD_STACK keeps the ids of the execution that is left.
GuardsFor_Kept(stack) == guard_stack

GuardsFor(stack) == stack

\* Mutant: the ids are pushed but their contexts are not attached again.
Reattached_Not(stack) == Keep(attached, HookGuards \cup RequestGuards)

\* All scope guards are dropped, then those of the other stack are attached.
Reattached(stack) ==
  Keep(attached, HookGuards \cup RequestGuards)
  \o [i \in 1 .. Len(stack) |-> ScopeGuard(stack[i])]

\* switch_execution; an id that was not forked stands for the main execution.
Switch(x) ==
  /\ Running
  /\ x = Main \/ x \in DOMAIN fork_stacks
  /\ guard_stack' = GuardsFor(StackOf(x))
  /\ attached' = Reattached(StackOf(x))
  /\ current_execution' = x
  /\ UNCHANGED <<ctx_of, tableVars, main_stack, fork_stacks, guard_map, requestVars,
                 phpVars, phaseVars>>

\* destroy_execution; nothing is done for the current one.
Destroy(e) ==
  /\ Running
  /\ e \in DOMAIN fork_stacks
  /\ e # current_execution
  /\ fork_stacks' = [x \in DOMAIN fork_stacks \ {e} |-> fork_stacks[x]]
  /\ UNCHANGED <<ctx_of, tableVars, guard_stack, main_stack, current_execution,
                 guard_map, attached, requestVars, phpVars, phaseVars>>

-----------------------------------------------------------------------------
(* Hooked functions and the local root span.                                *)

\* start_and_activate_span; a guard left under the same execute_data is dropped
\* when the new one, already attached, replaces it.
PreHook(f, ctx) ==
  /\ Running
  /\ attached' = Append(DropHook(attached, f), Guard("hook", f, ctx))
  /\ guard_map' = guard_map \cup {f}
  /\ UNCHANGED <<ctx_of, tableVars, guard_stack, stackVars, requestVars, phpVars,
                 phaseVars>>

\* take_guard.  With fibers, hooked functions return in any order.
PostHook(f) ==
  /\ Running
  /\ f \in guard_map
  /\ attached' = DropHook(attached, f)
  /\ guard_map' = guard_map \ {f}
  /\ UNCHANGED <<ctx_of, tableVars, guard_stack, stackVars, requestVars, phpVars,
                 phaseVars>>

\* LocalRootSpan::current()->end()
EndLocalRoot ==
  /\ Running
  /\ local_root \in recording
  /\ Stored(local_root)
  /\ recording' = recording \ {local_root}
  /\ UNCHANGED <<ctx_of, tableVars, guard_stack, stackVars, guard_map, attached,
                 local_root, request_id, phpVars, phaseVars>>

Next ==
  \/ RequestInitPlain
  \/ \E sampled \in BOOLEAN : RequestInitRoot(sampled)
  \/ RequestShutdown \/ RequestShutdownPanics
  \/ Capture
  \/ \E ctx \in Contexts : Activate(ctx)
  \/ \E id \in Ids : AttachAgain(id)
  \/ StorageScope
  \/ \E k \in 1 .. Len(scopes) : Detach(k)
  \/ \E e \in Executions : Fork(e) \/ Destroy(e)
  \/ \E x \in Executions \cup {Main} : Switch(x)
  \/ \E f \in Frames : PostHook(f) \/ \E ctx \in {HookSpan, PassiveSpan} : PreHook(f, ctx)
  \/ EndLocalRoot

Spec == Init /\ [][Next]_vars

-----------------------------------------------------------------------------
(* Properties.                                                              *)

\* A stack of ids that are at most n.
Known(stack, n) == stack \in Seq(Nat) /\ \A i \in 1 .. Len(stack) : stack[i] \in 1 .. n

ScopeObjects == [id : Nat, execution : Executions \cup {Main}, detached : BOOLEAN]

\* Ids on the stacks and in the Scope objects were given out.
IdTypes ==
  /\ ctx_of \in Seq(Int)
  /\ guard_stack \in Seq(Nat)
  /\ Known(main_stack, Len(ctx_of))
  /\ DOMAIN fork_stacks \subseteq Executions
  /\ \A e \in DOMAIN fork_stacks : Known(fork_stacks[e], Len(ctx_of))
  /\ current_execution = Main \/ current_execution \in DOMAIN fork_stacks
  /\ scopes \in Seq(ScopeObjects)
  /\ \A k \in 1 .. Len(scopes) : scopes[k].id \in Ids
  /\ request_id \in 0 .. Len(ctx_of)

\* Contexts carry known spans, and what is stored was given out.
ValueTypes ==
  /\ \A id \in Ids : ctx_of[id] \in Contexts
  /\ context_storage \subseteq Ids /\ detached_storage \subseteq Ids
  /\ guard_map \subseteq Frames
  /\ local_root \in 0 .. Len(ctx_of) /\ recording \subseteq Ids
  /\ phase \in {"idle", "running"} /\ requests \in Nat /\ panicked \in BOOLEAN
  /\ held \subseteq Contexts

\* Type invariant.  Every id on a stack, in a table or in a Scope object was given
\* out before, contexts carry known spans, and the current execution has a stack.
TypeOK == IdTypes /\ ValueTypes

\* The guards that keep contexts attached are those of the active stack, entry by
\* entry, through every attach, detach, fork, switch and destroy: a detach that
\* pops one pops the other.
StacksAgree == guard_stack = Active

\* The SDK's own context stack holds what PHP's scopes, open hooks and the request
\* hold, in the order of the scopes, and nothing else: spans of hooked functions
\* get the parent that user code activated, however scopes and hooks overlap.
RustFollowsPhp ==
  /\ Keep(attached, ScopeGuards)
       = [i \in 1 .. Len(guard_stack) |-> ScopeGuard(guard_stack[i])]
  /\ {g.key : g \in {attached[i] : i \in {j \in 1 .. Len(attached) : attached[j].by = "hook"}}}
       = guard_map
  /\ Len(attached) = Len(guard_stack) + Cardinality(guard_map)
                     + (IF request_id # 0 THEN 1 ELSE 0)

\* Whatever user code attaches and detaches, RSHUTDOWN finds the root context, so
\* it ends the root span and clears the request's state.
RootStaysStored == request_id # 0 => Stored(request_id)

\* No context, scope, execution or attached span of a request is left for the next
\* one, also when an earlier RSHUTDOWN unwound.
CleanBetweenRequests ==
  phase = "idle" /\ ~panicked =>
    /\ context_storage = {} /\ detached_storage = {}
    /\ guard_stack = <<>> /\ main_stack = <<>> /\ DOMAIN fork_stacks = {}
    /\ current_execution = Main
    /\ guard_map = {} /\ attached = <<>>
    /\ local_root = 0 /\ request_id = 0

\* A request with a root span has it as its local root: attributes that framework
\* hooks add to the local root go to this request's span.  (Not so in the request
\* after an RSHUTDOWN that unwound: the old root context is still attached.)
LocalRootIsThisRequest ==
  phase = "running" /\ request_id # 0 /\ ~panicked => local_root = request_id

\* Requests are isolated from one another: tables and stacks hold what this request
\* gave out, nothing is left when it is over, and its root span is its local root.
RequestsIsolated == TypeOK /\ CleanBetweenRequests /\ LocalRootIsThisRequest

OnlyActiveChanges ==
  phase = "running" /\ phase' = "running" =>
    /\ main_stack' = main_stack \/ current_execution = Main
    /\ \A e \in DOMAIN fork_stacks \cap DOMAIN fork_stacks' :
         \/ fork_stacks'[e] = fork_stacks[e]
         \/ e = current_execution
         \/ fork_stacks'[e] = Active

\* A call made in one execution leaves the stacks of the others alone, except that
\* fork replaces a stack by a copy of the active one.
ForksIsolated == [][OnlyActiveChanges]_vars
=============================================================================
