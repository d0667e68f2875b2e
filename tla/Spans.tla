------------------------------- MODULE Spans -------------------------------
(***************************************************************************)
(* The tracing API a PHP script sees: tracer, span builder, the three      *)
(* kinds of span object, the spans a context carries and the local root    *)
(* span (src/otel/src/trace/tracer.rs, span_builder.rs, span.rs,           *)
(* non_recording_span.rs, span_context.rs, local_root_span.rs and          *)
(* src/otel/src/context/native_context.rs, context_class.rs).              *)
(*                                                                         *)
(* The same span is in several places at once: an SDK span lives inside a  *)
(* PHP object, inside a Rust context, or is only named by a span context;  *)
(* a context carries a native span, used for parents and injection, and a  *)
(* PHP span object, handed to the script.  One request thread runs all of  *)
(* it, a call is one action, and an SDK span ends when the last PHP        *)
(* object that owns it is freed.  Executions are in ContextStorage.        *)
(***************************************************************************)
EXTENDS Integers, SequencesExt, FiniteSetsExt

CONSTANTS
  MaxSpans,        \* bound: SDK spans started
  MaxIds,          \* bound: context instances stored
  MaxCalls,        \* bound: calls of the script in a request
  MaxHeld,         \* bound: span objects in PHP variables
  MaxRequests      \* bound: requests served

VARIABLES
  enabled,         \* the tracer is not that of a no-op provider
  spans,           \* SDK spans in the order they started
  stored,          \* CONTEXT_STORAGE and DETACHED_SPAN_STORAGE: id -> context
  detached,        \* the ids that are in DETACHED_SPAN_STORAGE
  last_id,         \* INSTANCE_COUNTER
  stack,           \* MAIN_STACK: (id, context); GUARD_STACK follows it
  guards,          \* native contexts attached in the Rust SDK, oldest first
  local_root,      \* LOCAL_ROOT_SPAN_ID, 0 for None
  request,         \* OTEL_CONTEXT_ID, 0 for None
  running,         \* a request is being served
  requests,        \* requests begun
  held,            \* span objects in PHP variables
  saved,           \* a context in a PHP variable
  builder,         \* a span builder in a PHP variable
  chain,           \* history: the span objects of the open scopes, innermost last
  ended,           \* history: spans that were ended by a call
  calls,           \* calls of the script in this request
  aimed,           \* history: open spans a script wrote to, by the span ids it saw
  plain            \* history: only spans have been activated, no saved context

tableVars  == <<enabled, stored, detached, last_id>>
activeVars == <<stack, guards>>
rootVars   == <<local_root, request, running, requests>>
phpVars    == <<held, saved, builder>>
histVars   == <<chain, ended, aimed, plain>>
vars == <<calls, spans, tableVars, activeVars, rootVars, phpVars, histVars>>

-----------------------------------------------------------------------------
(* Span contexts, span objects, contexts.                                   *)

Invalid == 0         \* SpanContext::empty_context
Inbound == -1        \* a span context with is_remote
\* n > 0 is the span context of SDK span n.

Object(kind, ref) == [kind |-> kind, ref |-> ref]

Null          == Object("null", 0)
Owned(n)      == Object("owned", n)       \* NativeSpan with Some(SdkSpan)
Bound(id)     == Object("bound", id)      \* context_bound_span: NativeSpan with a context_id
Passive(sc)   == Object("passive", sc)    \* NonRecordingSpan

Empty == [sc |-> Invalid, live |-> FALSE]

\* NativeContext: the Rust context and the two PHP values kept beside it; keyed is
\* history: the span value was set by with, and the Rust context not along with it.
Context(native, span, root) ==
  [native |-> native, span |-> span, root |-> root, keyed |-> FALSE]

Root == Context(Empty, Null, Null)        \* Context::getRoot

\* get_context_instance
Instance(id) == IF id \in DOMAIN stored THEN stored[id] ELSE Root

\* store_context_instance: the instance gets the next id.
StoreInstance(context) ==
  [id \in DOMAIN stored \cup {last_id + 1} |->
     IF id = last_id + 1 THEN context ELSE stored[id]]

\* getContext of a span object
SpanContextOf(object) ==
  IF object.kind = "bound" THEN Instance(object.ref).native.sc ELSE object.ref

\* The SDK span that a call on the object reaches, 0 for none.
Target(object) ==
  CASE object.kind = "owned" -> object.ref
    [] object.kind = "bound" /\ Instance(object.ref).native.live
         -> Instance(object.ref).native.sc
    [] OTHER -> 0

-----------------------------------------------------------------------------
(* The current context.                                                     *)

RustCurrent == IF guards = <<>> THEN Empty ELSE Last(guards).native

\* current_context_value, without a custom storage
Current ==
  IF stack # <<>> THEN Last(stack).context ELSE Context(RustCurrent, Null, Null)

\* span_from_context: the PHP span, else one wrapping the native span context.
SpanFrom(context) ==
  IF context.span # Null THEN context.span ELSE Passive(context.native.sc)

\* LocalRootSpan: from_context
LocalRootFrom(context) ==
  CASE context.root # Null -> context.root
    [] context.root = Null /\ local_root \in DOMAIN stored
         /\ context.native.sc = stored[local_root].native.sc -> Bound(local_root)
    [] OTHER -> Passive(Invalid)

\* Mutant: a remote span is taken for a local one.
StartsLocalRoot_Remote(context) ==
  context.span = Null \/ SpanContextOf(context.span) = Invalid

\* context_is_local_root, LocalRootSpan::isLocalRoot
StartsLocalRoot(context) ==
  context.span = Null \/ SpanContextOf(context.span) \in {Invalid, Inbound}

\* Mutant: an invalid span leaves the native span of the context alone.
StoreInContext_KeepsNative(object, context) ==
  Context(IF SpanContextOf(object) = Invalid THEN context.native
          ELSE [sc |-> SpanContextOf(object), live |-> FALSE],
          object,
          IF StartsLocalRoot(context) THEN object ELSE context.root)

\* Mutant: the PHP values are not carried over.
StoreInContext_NoValues(object, context) ==
  Context([sc |-> SpanContextOf(object), live |-> FALSE], Null, context.root)

\* NativeContext::with_value, under the two keys this module knows
WithSpan(context, value) ==
  [context EXCEPT !.span = value, !.keyed = (value # Null)]

WithRoot(context, value) == [context EXCEPT !.root = value]

\* storeInContext: the native span is named, never owned, by the new context.
StoreInContext(object, context) ==
  Context([sc |-> SpanContextOf(object), live |-> FALSE], object,
          IF StartsLocalRoot(context) THEN object ELSE context.root)

-----------------------------------------------------------------------------
(* SDK spans.  (External: the SDK exports a span when it ends first.)        *)

Span(parent, by) == [parent |-> parent, by |-> by, exports |-> 0, open |-> TRUE,
                       written |-> FALSE]

EndSpan(s) == IF s.open THEN [s EXCEPT !.open = FALSE, !.exports = @ + 1] ELSE s

Ending(ns, all) == [n \in DOMAIN all |-> IF n \in ns THEN EndSpan(all[n]) ELSE all[n]]

\* The contexts that are still referenced.
LiveContexts ==
  {stored[id] : id \in DOMAIN stored} \cup {stack[i].context : i \in DOMAIN stack}
    \cup {saved}

Referenced(n) ==
  Owned(n) \in held \cup UNION {{c.span, c.root} : c \in LiveContexts}

\* SdkSpan::drop: the span of an object nobody refers to any more has ended.
Freed == {n \in DOMAIN spans : spans[n].by = "php" /\ ~Referenced(n)'}

-----------------------------------------------------------------------------
(* Requests.                                                                *)

\* SpanBuilderState::new
NewBuilder == [parent |-> "current", native |-> Empty]

Init ==
  /\ enabled \in BOOLEAN
  /\ spans = <<>>
  /\ stored = << >> /\ detached = {} /\ last_id = 0
  /\ stack = <<>> /\ guards = <<>>
  /\ local_root = 0 /\ request = 0 /\ running = FALSE /\ requests = 0
  /\ held = {} /\ saved = Root /\ builder = NewBuilder
  /\ chain = <<>> /\ ended = {} /\ aimed = {} /\ calls = 0 /\ plain = TRUE

Guard(by, native) == [by |-> by, native |-> native]

\* request.rs: init without a root span (CLI)
RequestInitBare ==
  /\ ~running /\ requests < MaxRequests
  /\ running' = TRUE /\ requests' = requests + 1
  /\ UNCHANGED <<calls, spans, tableVars, activeVars, local_root, request, phpVars, histVars>>

\* request.rs: init with a root span, whose parent the request may have brought.
RequestInit(parent) ==
  LET n == Len(spans) + 1
      native == [sc |-> n, live |-> TRUE]
  IN /\ ~running /\ requests < MaxRequests
     /\ running' = TRUE /\ requests' = requests + 1
     /\ n <= MaxSpans
     /\ spans' = Append(spans, Span(parent, "request"))
     /\ last_id' = last_id + 1
     /\ stored' = StoreInstance(Context(native, Null, Null))
     /\ request' = last_id + 1
     /\ local_root' = IF RustCurrent.sc = Invalid THEN last_id + 1 ELSE local_root
     /\ guards' = Append(guards, Guard("request", native))
     /\ UNCHANGED <<calls, enabled, detached, stack, phpVars, histVars>>

\* The engine frees the script's variables, RSHUTDOWN ends the root span and clears
\* the tables; the spans of open hooks go with their guards.
RequestShutdown ==
  /\ running
  /\ running' = FALSE
  /\ held' = {} /\ saved' = Root
  /\ builder' = NewBuilder
  /\ stored' = << >> /\ detached' = {} /\ stack' = <<>> /\ guards' = <<>>
  /\ local_root' = 0 /\ request' = 0
  /\ chain' = <<>> /\ calls' = 0 /\ plain' = TRUE
  /\ UNCHANGED <<enabled, last_id, requests, ended, aimed>>
  /\ spans' = Ending(Freed
                       \cup {Target(Bound(request))} \cup {n \in DOMAIN spans : spans[n].by = "hook"},
                     spans)

\* start_and_activate_span
HookBegin ==
  LET n == Len(spans) + 1
  IN /\ running /\ n <= MaxSpans
     /\ spans' = Append(spans, Span(RustCurrent.sc, "hook"))
     /\ guards' = Append(guards, Guard("hook", [sc |-> n, live |-> TRUE]))
     /\ UNCHANGED <<tableVars, stack, rootVars, phpVars, histVars>>

\* The hooked function returns: its span ends and its guard, wherever it is, goes.
HookEnd ==
  \E i \in DOMAIN guards :
    /\ running
    /\ guards[i].by = "hook" /\ \A j \in i + 1 .. Len(guards) : guards[j].by # "hook"
    /\ spans' = Ending({guards[i].native.sc}, spans)
    /\ guards' = RemoveAt(guards, i)
    /\ ended' = ended \cup {guards[i].native.sc}
    /\ UNCHANGED <<tableVars, stack, rootVars, phpVars, chain, aimed, plain>>

-----------------------------------------------------------------------------
(* Tracer and builder.                                                      *)

\* Tracer::spanBuilder; the builder of a no-op tracer has no state to change.
SpanBuilder ==
  /\ running /\ enabled
  /\ builder' = NewBuilder
  /\ UNCHANGED <<spans, tableVars, activeVars, rootVars, held, saved, histVars>>

\* setParent(null), setParent(false), setParent($saved)
SetParent(parent) ==
  /\ running /\ enabled
  /\ builder' = [builder EXCEPT !.parent = parent,
                   !.native = IF parent = "explicit" THEN saved.native ELSE Empty]
  /\ UNCHANGED <<spans, tableVars, activeVars, rootVars, held, saved, histVars>>

\* Mutant: the parent is the SDK's current context, not the script's.
BuilderParent_Rust ==
  CASE builder.parent = "current"  -> RustCurrent
    [] builder.parent = "root"     -> Empty
    [] builder.parent = "explicit" -> builder.native

BuilderParent ==
  CASE builder.parent = "current"  -> Current.native
    [] builder.parent = "root"     -> Empty
    [] builder.parent = "explicit" -> builder.native

Hold(objects) == held' = held \cup objects /\ Cardinality(held') <= MaxHeld

\* startSpan
StartSpan ==
  /\ running
  /\ IF enabled
     THEN /\ Len(spans) < MaxSpans
          /\ spans' = Append(spans, Span(BuilderParent.sc, "php"))
          /\ Hold({Owned(Len(spans) + 1)})
     ELSE Hold({Passive(Invalid)}) /\ UNCHANGED spans
  /\ UNCHANGED <<tableVars, activeVars, rootVars, saved, builder, histVars>>

-----------------------------------------------------------------------------
(* Span objects.                                                            *)

\* Span::getCurrent, LocalRootSpan::current, fromContext of a saved context, wrap of
\* a remote span context, getInvalid: the object goes into a variable.
Obtain ==
  /\ running
  /\ \E object \in {SpanFrom(Current), LocalRootFrom(Current), SpanFrom(saved),
                    LocalRootFrom(saved), Passive(Inbound), Passive(Invalid)} :
       Hold({object})
  /\ UNCHANGED <<spans, tableVars, activeVars, rootVars, saved, builder, histVars>>

\* end: an owned span also leaves DETACHED_SPAN_STORAGE.
End(object) ==
  LET gone == {id \in detached : object.kind = "owned"
                                   /\ stored[id].native.sc = object.ref}
  IN /\ running /\ object \in held
     /\ spans' = Ending({Target(object)}, spans)
     /\ stored' = [id \in DOMAIN stored \ gone |-> stored[id]]
     /\ detached' = detached \ gone
     /\ ended' = ended \cup {Target(object)}
     /\ UNCHANGED <<enabled, last_id, activeVars, rootVars, phpVars, chain, aimed, plain>>

\* Mutant: a context-bound object is resolved through the current context.
WriteTarget_Current(object) ==
  IF object.kind = "bound" THEN (IF Current.native.live THEN Current.native.sc ELSE 0)
  ELSE Target(object)

WriteTarget(object) == Target(object)

\* setStatus, setAttribute, setAttributes, addLink, addEvent, recordException and
\* updateName resolve the span in the same way; the SDK drops writes to an ended one.
Write(object) ==
  LET n == WriteTarget(object)
  IN /\ running /\ object \in held
     /\ spans' = IF n # 0 /\ spans[n].open THEN [spans EXCEPT ![n].written = TRUE] ELSE spans
     /\ aimed' = IF object.kind # "passive" /\ SpanContextOf(object) # Invalid
                     /\ spans[SpanContextOf(object)].open
                 THEN aimed \cup {SpanContextOf(object)} ELSE aimed
     /\ UNCHANGED <<tableVars, activeVars, rootVars, phpVars, chain, ended, plain>>

\* Context::activate: an instance is stored, attached and handed out as a scope.
ActivateContext(context, object) ==
  /\ last_id' = last_id + 1
  /\ stored' = StoreInstance(context)
  /\ stack' = Append(stack, [id |-> last_id + 1, context |-> context])
  /\ guards' = Append(guards, Guard("scope", context.native))
  /\ chain' = Append(chain, object)

\* Span::activate
Activate(object) ==
  /\ running /\ object \in held /\ last_id < MaxIds
  /\ ActivateContext(StoreInContext(object, Current), object)
  /\ UNCHANGED <<enabled, spans, detached, rootVars, held, saved, builder, ended, aimed, plain>>

\* $saved->activate()
ActivateSaved ==
  /\ running /\ last_id < MaxIds
  /\ ActivateContext(saved, SpanFrom(saved))
  /\ plain' = FALSE
  /\ UNCHANGED <<enabled, spans, detached, rootVars, held, saved, builder, ended, aimed>>

\* Context::getCurrent, getRoot and storeInContext make contexts the script can keep.
Save ==
  /\ running
  /\ saved' \in {Current, Root} \cup {StoreInContext(object, saved) : object \in held}
  /\ UNCHANGED <<tableVars, activeVars, rootVars, held, builder, histVars>>
  /\ spans' = Ending(Freed, spans)

\* $saved->with(...): for the key of ContextKeys::span and that of LocalRootSpan, which
\* LocalRootSpan::store takes too.  Only the PHP value changes; null removes it.
With ==
  /\ running
  /\ \E value \in held \cup {Null} :
       saved' \in {WithSpan(saved, value), WithRoot(saved, value)}
  /\ UNCHANGED <<tableVars, activeVars, rootVars, held, builder, histVars>>
  /\ spans' = Ending(Freed, spans)

\* maybe_remove_local_root_span
RemovesLocalRoot(id) == id = local_root

\* Scope::detach of the topmost scope; of any other it changes nothing.  Only a
\* context that records natively moves to DETACHED_SPAN_STORAGE.  The scope object
\* holds its context, and goes out of use here: one that is kept any longer keeps no
\* more than a Save of the current context before the detach does.
Detach ==
  LET id     == Last(stack).id
      native == Last(stack).context.native
      keep   == native.live /\ spans[native.sc].open
      top    == SelectLastInSeq(guards, LAMBDA g : g.by = "scope")
  IN /\ running /\ stack # <<>>
     /\ stack' = Front(stack) /\ guards' = RemoveAt(guards, top)
     /\ stored' = IF keep THEN stored ELSE [i \in DOMAIN stored \ {id} |-> stored[i]]
     /\ detached' = IF keep THEN detached \cup {id} ELSE detached
     /\ local_root' = IF RemovesLocalRoot(id) THEN 0 ELSE local_root
     /\ chain' = Front(chain)
     /\ UNCHANGED <<enabled, last_id, request, running, requests, phpVars, ended, aimed, plain>>
     /\ spans' = Ending(Freed, spans)

\* A variable that holds a span object goes out of use.
Unset(object) ==
  /\ running /\ object \in held
  /\ held' = held \ {object}
  /\ UNCHANGED <<tableVars, activeVars, rootVars, saved, builder, histVars>>
  /\ spans' = Ending(Freed, spans)

-----------------------------------------------------------------------------

Call ==
  \/ HookBegin
  \/ HookEnd
  \/ SpanBuilder
  \/ \E parent \in {"current", "root", "explicit"} : SetParent(parent)
  \/ StartSpan
  \/ Obtain
  \/ \E object \in held : End(object) \/ Write(object) \/ Activate(object) \/ Unset(object)
  \/ ActivateSaved
  \/ Save
  \/ With
  \/ Detach

Next ==
  \/ RequestInitBare
  \/ \E parent \in {Invalid, Inbound} : RequestInit(parent)
  \/ RequestShutdown
  \/ calls < MaxCalls /\ calls' = calls + 1 /\ Call

Spec == Init /\ [][Next]_vars

-----------------------------------------------------------------------------
(* Properties.                                                              *)

\* Tables, stacks and objects name spans and contexts that exist.
TypeOK ==
  /\ \A n \in DOMAIN spans : spans[n].parent \in Inbound .. n - 1
                               /\ spans[n].by \in {"request", "hook", "php"}
  /\ DOMAIN stored \subseteq 1 .. last_id /\ detached \subseteq DOMAIN stored
  /\ \A i \in DOMAIN stack : stack[i].id \in DOMAIN stored
  /\ local_root \in 0 .. last_id /\ request \in 0 .. last_id
  /\ \A object \in held : object.kind \in {"owned", "bound", "passive"}

\* A context names the same span twice: natively, for the parent of new spans and for
\* injected headers, and as the PHP object that getCurrent returns.  The two agree in
\* every context the script can reach, through any nesting of valid, remote, invalid
\* and context-bound spans, except where the script itself set the PHP value with
\* with(ContextKeys::span(), ...): that context and what with makes of it, but no
\* context that storeInContext or the activation of a span makes of those.
NativeMatchesPhp ==
  \A c \in LiveContexts \cup {Current} :
    c.span # Null /\ ~c.keyed => SpanContextOf(c.span) = c.native.sc

\* Nested current context: whatever was activated, ended, detached or unset before,
\* the next span started without an explicit parent is a child of the span of the
\* innermost open scope, and without scopes of the innermost span of the SDK.  In the
\* scope of a context whose PHP value alone was set, only getCurrent follows it.
NestedParents ==
  LET expected == IF chain # <<>> THEN SpanContextOf(Last(chain)) ELSE RustCurrent.sc
  IN running /\ builder.parent = "current" =>
       /\ ~Current.keyed => BuilderParent.sc = expected
       /\ SpanContextOf(SpanFrom(Current)) = expected

\* The local root is the span of the outermost open scope that is not above a remote
\* or an invalid span; without scopes it is the request's root span, when that is the
\* current one, and it can still be renamed and ended through the object returned.
LocalRootOfScopes ==
  LET starts == {i \in DOMAIN chain :
                   i = 1 \/ SpanContextOf(chain[i - 1]) \in {Invalid, Inbound}}
      found  == LocalRootFrom(Current)
  IN /\ running /\ plain /\ chain # <<>> => found = chain[Max(starts)]
     /\ running /\ chain = <<>> /\ request # 0 /\ Len(guards) = 1
          => Target(found) # 0 /\ Target(found) = RustCurrent.sc

\* A span is exported once, and when a request is over every span it started has been,
\* ended by the script or not.
ExportedOnce ==
  \A n \in DOMAIN spans :
    /\ spans[n].exports <= 1
    /\ ~running \/ n \in ended => spans[n].exports = 1

\* A write through a span object that owns a span or is bound to a context reaches the
\* span whose id the object reports, whatever scopes and hooks are open by then, and no
\* other span, until that span has ended.
WritesHitTheirSpan == {n \in DOMAIN spans : spans[n].written} = aimed

\* A span does not end behind the script's back: while it is the span of an open
\* scope, or the request's root span, only a call to end ends it.
ActiveStaysOpen ==
  \A n \in DOMAIN spans :
    running /\ n \notin ended /\ spans[n].exports > 0 =>
      /\ Owned(n) \notin {chain[i] : i \in DOMAIN chain}
      /\ n # Target(Bound(request))

\* A span ends when it should: once, by a call to end, by the loss of its last owner or
\* with its request, and never while a scope or the request still relies on it.
SpanLifetime == TypeOK /\ ExportedOnce /\ ActiveStaysOpen
=============================================================================
