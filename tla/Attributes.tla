----------------------------- MODULE Attributes -----------------------------
(***************************************************************************)
(* Attributes and log records: the limits a request is configured with,    *)
(* how PHP values become attributes of spans, events, links, metrics and   *)
(* log records, and how a record is built and emitted                      *)
(* (src/otel/src/util.rs, src/otel/src/logs/log_record.rs,                 *)
(* log_record_builder.rs, logger.rs, event_logger.rs, severity.rs and the  *)
(* begin and end of a request in src/otel/src/request.rs).                 *)
(*                                                                         *)
(* One worker process serves requests one after the other.  The limits and *)
(* the table of interned log strings outlive a call, the second also the   *)
(* request; the environment the limits are read from is replaced for each  *)
(* request and can be changed by the script.  A PHP value is its type, the *)
(* length of its string form and, for an array, its elements.              *)
(***************************************************************************)
EXTENDS Integers, SequencesExt, FiniteSetsExt, TLC

CONSTANTS
  Environments,    \* environments of a request: settings of the limit variables
  Keys,            \* attribute keys: records with a length
  PhpValues,       \* values a script passes
  Arrays,          \* whole attribute arrays: sequences of key and value
  ExceptionAttributes, \* the attributes of an exception: strings
  Texts,           \* event names and severity texts
  Severities,      \* severity numbers a script passes
  MaxDepth,        \* nesting any_value follows (64)
  MaxLogStrings,   \* MAX_INTERNED_LOG_STRINGS (4096)
  MaxCalls,        \* bound: calls in all requests
  MaxRequests      \* bound: requests served

VARIABLES
  auto,       \* the module is enabled: RINIT runs
  env,        \* the process environment
  limits,     \* ATTRIBUTE_LIMITS: <<>> or one configuration
  log_strings,\* LOG_STRINGS
  record,     \* the record of a LogRecordBuilder
  made,       \* what the last call converted for a span, event, link or metric
  out,        \* the record the last call emitted
  scopes,     \* spans current in the Rust context, innermost last
  running,    \* a request is being served
  requests,   \* requests begun
  calls,      \* calls made
  read_env,   \* history: the environment this request's limits stand for
  writes,     \* history: attribute writes of the record
  pinned,     \* history: the span the script chose for the record
  verbatim    \* history: texts that were emitted as they are

processVars == <<auto, env, limits, log_strings>>
recordVars  == <<record, writes, pinned>>
requestVars == <<running, requests, calls>>
vars == <<processVars, recordVars, requestVars, made, out, scopes, read_env, verbatim>>

-----------------------------------------------------------------------------
(* Limits.                                                                  *)

DEFAULT_ATTRIBUTE_COUNT_LIMIT        == 128
DEFAULT_ATTRIBUTE_KEY_LENGTH_LIMIT   == 256
DEFAULT_ATTRIBUTE_ARRAY_LENGTH_LIMIT == 128
MAX_CONFIGURED_LIMIT                 == 1000000
Unlimited == 2147483647     \* usize::MAX, and more than any value here

Destinations == {"span", "event", "link", "log", "metric", "scope"}

\* A setting is a number, or negative when the variable is unset, blank or not
\* a number.
configured_limit(setting, fallback) ==
  IF setting \in 0..MAX_CONFIGURED_LIMIT THEN setting ELSE fallback

from_env(e) ==
  LET count  == configured_limit(e.count, DEFAULT_ATTRIBUTE_COUNT_LIMIT)
      value  == configured_limit(e.value, Unlimited)
      span_value == configured_limit(e.span_value, value)
      Limits(c, v) == [count |-> c, value |-> v,
                       key   |-> configured_limit(e.key, DEFAULT_ATTRIBUTE_KEY_LENGTH_LIMIT),
                       array |-> configured_limit(e.array, DEFAULT_ATTRIBUTE_ARRAY_LENGTH_LIMIT)]
  IN  [d \in Destinations |->
        CASE d = "span"   -> Limits(configured_limit(e.span_count, count), span_value)
          [] d = "event"  -> Limits(configured_limit(e.event_count, count), span_value)
          [] d = "link"   -> Limits(configured_limit(e.link_count, count), span_value)
          [] d = "log"    -> Limits(configured_limit(e.log_count, count),
                                    configured_limit(e.log_value, value))
          [] d = "metric" -> [count |-> Unlimited, value |-> Unlimited,
                              key |-> Unlimited, array |-> Unlimited]
          [] d = "scope"  -> Limits(count, value)]

\* attribute_limit_config: the cached configuration, or the environment's now.
attribute_limit_config == IF limits = <<>> THEN from_env(env) ELSE Head(limits)
attribute_limits(d)    == attribute_limit_config[d]

\* Every use fills the cache.
UseLimits ==
  /\ limits' = <<attribute_limit_config>>
  /\ read_env' = IF limits = <<>> THEN env ELSE read_env

-----------------------------------------------------------------------------
(* Values.                                                                  *)

valid_attribute_key(k, lim) == k.len > 0 /\ k.len <= lim.key

truncate(v, max) == [v EXCEPT !.len = Min({v.len, max})]

Nothing == <<>>      \* Option::None; Some(v) is <<v>>

\* zval_to_vec: arrays of one primitive type, integers and floats being one.
zval_to_vec(v, lim) ==
  LET Joined(a, b) == CASE a = "empty" \/ a = b -> b
                        [] {a, b} = {"int", "float"} -> "float"
                        [] OTHER -> "mixed"
      Kept(e) == IF e.type = "string" THEN truncate(e, lim.value) ELSE e
      Step(acc, e) ==
        LET kind == IF acc.kind = "mixed" \/ e.type \notin {"string", "int", "float", "bool"}
                      THEN "mixed" ELSE Joined(acc.kind, e.type)
        IN  [kind |-> kind, seen |-> acc.seen + 1,
             items |-> IF acc.seen + 1 <= lim.array THEN Append(acc.items, Kept(e)) ELSE acc.items]
      all == FoldLeft(Step, [kind |-> "empty", seen |-> 0, items |-> <<>>], v.items)
  IN  IF all.kind = "mixed" THEN Nothing
      ELSE <<[v EXCEPT !.items = [i \in DOMAIN all.items |->
                                   [all.items[i] EXCEPT !.type = all.kind]]]>>

zval_to_key_value(d, k, v) ==
  LET lim == attribute_limits(d)
  IN  CASE ~valid_attribute_key(k, lim) -> Nothing
        [] valid_attribute_key(k, lim) /\ v.type = "string" ->
             <<[key |-> k, value |-> truncate(v, lim.value)]>>
        [] valid_attribute_key(k, lim) /\ v.type \in {"int", "float", "bool"} ->
             <<[key |-> k, value |-> v]>>
        [] valid_attribute_key(k, lim) /\ v.type = "array" ->
             LET vec == zval_to_vec(v, lim)
             IN  IF vec = Nothing THEN Nothing ELSE <<[key |-> k, value |-> Head(vec)]>>
        [] OTHER -> Nothing

\* Mutant: the values are limited as those of a span, whatever they are for.
zval_arr_to_key_value_vec_Span(d, pairs) ==
  LET found == FlattenSeq([i \in DOMAIN pairs |->
                            zval_to_key_value("span", pairs[i].key, pairs[i].value)])
  IN  SubSeq(found, 1, Min({Len(found), attribute_limits(d).count}))

\* zval_arr_to_key_value_vec: the first entries that convert, up to the count.
zval_arr_to_key_value_vec(d, pairs) ==
  LET found == FlattenSeq([i \in DOMAIN pairs |->
                            zval_to_key_value(d, pairs[i].key, pairs[i].value)])
  IN  SubSeq(found, 1, Min({Len(found), attribute_limits(d).count}))

\* any_value_with_limits: nested values, cut off at MaxDepth.
RECURSIVE any_value_with_limits(_, _, _)
any_value_with_limits(v, lim, depth) ==
  CASE depth >= MaxDepth \/ v.type = "null" -> Nothing
    [] depth < MaxDepth /\ v.type = "array" ->
         LET kept == SubSeq(v.items, 1, Min({Len(v.items), lim.array}))
         IN  <<[v EXCEPT !.items =
                  FlattenSeq([i \in DOMAIN kept |->
                    any_value_with_limits(kept[i], lim, depth + 1)])]>>
    [] depth < MaxDepth /\ v.type \in {"string", "object"} ->
         <<[truncate(v, lim.value) EXCEPT !.type = "string"]>>
    [] OTHER -> <<v>>

\* An attribute of a log record: existing keys are replaced, new ones added
\* below the count.
set_any_attribute(attrs, k, v, lim) ==
  LET at == SelectInSeq(attrs, LAMBDA a : a.key = k)
  IN  IF at > 0 THEN [attrs EXCEPT ![at].value = v]
      ELSE IF Len(attrs) < lim.count THEN Append(attrs, [key |-> k, value |-> v]) ELSE attrs

\* Mutant: a full record refuses every write.
set_attribute_FullRefuses(attrs, k, v) ==
  LET lim == attribute_limits("log")
      any == any_value_with_limits(v, lim, 0)
  IN  IF ~valid_attribute_key(k, lim) \/ any = Nothing \/ Len(attrs) >= lim.count THEN attrs
      ELSE set_any_attribute(attrs, k, Head(any), lim)

set_attribute(attrs, k, v) ==
  LET lim == attribute_limits("log")
      any == any_value_with_limits(v, lim, 0)
  IN  IF ~valid_attribute_key(k, lim) \/ any = Nothing THEN attrs
      ELSE set_any_attribute(attrs, k, Head(any), lim)

\* set_attributes, and the attributes of an event.
set_attributes(attrs, pairs) ==
  FoldLeft(LAMBDA acc, p : set_attribute(acc, p.key, p.value), attrs, pairs)

\* limit_key_values: attributes the extension makes itself, strings here.
limit_key_values(d, pairs) ==
  LET lim == attribute_limits(d)
      ok  == SelectSeq(pairs, LAMBDA p : valid_attribute_key(p.key, lim))
  IN  [i \in 1..Min({Len(ok), lim.count}) |->
        [ok[i] EXCEPT !.value = truncate(@, lim.value)]]

\* set_otel_attribute for each of them.
set_exception(attrs) ==
  FoldLeft(LAMBDA acc, p : set_any_attribute(acc, p.key, p.value, attribute_limits("log")),
           attrs, limit_key_values("log", ExceptionAttributes))

otel_severity(n) == IF n \in 1..24 THEN n ELSE 0

-----------------------------------------------------------------------------
(* Records.                                                                 *)

NoText == "none"
EmptyRecord == [attributes |-> <<>>, severity |-> 0, severity_text |-> NoText,
                event_name |-> NoText, context |-> <<"current">>]

\* trace_context(Context::current()): 0 stands for no valid span.
CurrentSpan == IF scopes = <<>> THEN 0 ELSE Last(scopes)

selected_trace_context(c) ==
  CASE c[1] = "current"  -> CurrentSpan
    [] c[1] = "none"     -> 0
    [] c[1] = "explicit" -> c[2]

\* SdkLogger::emit: a record whose trace context was not set takes the active span's.
SdkCorrelate(span) == IF span = 0 THEN CurrentSpan ELSE span

CARDINALITY_FALLBACK == "<otel-cardinality-limit>"

Intern(table, text) ==
  IF text = NoText \/ text \in table \/ Cardinality(table) >= MaxLogStrings
    THEN table ELSE table \cup {text}

intern_log_string(table, text) ==
  IF text # NoText /\ text \notin table /\ Cardinality(table) >= MaxLogStrings
    THEN CARDINALITY_FALLBACK ELSE text

\* emit_state: severity text first, then the event name.  The trace context is set only
\* when a valid one was selected; the SDK's logger then emits the record.
emit_state(r) ==
  LET table == Intern(log_strings, r.severity_text)
      text  == intern_log_string(log_strings, r.severity_text)
      name  == intern_log_string(table, r.event_name)
  IN  /\ out' = <<[attributes |-> r.attributes, severity |-> r.severity,
                   severity_text |-> text, event_name |-> name,
                   span |-> SdkCorrelate(selected_trace_context(r.context))]>>
      /\ log_strings' = Intern(table, r.event_name)
      /\ verbatim' = verbatim \cup ({text, name} \ {NoText, CARDINALITY_FALLBACK})

-----------------------------------------------------------------------------
(* Requests.                                                                *)

Init ==
  /\ auto \in BOOLEAN /\ env \in Environments /\ read_env = env
  /\ limits = <<>> /\ log_strings = {} /\ record = EmptyRecord /\ made = <<>> /\ out = <<>>
  /\ scopes = <<>> /\ running = FALSE /\ requests = 0 /\ calls = 0
  /\ writes = <<>> /\ pinned = <<"current">> /\ verbatim = {}

\* Only RINIT of an enabled module reads the environment.
begin_request_attribute_limits(e) == limits' = IF auto THEN <<from_env(e)>> ELSE limits

RequestBegin(e) ==
  /\ ~running /\ requests < MaxRequests
  /\ running' = TRUE /\ requests' = requests + 1
  /\ env' = e
  /\ begin_request_attribute_limits(e)
  /\ read_env' = e
  /\ record' = EmptyRecord /\ writes' = <<>> /\ pinned' = <<"current">>
  /\ made' = <<>> /\ out' = <<>>
  /\ UNCHANGED <<auto, log_strings, scopes, calls, verbatim>>

\* RSHUTDOWN; an unwind before its last calls leaves the limits in place.
RequestEnd ==
  /\ running /\ running' = FALSE
  /\ scopes' = <<>>
  /\ \/ limits' = <<>>
     \/ auto /\ limits' = limits
  /\ UNCHANGED <<auto, env, log_strings, recordVars, requests, calls, made, out, read_env, verbatim>>

Call == running /\ calls < MaxCalls /\ calls' = calls + 1 /\ UNCHANGED <<running, requests, auto>>

Silent == made' = <<>> /\ out' = <<>>

\* The script changes its environment.
Putenv(e) ==
  /\ Call /\ Silent /\ env' = e
  /\ UNCHANGED <<limits, log_strings, recordVars, scopes, read_env, verbatim>>

\* A span becomes current; spans are numbered by depth.
OpenScope ==
  /\ Call /\ Silent /\ Len(scopes) < 2 /\ scopes' = Append(scopes, Len(scopes) + 1)
  /\ UNCHANGED <<env, limits, log_strings, recordVars, read_env, verbatim>>

CloseScope ==
  /\ Call /\ Silent /\ scopes # <<>> /\ scopes' = Front(scopes)
  /\ UNCHANGED <<env, limits, log_strings, recordVars, read_env, verbatim>>

\* Attributes of a span, an event, a link or a measurement.
Convert(d, pairs) ==
  /\ Call /\ out' = <<>> /\ UseLimits
  /\ made' = <<[destination |-> d, given |-> pairs,
                pairs |-> zval_arr_to_key_value_vec(d, pairs)]>>
  /\ UNCHANGED <<env, log_strings, recordVars, scopes, verbatim>>

NewRecord ==
  /\ Call /\ Silent /\ record' = EmptyRecord /\ writes' = <<>> /\ pinned' = <<"current">>
  /\ UNCHANGED <<env, limits, log_strings, scopes, read_env, verbatim>>

SetAttributes(pairs) ==
  /\ Call /\ Silent /\ UseLimits
  /\ record' = [record EXCEPT !.attributes = set_attributes(@, pairs)]
  /\ writes' = writes \o pairs
  /\ UNCHANGED <<env, log_strings, pinned, scopes, verbatim>>

SetException ==
  /\ Call /\ Silent /\ UseLimits
  /\ record' = [record EXCEPT !.attributes = set_exception(@)]
  /\ writes' = writes \o limit_key_values("log", ExceptionAttributes)
  /\ UNCHANGED <<env, log_strings, pinned, scopes, verbatim>>

SetTexts(text, name, n) ==
  /\ Call /\ Silent
  /\ record' = [record EXCEPT !.severity_text = text, !.event_name = name,
                              !.severity = otel_severity(n)]
  /\ UNCHANGED <<env, limits, log_strings, writes, pinned, scopes, read_env, verbatim>>

\* Null, false, and a context: that of an open scope, or one without a valid span.
LogContexts ==
  {<<"current">>, <<"none">>} \cup {<<"explicit", s>> : s \in {0} \cup Range(scopes)}

\* Mutant: the current context is resolved when it is chosen.
ContextOf_Early(c) == IF c[1] = "current" THEN <<"explicit", CurrentSpan>> ELSE c

\* An explicit context is kept by its span alone.
ContextOf(c) == c

set_context(c) ==
  /\ Call /\ Silent
  /\ record' = [record EXCEPT !.context = ContextOf(c)]
  /\ pinned' = c
  /\ UNCHANGED <<env, limits, log_strings, writes, scopes, read_env, verbatim>>

\* The builder can be used again after it emitted.
Emit ==
  /\ Call /\ made' = <<>> /\ emit_state(record)
  /\ UNCHANGED <<env, limits, recordVars, scopes, read_env>>

\* EventLogger::emit.
EmitEvent(name, pairs) ==
  /\ Call /\ made' = <<>> /\ UseLimits
  /\ emit_state([EmptyRecord EXCEPT !.event_name = name,
                                   !.attributes = set_attributes(<<>>, pairs)])
  /\ UNCHANGED <<env, recordVars, scopes>>

Pairs == {<<[key |-> k, value |-> v]>> : k \in Keys, v \in PhpValues}

Next ==
  \/ \E e \in Environments : RequestBegin(e) \/ Putenv(e)
  \/ RequestEnd
  \/ OpenScope \/ CloseScope
  \/ \E d \in Destinations \ {"log"}, p \in Arrays : Convert(d, p)
  \/ NewRecord
  \/ \E p \in Pairs : SetAttributes(p)
  \/ SetException
  \/ \E n \in Texts, s \in Severities : \E t \in {NoText, n} : SetTexts(t, n, s)
  \/ \E c \in LogContexts : set_context(c)
  \/ Emit
  \/ \E n \in Texts, p \in Arrays : EmitEvent(n, p)

Spec == Init /\ [][Next]_vars

-----------------------------------------------------------------------------
(* Properties.                                                              *)

\* The state has the shape the code gives it, and the table of log strings
\* stays within MAX_INTERNED_LOG_STRINGS.
TypeOK ==
  /\ auto \in BOOLEAN /\ env \in Environments /\ running \in BOOLEAN
  /\ Len(limits) <= 1 /\ Len(made) <= 1 /\ Len(out) <= 1
  /\ record.severity \in {otel_severity(s) : s \in Severities \cup {0}}
  /\ log_strings \subseteq Texts /\ Cardinality(log_strings) <= MaxLogStrings
  /\ requests \in 0..MaxRequests /\ calls \in 0..MaxCalls

\* While a request runs, the limits are those of its own environment, as it
\* was when they were read: nothing of an earlier request, also when that one's
\* RSHUTDOWN unwound (begin_request_attribute_limits, end_request_attribute_limits).
LimitsOfThisRequest ==
  running /\ limits # <<>> => limits = <<from_env(read_env)>>

RECURSIVE Bounded(_, _)
Bounded(v, lim) ==
  /\ v.type = "string" => v.len <= lim.value
  /\ v.type = "array" => Len(v.items) <= lim.array
  /\ \A i \in DOMAIN v.items : Bounded(v.items[i], lim)

AllBounded(attrs, lim) ==
  /\ Len(attrs) <= lim.count
  /\ \A i \in DOMAIN attrs : attrs[i].key.len \in 1..lim.key /\ Bounded(attrs[i].value, lim)

\* What one call converts for a span, event, link, metric or scope, and all that a log
\* record has accumulated, is within the limits for it, nested values included, and an
\* attribute array has one type; what a metric gets keeps every element and every
\* character.  (What several calls add to one span is counted by the SDK.)
\* (zval_to_vec, zval_arr_to_key_value_vec, any_value_with_limits).
WithinLimits ==
  running /\ limits # <<>> =>
    /\ AllBounded(record.attributes, Head(limits)["log"])
    /\ \A i \in DOMAIN out : AllBounded(out[i].attributes, Head(limits)["log"])
    /\ \A i \in DOMAIN made :
         LET m == made[i] IN
         /\ AllBounded(m.pairs, Head(limits)[m.destination])
         /\ \A j \in DOMAIN m.pairs : \A a, b \in DOMAIN m.pairs[j].value.items :
              m.pairs[j].value.items[a].type = m.pairs[j].value.items[b].type
         /\ m.destination = "metric" =>
              \A j \in DOMAIN m.pairs : \E g \in DOMAIN m.given :
                /\ m.given[g].key = m.pairs[j].key
                /\ m.given[g].value.len = m.pairs[j].value.len
                /\ Len(m.given[g].value.items) = Len(m.pairs[j].value.items)

\* The limits in force are this request's own, and every conversion and every log
\* record keeps them.
LimitsKept == TypeOK /\ LimitsOfThisRequest /\ WithinLimits

\* The attributes a sequence of writes should leave: the first keys up to the
\* count, each with its last value.
Expected(ws, lim) ==
  LET Ok(w) == valid_attribute_key(w.key, lim) /\ any_value_with_limits(w.value, lim, 0) # Nothing
      good == SelectSeq(ws, Ok)
      firsts == SelectSeq([i \in DOMAIN good |-> i],
                          LAMBDA i : \A j \in 1..(i - 1) : good[j].key # good[i].key)
      LastOf(k) == good[Max({i \in DOMAIN good : good[i].key = k})].value
  IN  [n \in 1..Min({Len(firsts), lim.count}) |->
        LET k == good[firsts[n]].key
        IN  [key |-> k, value |-> Head(any_value_with_limits(LastOf(k), lim, 0))]]

\* A record holds the last value written under each of its first keys, however
\* full it is (set_any_attribute).
LastWriteWins ==
  running /\ limits # <<>> => record.attributes = Expected(writes, Head(limits)["log"])

\* A record for which the script chose a context with a valid span leaves with that
\* span, also when its scope was closed or another opened since; every other record
\* with the span that is active when it is emitted, and with none only when there is
\* none: setContext(false) does not undo the SDK's correlation.  And a text that was
\* emitted as it is is never replaced by the fallback later
\* (set_context, selected_trace_context, emit_state, intern_log_string).
EmittedAsChosen ==
  [][ Emit =>
        /\ Head(out').span = IF pinned[1] = "explicit" /\ pinned[2] # 0
                               THEN pinned[2] ELSE CurrentSpan
        /\ record.event_name \in verbatim => Head(out').event_name = record.event_name ]_vars
=============================================================================
