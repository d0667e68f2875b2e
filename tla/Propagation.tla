---------------------------- MODULE Propagation ----------------------------
(***************************************************************************)
(* Context across process boundaries: the TraceState object, baggage, the  *)
(* two text-map propagators and the carrier they write to and read from    *)
(* (src/otel/src/trace/trace_state.rs, trace/propagation/                  *)
(* trace_context_propagator.rs, src/otel/src/baggage/,                     *)
(* src/otel/src/context/propagation/ and the request's own headers in      *)
(* src/otel/src/request.rs).                                               *)
(*                                                                         *)
(* A script holds one TraceState, one baggage builder, one context and one *)
(* carrier, and calls the API on them in any order.  Trace state keys and  *)
(* values are shapes (length, kinds of bytes); baggage texts are short     *)
(* sequences of bytes, since they are escaped, split and trimmed on the    *)
(* way.  A span context is a number (trace id, span id and the sampled    *)
(* flag; the SDK writes and reads no other flag) with two trace states:    *)
(* the SDK's own, which travels, and the PHP object a script is shown.     *)
(***************************************************************************)
EXTENDS Integers, SequencesExt, FiniteSetsExt, Filters

CONSTANTS
  StateKeys,       \* shapes of trace state keys, valid or not
  StateValues,     \* shapes of trace state values
  RawStates,       \* raw trace state headers: sequences of raw members
  BaggageKeys, BaggageValues, BaggageMetadata,  \* texts a script uses
  RawBaggage,      \* baggage headers written by other programs
  Limits,          \* limits given to TraceState::toString
  MaxMembers,      \* MAX_LIST_MEMBERS (32)
  MaxBytes,        \* MAX_BAGGAGE_BYTES (8192)
  MaxEntries,      \* MAX_BAGGAGE_ENTRIES (180)
  MaxSpanContexts, \* bound: different span contexts
  MaxCalls         \* bound: calls of the script

ASSUME BoundsAssumption ==
  /\ Limits \subseteq Int
  /\ {MaxMembers, MaxBytes, MaxEntries, MaxSpanContexts, MaxCalls} \subseteq Nat

\* A member of a raw trace state header: empty, without '=', or a pair, which
\* may follow a blank.
RawMembers == [kind : {"blank", "junk"}]
              \cup [kind : {"pair", "padded"}, key : StateKeys, value : StateValues]

ASSUME StateAssumption ==
  /\ \A k \in StateKeys : k.len \in Nat
  /\ \A v \in StateValues : v.len \in Nat
  /\ \A raw \in RawStates : raw \in Seq(RawMembers)

VARIABLES
  ts,        \* the members of a TraceState object
  builder,   \* the entries of a BaggageBuilder
  ctx,       \* the context the script works with
  carrier,   \* a PHP array: headers in order, each in some spelling
  sent,      \* history: what was last injected into this carrier
  calls      \* calls made

vars == <<ts, builder, ctx, carrier, sent, calls>>

-----------------------------------------------------------------------------
(* Trace state.                                                             *)

NoAt == -1

\* A key is a shape: its length, the position of its first '@', the kinds of
\* its first byte and of the byte after '@', and whether the others are allowed.
valid_key(k) ==
  /\ k.len \in 1..256
  /\ k.allowed
  /\ IF k.at = NoAt
       THEN k.first = "lower"
       ELSE /\ k.at \in 1..241
            /\ k.len - (k.at + 1) \in 1..14
            /\ k.first \in {"lower", "digit"}
            /\ k.vendor = "lower"

\* The bytes of a value: printable ones, a control or non-ASCII byte among
\* them, or a ',' or '='.
valid_value(v) == v.len \in 1..256 /\ v.bytes = "printable" /\ v.last = "visible"

HasKey(ms, k) == \E i \in DOMAIN ms : ms[i].key = k

validate_member(ms, k, v) ==
  /\ HasKey(ms, k) \/ valid_key(k)
  /\ valid_value(v)
  /\ Len(ms) < MaxMembers \/ HasKey(ms, k)

Member(k, v) == [key |-> k, value |-> v]
WithoutKey(ms, k) == Keep(ms, {m \in Range(ms) : m.key # k})

\* TraceStateState::parse: members are trimmed, empty ones skipped, the first value of a key
\* stays, and one bad member discards the whole header.
ParseStep(acc, m) ==
  IF ~acc.ok \/ m.kind = "blank" THEN acc
  ELSE IF m.kind # "junk" /\ validate_member(acc.ms, m.key, m.value)
    THEN IF HasKey(acc.ms, m.key) THEN acc
         ELSE [acc EXCEPT !.ms = Append(@, Member(m.key, m.value))]
    ELSE [ok |-> FALSE, ms |-> <<>>]

parse(raw) == FoldLeft(ParseStep, [ok |-> TRUE, ms |-> <<>>], raw).ms

header(ms) == [i \in DOMAIN ms |->
                [kind |-> "pair", key |-> ms[i].key, value |-> ms[i].value]]

MemberLength(m) == m.key.len + 1 + m.value.len
TotalLength(ms) == FoldLeft(LAMBDA n, m : n + MemberLength(m), 0, ms)
HeaderLength(ms) == TotalLength(ms) + Max({0, Len(ms) - 1})

\* One pass from the last member to the first: members longer than threshold
\* go until the header fits.
DropStep(a, i, threshold, limit) ==
  LET entry == MemberLength(a.ms[i]) IN
  IF i > Len(a.ms) \/ a.length <= limit \/ entry <= threshold THEN a
  ELSE [ms |-> RemoveAt(a.ms, i),
        length |-> Max({0, a.length - entry - (IF Len(a.ms) > 1 THEN 1 ELSE 0)})]

Downwards(ms) == Reverse([i \in DOMAIN ms |-> i])

DropLonger(acc, threshold, limit) ==
  FoldLeft(LAMBDA a, i : DropStep(a, i, threshold, limit), acc, Downwards(acc.ms))

\* Mutant: only long members are dropped.
limited_header_OnePass(ms, limit) ==
  DropLonger([ms |-> ms, length |-> HeaderLength(ms)], 128, limit).ms

limited_header(ms, limit) ==
  DropLonger(DropLonger([ms |-> ms, length |-> HeaderLength(ms)], 128, limit),
             0, limit).ms

\* TraceState::from_str of the opentelemetry crate has rules of its own: a
\* vendor has at most 13 bytes, any key may begin with a digit or be empty,
\* values may be empty or hold bytes that are not printable.
sdk_valid_key(k) ==
  /\ k.len <= 256
  /\ k.allowed
  /\ k.len > 0 => k.first \in {"lower", "digit"}
  /\ k.at # NoAt => /\ k.len - (k.at + 1) <= 13
                    /\ k.len - (k.at + 1) > 0 => k.vendor \in {"lower", "digit"}

sdk_valid_value(v) == v.len <= 256 /\ v.bytes # "separator"

\* Every member is one the SDK takes.
SdkTakes(ms) == \A i \in DOMAIN ms : sdk_valid_key(ms[i].key) /\ sdk_valid_value(ms[i].value)

\* Nothing is trimmed, only an empty last member is skipped, a key may come
\* twice and the number of members has no limit.
sdk_from_str(raw) ==
  LET n == IF raw # <<>> /\ raw[Len(raw)].kind = "blank" THEN Len(raw) - 1 ELSE Len(raw)
      found == [i \in 1..n |-> Member(raw[i].key, raw[i].value)]
  IN  IF (\A i \in 1..n : raw[i].kind = "pair") /\ SdkTakes(found)
        THEN [ok |-> TRUE, ms |-> found] ELSE [ok |-> FALSE, ms |-> <<>>]

\* unwrap_or_default: one member the SDK refuses costs all of them.
otel_trace_state_from_header(raw) == LET read == sdk_from_str(raw)
                                     IN  IF read.ok THEN read.ms ELSE <<>>

\* init_span_context_object: the TraceState a script is shown (no object is
\* the same as an empty one).
php_trace_state(state) == parse(header(state))

-----------------------------------------------------------------------------
(* Baggage.  A text is a sequence of bytes; an escape sequence such as %2C  *)
(* is one element of it.                                                    *)

Unreserved == {"a", "b", "0"}
White      == {" ", "tab"}
Escape     == [c \in {",", ";", "=", "/", "tab", "+", "%61"} |->
                CASE c = "," -> "%2C" [] c = ";" -> "%3B" [] c = "=" -> "%3D" [] c = "/" -> "%2F"
                  [] c = "tab" -> "%09" [] c = "+" -> "%2B" [] c = "%61" -> "%2561"]
Unescape   == [e \in {"%2C", "%3B", "%3D", "%2F", "%09", "%2B", "%2561", "%61"} |->
                IF e = "%61" THEN "a" ELSE CHOOSE c \in DOMAIN Escape : Escape[c] = e]

\* The bytes of a text, and those of what a header may hold.
Chars       == Unreserved \cup {" "} \cup DOMAIN Escape
HeaderChars == Chars \cup DOMAIN Unescape

ASSUME TextAssumption ==
  /\ \A t \in BaggageKeys \cup BaggageValues : t \in Seq(Chars)
  /\ \A t \in BaggageMetadata \cup RawBaggage : t \in Seq(HeaderChars)

Bytes(t) == FoldLeft(LAMBDA n, c : n + (IF c = "%2561" THEN 5
                                        ELSE IF c \in DOMAIN Unescape THEN 3 ELSE 1), 0, t)

url_encode(t) ==
  [i \in DOMAIN t |-> IF t[i] \in Unreserved THEN t[i]
                      ELSE IF t[i] = " " THEN "+" ELSE Escape[t[i]]]

url_decode(t) ==
  [i \in DOMAIN t |-> IF t[i] = "+" THEN " "
                      ELSE IF t[i] \in DOMAIN Unescape THEN Unescape[t[i]] ELSE t[i]]

trim_php(t) ==
  LET solid == {i \in DOMAIN t : t[i] \notin White}
  IN  IF solid = {} THEN <<>> ELSE SubSeq(t, Min(solid), Max(solid))

is_php_empty(t) == t = <<>> \/ t = <<"0">>

key_has_excluded_character(t)   == Range(t) \cap {" ", ",", ";", "=", "/"} # {}
value_has_excluded_character(t) == Range(t) \cap {" ", ",", ";"} # {}

Entry(k, v, m) == [key |-> k, value |-> v, metadata |-> m]

\* BaggageBuilder::set.
set_entry(entries, e) ==
  LET at == SelectInSeq(entries, LAMBDA x : x.key = e.key)
  IN  CASE e.key = <<>> -> entries
        [] e.key # <<>> /\ at > 0 -> [entries EXCEPT ![at] = e]
        [] OTHER -> Append(entries, e)

set_all(entries) == FoldLeft(set_entry, <<>>, entries)

remove_entry(entries, k) == Keep(entries, {x \in Range(entries) : x.key # k})

\* The text between separators.
SplitStep(acc, c) ==
  IF c = "," THEN Append(acc, <<>>) ELSE [acc EXCEPT ![Len(acc)] = Append(@, c)]
Split(t) == FoldLeft(SplitStep, <<(<<>>)>>, t)
TextBefore(t, c) == LET at == SelectInSeq(t, LAMBDA x : x = c)
                    IN  IF at = 0 THEN t ELSE SubSeq(t, 1, at - 1)
TextAfter(t, c)  == LET at == SelectInSeq(t, LAMBDA x : x = c)
                    IN  IF at = 0 THEN <<>> ELSE SubSeq(t, at + 1, Len(t))

\* The entries a member of the header stands for: one or none.
ParseMember(raw) ==
  LET member == trim_php(raw)
      pair   == trim_php(TextBefore(member, ";"))
      key    == trim_php(url_decode(trim_php(TextBefore(pair, "="))))
      value  == trim_php(url_decode(trim_php(TextAfter(pair, "="))))
      meta   == trim_php(TextAfter(member, ";"))
  IN  IF \/ is_php_empty(member) \/ is_php_empty(pair)
         \/ "=" \notin Range(pair)
         \/ is_php_empty(key) \/ key_has_excluded_character(key)
         \/ is_php_empty(value) \/ value_has_excluded_character(value)
        THEN <<>>
        ELSE <<Entry(key, value, IF is_php_empty(meta) THEN <<>> ELSE meta)>>

parse_into_builder(text) ==
  IF Bytes(text) > MaxBytes THEN <<>>
  ELSE LET members == Split(text)
           found   == FlattenSeq([i \in DOMAIN members |-> ParseMember(members[i])])
       IN  set_all(SubSeq(found, 1, Min({Len(found), MaxEntries})))

EntryText(e) ==
  e.key \o <<"=">> \o url_encode(e.value)
        \o (IF is_php_empty(e.metadata) THEN <<>> ELSE <<";">> \o e.metadata)

JoinStep(text, e) ==
  IF text = <<>> THEN EntryText(e) ELSE text \o <<",">> \o EntryText(e)
baggage_header(entries) == FoldLeft(JoinStep, <<>>, entries)

-----------------------------------------------------------------------------
(* The carrier: ArrayAccessGetterSetter.  A header may hold several values. *)

Spellings == {"lower", "Title"}
Names     == {"traceparent", "tracestate", "baggage"}

\* resolve_key, find_value: the first header that differs at most in case.
find(c, name) == SelectInSeq(c, LAMBDA h : h.name = name)

\* Its first string: <<value>>, or <<>> when there is none.
get(c, name) ==
  LET at == find(c, name)
  IN  IF at = 0 \/ c[at].values = <<>> THEN <<>> ELSE <<Head(c[at].values)>>

\* Insertion under the exact spelling: in place, or at the end.
Insert(c, h) ==
  LET at == SelectInSeq(c, LAMBDA x : x.name = h.name /\ x.spelling = h.spelling)
  IN  IF at > 0 THEN [c EXCEPT ![at] = h] ELSE Append(c, h)

\* set: propagators write lower-case names.
set(c, name, value) ==
  LET at == find(c, name)
      base == IF at > 0 /\ c[at].spelling # "lower" THEN RemoveAt(c, at) ELSE c
  IN  Insert(base, [name |-> name, spelling |-> "lower", values |-> <<value>>])

OneSpelling(c) == \A i, j \in DOMAIN c : c[i].name = c[j].name => i = j

-----------------------------------------------------------------------------
(* The propagators.                                                         *)

\* state is the SDK's, php what getTraceState gives the script.
SpanContext(id, state, php) == [id |-> id, state |-> state, php |-> php]
NoSpan  == SpanContext(0, <<>>, <<>>)
Valid(sc) == sc.id > 0
RootContext == [sc |-> NoSpan, object |-> "none", baggage |-> <<>>]

\* opentelemetry_sdk TraceContextPropagator::extract_with_context: the parent's
\* span context unless the header is well formed (a number above 0).
SdkExtract(sc, parent, state) ==
  IF parent = <<>> \/ parent = <<0>> THEN sc
  ELSE LET read == IF state = <<>> THEN <<>> ELSE otel_trace_state_from_header(Head(state))
       IN  SpanContext(Head(parent), read, php_trace_state(read))

\* Mutant: an empty trace state is not written.
inject_trace_NoEmptyState(c, cx, first) ==
  IF ~Valid(cx.sc) THEN c
  ELSE IF cx.sc.state = <<>> THEN set(c, "traceparent", cx.sc.id)
  ELSE set(set(c, "traceparent", cx.sc.id), "tracestate", header(cx.sc.state))

\* The SDK fills a HashMap, so either header may be set first.
inject_trace(c, cx, first) ==
  LET parent(x) == set(x, "traceparent", cx.sc.id)
      state(x)  == set(x, "tracestate", header(cx.sc.state))
  IN  IF ~Valid(cx.sc) THEN c
      ELSE IF first = "traceparent" THEN state(parent(c)) ELSE parent(state(c))

extract_trace(c, parent) ==
  LET sc == SdkExtract(parent.sc, get(c, "traceparent"), get(c, "tracestate"))
  IN  IF Valid(sc) THEN [parent EXCEPT !.sc = sc, !.object = "nonrecording"]
      ELSE parent

inject_baggage(c, cx) ==
  LET text == baggage_header(cx.baggage)
  IN  IF is_php_empty(text) THEN c ELSE set(c, "baggage", text)

\* Mutant: entries of the parent stay.
extract_baggage_Merges(c, parent) ==
  LET text == get(c, "baggage")
  IN  IF text = <<>> \/ is_php_empty(Head(text)) THEN parent
      ELSE [parent EXCEPT !.baggage =
              FoldLeft(set_entry, parent.baggage, parse_into_builder(Head(text)))]

extract_baggage(c, parent) ==
  LET text == get(c, "baggage")
  IN  IF text = <<>> \/ is_php_empty(Head(text)) THEN parent
      ELSE [parent EXCEPT !.baggage = parse_into_builder(Head(text))]

Propagators == {<<"trace">>, <<"baggage">>, <<"trace", "baggage">>, <<"baggage", "trace">>}

\* MultiTextMapPropagator: each propagator in turn.
inject(ps, c, cx, first) ==
  FoldLeft(LAMBDA x, p : IF p = "trace" THEN inject_trace(x, cx, first)
                         ELSE inject_baggage(x, cx), c, ps)
extract(ps, c, parent) ==
  FoldLeft(LAMBDA cx, p : IF p = "trace" THEN extract_trace(c, cx)
                          ELSE extract_baggage(c, cx), parent, ps)

\* extract_request_headers: string values of $_SERVER's HTTP_ entries.
extract_request_headers(c) == Keep(c, {h \in Range(c) : Len(h.values) = 1})

get_propagated_context(c) ==
  LET hs == extract_request_headers(c)
  IN  SdkExtract(NoSpan, get(hs, "traceparent"), get(hs, "tracestate"))

-----------------------------------------------------------------------------
(* Calls of the script.                                                     *)

NothingSent == [trace |-> NoSpan, baggage |-> <<>>]

Init ==
  /\ ts = <<>> /\ builder = <<>> /\ carrier = <<>>
  /\ ctx = RootContext /\ sent = NothingSent /\ calls = 0

Call == calls < MaxCalls /\ calls' = calls + 1

TraceStateNew(raw) ==
  /\ Call /\ ts' = parse(raw)
  /\ UNCHANGED <<builder, ctx, carrier, sent>>

TraceStateWith(k, v) ==
  /\ Call
  /\ ts' = IF validate_member(ts, k, v) THEN <<Member(k, v)>> \o WithoutKey(ts, k) ELSE ts
  /\ UNCHANGED <<builder, ctx, carrier, sent>>

TraceStateWithout(k) ==
  /\ Call /\ ts' = WithoutKey(ts, k)
  /\ UNCHANGED <<builder, ctx, carrier, sent>>

\* SpanContext::createFromRemoteParent with the TraceState, wrapped and stored:
\* the object keeps the TraceState it was given, the SDK what it reads of it.
StoreRemote(id) ==
  /\ Call
  /\ ctx' = [ctx EXCEPT !.sc = SpanContext(id, otel_trace_state_from_header(header(ts)), ts),
                        !.object = "nonrecording"]
  /\ UNCHANGED <<ts, builder, carrier, sent>>

\* A span started and activated: the SDK gives it its parent's trace state.
StartSpan(id) ==
  /\ Call /\ id # ctx.sc.id
  /\ ctx' = [ctx EXCEPT !.sc = SpanContext(id, ctx.sc.state, php_trace_state(ctx.sc.state)),
                        !.object = "recording"]
  /\ UNCHANGED <<ts, builder, carrier, sent>>

BaggageSet(k, v, m) ==
  /\ Call /\ builder' = set_entry(builder, Entry(k, v, m))
  /\ UNCHANGED <<ts, ctx, carrier, sent>>

BaggageRemove(k) ==
  /\ Call /\ builder' = remove_entry(builder, k)
  /\ UNCHANGED <<ts, ctx, carrier, sent>>

\* build, then storeInContext or activate.
BaggageStore ==
  /\ Call /\ ctx' = [ctx EXCEPT !.baggage = builder]
  /\ UNCHANGED <<ts, builder, carrier, sent>>

ToBuilder ==
  /\ Call /\ builder' = ctx.baggage
  /\ UNCHANGED <<ts, ctx, carrier, sent>>

Inject(ps, first) ==
  /\ Call /\ carrier' = inject(ps, carrier, ctx, first)
  /\ sent' = IF OneSpelling(carrier)
               THEN [trace |-> IF "trace" \in Range(ps) /\ Valid(ctx.sc) THEN ctx.sc ELSE sent.trace,
                     baggage |-> IF "baggage" \in Range(ps) /\ ctx.baggage # <<>>
                                   THEN ctx.baggage ELSE sent.baggage]
               ELSE NothingSent
  /\ UNCHANGED <<ts, builder, ctx>>

Extract(ps, parent) ==
  /\ Call /\ ctx' = extract(ps, carrier, parent)
  /\ UNCHANGED <<ts, builder, carrier, sent>>

\* The script, or a proxy on the way, writes a header itself.
ForeignHeader(name, spelling, values) ==
  /\ Call
  /\ carrier' = Insert(carrier, [name |-> name, spelling |-> spelling, values |-> values])
  /\ sent' = NothingSent
  /\ UNCHANGED <<ts, builder, ctx>>

NewCarrier ==
  /\ Call /\ carrier' = <<>> /\ sent' = NothingSent
  /\ UNCHANGED <<ts, builder, ctx>>

\* The carrier arrives as the headers of a request; its server starts afresh.
ServeRequest ==
  /\ Call /\ OneSpelling(carrier)
  /\ ctx' = [RootContext EXCEPT !.sc = get_propagated_context(carrier)]
  /\ ts' = <<>> /\ builder' = <<>>
  /\ UNCHANGED <<carrier, sent>>

ForeignValues(name) ==
  CASE name = "traceparent" -> {<<>>, <<0>>} \cup {<<i>> : i \in 1..MaxSpanContexts}
    [] name = "tracestate"  -> {<<s>> : s \in RawStates}
    [] name = "baggage"     -> {<<t>> : t \in RawBaggage}

TraceNext ==
  \/ \E raw \in RawStates : TraceStateNew(raw)
  \/ \E k \in StateKeys, v \in StateValues : TraceStateWith(k, v)
  \/ \E k \in StateKeys : TraceStateWithout(k)
  \/ \E id \in 1..MaxSpanContexts : StoreRemote(id) \/ StartSpan(id)

BaggageNext ==
  \/ \E k \in BaggageKeys, v \in BaggageValues, m \in BaggageMetadata : BaggageSet(k, v, m)
  \/ \E k \in BaggageKeys : BaggageRemove(k)
  \/ BaggageStore \/ ToBuilder

\* Calls with the given propagators, and headers of the given names.
CarrierNext(propagators, names) ==
  \/ \E ps \in propagators, first \in {"traceparent", "tracestate"} : Inject(ps, first)
  \/ \E ps \in propagators, parent \in {ctx, RootContext} : Extract(ps, parent)
  \/ \E n \in names, s \in Spellings : \E v \in ForeignValues(n) : ForeignHeader(n, s, v)
  \/ NewCarrier \/ ServeRequest

Next == TraceNext \/ BaggageNext \/ CarrierNext(Propagators, Names)

Spec == Init /\ [][Next]_vars

-----------------------------------------------------------------------------
(* Properties.                                                              *)

\* Every piece of state has the shape the API gives it; a context with a span
\* object holds a valid span context.
TypeOK ==
  /\ \A i \in DOMAIN ts : ts[i].key \in StateKeys /\ ts[i].value \in StateValues
  /\ ctx.sc.id \in 0..MaxSpanContexts
  /\ ctx.object \in {"none", "recording", "nonrecording"}
  /\ ctx.object # "none" => Valid(ctx.sc)
  /\ \A i \in DOMAIN carrier : carrier[i].name \in Names /\ carrier[i].spelling \in Spellings
  /\ calls \in 0..MaxCalls

\* with, without and the constructor, and the SDK's state a span context is
\* shown with, keep a TraceState that its own header spells: parsing the header
\* gives the same members in the same order, so keys are unique, members are
\* valid and no more than MAX_LIST_MEMBERS (TraceStateState::parse,
\* validate_member, init_span_context_object).
StateSpellsItself ==
  \A ms \in {ts, ctx.sc.php} : parse(header(ms)) = ms

\* toString(limit) fits the limit, keeps the order, leaves a header that fits
\* as it is, and drops members of at most 128 bytes only when no longer one is
\* left (limited_header).
LimitedHeaderFits ==
  \A limit \in Limits :
    LET out == limited_header(ts, limit)
        Stays(m) == m \in Range(out)
    IN  /\ limit >= 0 => HeaderLength(out) <= limit
        /\ out = Keep(ts, Range(out))
        /\ HeaderLength(ts) <= limit => out = ts
        /\ (\E i \in DOMAIN ts : ~Stays(ts[i]) /\ MemberLength(ts[i]) <= 128)
              => \A i \in DOMAIN out : MemberLength(out[i]) <= 128

\* A trace state stays valid through every edit, and so does each header made of it.
TraceStateSound == TypeOK /\ StateSpellsItself /\ LimitedHeaderFits

\* The span context the trace propagator last wrote to a carrier is what a
\* server reads from it, the SDK's trace state member for member, whatever the
\* carrier held before in one spelling (inject, extract, set, find_value).  A
\* script that reads it is shown the TraceState the sending script was shown,
\* or none when that has a member the SDK refuses (trace_state_from_value,
\* otel_trace_state_from_header): never a part of it, nor another one.
InjectedTraceArrives ==
  Valid(sent.trace) =>
    LET got == extract_trace(carrier, RootContext).sc
    IN  /\ got.id = sent.trace.id /\ got.state = sent.trace.state
        /\ got.php = IF SdkTakes(sent.trace.php) THEN sent.trace.php ELSE <<>>
        /\ get_propagated_context(carrier) = got

Written(t) == Range(t) \cap {",", ";", "=", "+", "%61", " ", "tab", "/"} = {}

\* The entries of a baggage a reader should see: values trimmed, entries it
\* cannot accept left out, the first MAX_BAGGAGE_ENTRIES of the others.
Readable(entries) ==
  LET Text(t) == IF is_php_empty(t) THEN <<>> ELSE t
      seen == [i \in DOMAIN entries |->
                Entry(entries[i].key, trim_php(entries[i].value),
                      Text(trim_php(entries[i].metadata)))]
      ok   == Keep(seen, {e \in Range(seen) :
                           /\ ~is_php_empty(e.key) /\ ~is_php_empty(e.value)
                           /\ ~value_has_excluded_character(e.value)})
  IN  SubSeq(ok, 1, Min({Len(ok), MaxEntries}))

\* A baggage whose keys and metadata need no escaping arrives entry for entry
\* and replaces the reader's, unless its header is over MAX_BAGGAGE_BYTES,
\* which leaves the reader with none (baggage_header, parse_into_builder).
InjectedBaggageArrives ==
  sent.baggage # <<>>
  /\ (\A i \in DOMAIN sent.baggage : Written(sent.baggage[i].key)
                                    /\ "," \notin Range(sent.baggage[i].metadata))
  => extract_baggage(carrier, ctx).baggage =
       IF Bytes(baggage_header(sent.baggage)) > MaxBytes THEN <<>> ELSE Readable(sent.baggage)
=============================================================================
