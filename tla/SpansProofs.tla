----------------------------- MODULE SpansProofs -----------------------------
(***************************************************************************)
(* Theorems about Spans, for any number of spans, contexts, span objects,  *)
(* calls and requests.                                                     *)
(***************************************************************************)
EXTENDS Spans, FilterProofs, TLAPS

(* The values of a state with m spans, whose request has the root context r. *)

Natives(m) == [sc : Inbound .. m, live : BOOLEAN]

\* A bound object is always bound to the root context of the request.
Objects(m, r) ==
  [kind : {"owned"}, ref : 1 .. m] \cup [kind : {"passive"}, ref : Inbound .. m]
    \cup [kind : {"bound"}, ref : {r} \ {0}]

Contexts(m, r) ==
  [native : Natives(m), span : Objects(m, r) \cup {Null}, root : Objects(m, r) \cup {Null},
   keyed : BOOLEAN]

Entries(m, r) == [id : Nat, context : Contexts(m, r)]

Guards(m) == [by : {"request", "hook", "scope"}, native : Natives(m)]

ScopeGuards == [by : {"scope"}, native : [sc : Int, live : BOOLEAN]]

SdkSpans == [parent : Int, by : {"request", "hook", "php"}, exports : 0 .. 1,
             open : BOOLEAN, written : BOOLEAN]

\* SDK spans: parents are older, and a span is exported exactly when it has ended.
SpanTypes ==
  /\ spans \in Seq(SdkSpans)
  /\ \A n \in 1 .. Len(spans) : /\ spans[n].parent \in Inbound .. n - 1
                                /\ spans[n].exports = IF spans[n].open THEN 0 ELSE 1
  /\ ended \subseteq Inbound .. Len(spans)

\* Contexts and objects name spans that exist, and the root context of the request.
ValueTypes ==
  LET m == Len(spans)
  IN /\ stored \in [DOMAIN stored -> Contexts(m, request)]
     /\ stack \in Seq(Entries(m, request))
     /\ guards \in Seq(Guards(m))
     /\ held \in SUBSET Objects(m, request)
     /\ saved \in Contexts(m, request)
     /\ builder \in [parent : {"current", "root", "explicit"}, native : Natives(m)]
     /\ chain \in Seq(Objects(m, request))
     /\ running \in BOOLEAN

\* Ids: the root context is stored for as long as the request runs, and what is on the
\* stack is stored, because no id is there twice and none is that of a context that
\* may be removed by a call to end.
IdShape ==
  /\ last_id \in Nat /\ request \in 0 .. last_id /\ local_root = request
  /\ DOMAIN stored \subseteq 1 .. last_id
  /\ detached \subseteq DOMAIN stored \ {request}
  /\ request # 0 => request \in DOMAIN stored
  /\ \A i \in 1 .. Len(stack) : stack[i].id \in DOMAIN stored \ (detached \cup {request})
  /\ \A i, j \in 1 .. Len(stack) : i # j => stack[i].id # stack[j].id

\* The root span of the request: recording in the stored context, below every other
\* guard, and open until a call ends it.
RootShape ==
  request # 0 =>
    LET native == stored[request].native
    IN /\ running
       /\ native.live /\ native.sc \in 1 .. Len(spans) /\ spans[native.sc].by = "request"
       /\ native.sc \notin ended => spans[native.sc].open
       /\ Len(guards) > 0 /\ guards[1] = Guard("request", native)

\* Between two requests nothing is held.
IdleShape ==
  ~running =>
    /\ DOMAIN stored = {} /\ stack = <<>> /\ guards = <<>> /\ chain = <<>>
    /\ held = {} /\ saved = Root /\ request = 0

\* Scopes: one entry of the stack, one guard and one object each.
ScopeShape ==
  /\ Len(chain) = Len(stack)
  /\ Len(Keep(guards, ScopeGuards)) = Len(stack)
  /\ \A i \in 1 .. Len(stack) : chain[i] = SpanFrom(stack[i].context)

\* The two views of a context name one span, unless with set one of them.
Agrees(c) == c.span # Null /\ ~c.keyed => SpanContextOf(c.span) = c.native.sc

ViewsAgree == \A c \in LiveContexts : Agrees(c)

\* Scope i is not under a scope of this process's spans.
Starts(i) == i = 1 \/ SpanContextOf(chain[i - 1]) \in {Invalid, Inbound}

\* When only spans are activated, each context of the stack carries the object of its
\* scope, and as root that of the last scope that starts a local root.
RootsFollowScopes ==
  plain =>
    \A i \in 1 .. Len(stack) :
      /\ stack[i].context.span = chain[i]
      /\ \E j \in 1 .. i : /\ Starts(j) /\ stack[i].context.root = chain[j]
                           /\ \A k \in j + 1 .. i : ~Starts(k)

\* What was ended by a call has ended, nothing is open between requests, of requests'
\* spans only the present one's is, and what is referenced was not ended otherwise.
LifeShape ==
  \A n \in 1 .. Len(spans) :
    /\ n \in ended => ~spans[n].open
    /\ ~running => ~spans[n].open
    /\ spans[n].open /\ spans[n].by = "request" =>
         request # 0 /\ n = stored[request].native.sc
    /\ Referenced(n) /\ n \notin ended => spans[n].open

IndInv ==
  /\ SpanTypes /\ ValueTypes /\ IdShape /\ RootShape /\ IdleShape /\ ScopeShape
  /\ ViewsAgree /\ RootsFollowScopes /\ LifeShape /\ WritesHitTheirSpan

-----------------------------------------------------------------------------
(* What the script can get hold of.                                         *)

\* An object that names what exists; if it owns a span it is not the only one to.
SoundObject(o) ==
  /\ o \in Objects(Len(spans), request)
  /\ \A n : o = Owned(n) => Referenced(n)

\* A context whose two views agree and whose objects are sound.
SoundContext(c) ==
  /\ c \in Contexts(Len(spans), request)
  /\ Agrees(c)
  /\ \A n : c.span = Owned(n) \/ c.root = Owned(n) => Referenced(n)

\* The kinds of objects are told apart.
LEMMA Kinds ==
  /\ \A n : /\ Owned(n).kind = "owned" /\ Owned(n).ref = n /\ Owned(n) # Null
            /\ Bound(n).kind = "bound" /\ Bound(n).ref = n /\ Bound(n) # Null
            /\ Passive(n).kind = "passive" /\ Passive(n).ref = n /\ Passive(n) # Null
  /\ \A n, k : /\ Owned(n) # Bound(k) /\ Owned(n) # Passive(k)
               /\ Owned(n) = Owned(k) => n = k
BY DEF Owned, Bound, Passive, Null, Object

\* The three kinds are all there are.
LEMMA ObjectKinds ==
  ASSUME NEW m \in Nat, NEW r \in Nat
  PROVE  /\ \A o \in Objects(m, r) :
              \/ \E n \in 1 .. m : o = Owned(n)
              \/ \E n \in Inbound .. m : o = Passive(n)
              \/ r # 0 /\ o = Bound(r)
         /\ \A n \in 1 .. m : Owned(n) \in Objects(m, r)
         /\ \A n \in Inbound .. m : Passive(n) \in Objects(m, r)
         /\ r # 0 => Bound(r) \in Objects(m, r)
         /\ Null \notin Objects(m, r)
BY DEF Objects, Owned, Bound, Passive, Null, Object

\* More spans leave the values there were.
LEMMA ValuesGrow ==
  ASSUME NEW m \in Nat, NEW k \in Nat, m <= k, NEW r
  PROVE  /\ Natives(m) \subseteq Natives(k)
         /\ Objects(m, r) \subseteq Objects(k, r)
         /\ Contexts(m, r) \subseteq Contexts(k, r)
         /\ Entries(m, r) \subseteq Entries(k, r)
         /\ Guards(m) \subseteq Guards(k)
<1>1. Natives(m) \subseteq Natives(k)
  BY DEF Natives, Inbound
<1>2. Objects(m, r) \subseteq Objects(k, r)
  BY DEF Objects, Inbound
<1>3. Contexts(m, r) \subseteq Contexts(k, r)
  BY <1>1, <1>2 DEF Contexts
<1>4. Entries(m, r) \subseteq Entries(k, r)
  BY <1>3 DEF Entries
<1>5. Guards(m) \subseteq Guards(k)
  BY <1>1 DEF Guards
<1>6. QED
  BY <1>1, <1>2, <1>3, <1>4, <1>5

\* What makes a span referenced.
LEMMA ReferencedBy ==
  ASSUME NEW n
  PROVE  Referenced(n) <=>
           \/ Owned(n) \in held
           \/ \E c \in LiveContexts : c.span = Owned(n) \/ c.root = Owned(n)
BY DEF Referenced

\* The contexts that are referenced.
LEMMA LiveAre ==
  /\ \A id \in DOMAIN stored : stored[id] \in LiveContexts
  /\ \A i \in DOMAIN stack : stack[i].context \in LiveContexts
  /\ saved \in LiveContexts
  /\ \A c \in LiveContexts :
       \/ \E id \in DOMAIN stored : c = stored[id]
       \/ \E i \in DOMAIN stack : c = stack[i].context
       \/ c = saved
BY DEF LiveContexts

\* Everything the script can reach is sound.
LEMMA ReachedSound ==
  ASSUME SpanTypes, ValueTypes, ViewsAgree
  PROVE  /\ \A o \in held : SoundObject(o)
         /\ \A c \in LiveContexts : SoundContext(c)
<1>1. ASSUME NEW o \in held PROVE SoundObject(o)
  BY <1>1, ReferencedBy DEF SoundObject, ValueTypes
<1>2. ASSUME NEW c \in LiveContexts PROVE SoundContext(c)
  <2>1. c \in Contexts(Len(spans), request)
    <3>1. CASE \E id \in DOMAIN stored : c = stored[id]
      BY <3>1 DEF ValueTypes
    <3>2. CASE \E i \in DOMAIN stack : c = stack[i].context
      <4>1. \A i \in DOMAIN stack : stack[i] \in Entries(Len(spans), request)
        BY DEF ValueTypes
      <4>2. QED
        BY <3>2, <4>1 DEF Entries
    <3>3. QED
      BY <1>2, <3>1, <3>2, LiveAre DEF ValueTypes
  <2>2. QED
    BY <1>2, <2>1, ReferencedBy DEF SoundContext, ViewsAgree
<1>3. QED
  BY <1>1, <1>2

\* The SDK's current span.
LEMMA RustCurrentType ==
  ASSUME SpanTypes, ValueTypes
  PROVE  RustCurrent \in Natives(Len(spans))
<1>1. CASE guards = <<>>
  BY <1>1 DEF RustCurrent, Empty, Natives, Inbound, Invalid, SpanTypes
<1>2. CASE guards # <<>>
  <2>1. Last(guards) \in Guards(Len(spans))
    BY <1>2, FrontLast DEF ValueTypes
  <2>2. QED
    BY <1>2, <2>1 DEF RustCurrent, Guards
<1>3. QED
  BY <1>1, <1>2

\* So is the current context.
LEMMA CurrentSound ==
  ASSUME SpanTypes, ValueTypes, ViewsAgree
  PROVE  SoundContext(Current)
<1>1. CASE stack = <<>>
  <2>1. Current = Context(RustCurrent, Null, Null)
    BY <1>1 DEF Current
  <2>2. Current \in Contexts(Len(spans), request)
    BY <2>1, RustCurrentType DEF Contexts, Context
  <2>3. QED
    BY <2>1, <2>2, Kinds DEF SoundContext, Agrees, Context
<1>2. CASE stack # <<>>
  <2>1. Len(stack) \in DOMAIN stack /\ Last(stack) = stack[Len(stack)]
    BY <1>2, EmptySeq DEF ValueTypes, Last
  <2>2. Current \in LiveContexts
    BY <1>2, <2>1, LiveAre DEF Current
  <2>3. QED
    BY <2>2, ReachedSound
<1>3. QED
  BY <1>1, <1>2

\* What a sound context hands out is sound.
LEMMA HandedOut ==
  ASSUME SpanTypes, IdShape, NEW c, SoundContext(c)
  PROVE  SoundObject(SpanFrom(c)) /\ SoundObject(LocalRootFrom(c))
<1>1. Len(spans) \in Nat /\ request \in Nat
  BY DEF SpanTypes, IdShape
<1>2. c \in Contexts(Len(spans), request)
  BY DEF SoundContext
<1>3. SoundObject(SpanFrom(c))
  <2>1. CASE c.span # Null
    BY <1>2, <2>1 DEF SpanFrom, SoundObject, SoundContext, Contexts
  <2>2. CASE c.span = Null
    <3>1. SpanFrom(c) = Passive(c.native.sc) /\ c.native.sc \in Inbound .. Len(spans)
      BY <1>2, <2>2 DEF SpanFrom, Contexts, Natives
    <3>2. QED
      BY <1>1, <3>1, ObjectKinds, Kinds DEF SoundObject
  <2>3. QED
    BY <2>1, <2>2
<1>4. SoundObject(LocalRootFrom(c))
  <2>1. CASE c.root # Null
    BY <1>2, <2>1 DEF LocalRootFrom, SoundObject, SoundContext, Contexts
  <2>2. CASE c.root = Null
    <3>1. \/ request # 0 /\ LocalRootFrom(c) = Bound(request)
          \/ LocalRootFrom(c) = Passive(Invalid)
      BY <2>2 DEF LocalRootFrom, IdShape
    <3>2. Invalid \in Inbound .. Len(spans)
      BY <1>1 DEF Invalid, Inbound
    <3>3. QED
      BY <1>1, <3>1, <3>2, ObjectKinds, Kinds DEF SoundObject
  <2>3. QED
    BY <2>1, <2>2
<1>5. QED
  BY <1>3, <1>4

\* The span context of a sound object is known.
LEMMA KnownSpanContext ==
  ASSUME SpanTypes, ValueTypes, IdShape, NEW o \in Objects(Len(spans), request)
  PROVE  /\ SpanContextOf(o) \in Inbound .. Len(spans)
         /\ o.kind = "bound" => o = Bound(request) /\ request # 0
         /\ o.kind = "bound" => SpanContextOf(o) = stored[request].native.sc
         /\ o.kind # "bound" => SpanContextOf(o) = o.ref
<1>1. Len(spans) \in Nat /\ request \in Nat
  BY DEF SpanTypes, IdShape
<1>2. CASE \E n \in 1 .. Len(spans) : o = Owned(n)
  BY <1>1, <1>2, Kinds DEF SpanContextOf, Inbound
<1>3. CASE \E n \in Inbound .. Len(spans) : o = Passive(n)
  BY <1>1, <1>3, Kinds DEF SpanContextOf
<1>4. CASE request # 0 /\ o = Bound(request)
  <2>1. request \in DOMAIN stored /\ stored[request] \in Contexts(Len(spans), request)
    BY <1>4 DEF IdShape, ValueTypes
  <2>2. SpanContextOf(o) = stored[request].native.sc
    BY <1>4, <2>1, Kinds DEF SpanContextOf, Instance
  <2>3. QED
    BY <1>4, <2>1, <2>2, Kinds DEF Contexts, Natives
<1>5. QED
  BY <1>1, <1>2, <1>3, <1>4, ObjectKinds

\* storeInContext and with make sound contexts.
LEMMA StoredSound ==
  ASSUME SpanTypes, ValueTypes, IdShape, NEW o, SoundObject(o), NEW c, SoundContext(c)
  PROVE  SoundContext(StoreInContext(o, c))
<1>1. o \in Objects(Len(spans), request) /\ c \in Contexts(Len(spans), request)
  BY DEF SoundObject, SoundContext
<1>2. SoundContext(StoreInContext(o, c))
  <2>1. [sc |-> SpanContextOf(o), live |-> FALSE] \in Natives(Len(spans))
    BY <1>1, KnownSpanContext DEF Natives
  <2>2. /\ StoreInContext(o, c) \in Contexts(Len(spans), request)
        /\ StoreInContext(o, c).span = o /\ StoreInContext(o, c).root \in {o, c.root}
        /\ StoreInContext(o, c).native.sc = SpanContextOf(o)
    BY <1>1, <2>1 DEF StoreInContext, Contexts, Context
  <2>3. QED
    BY <2>2 DEF SoundContext, SoundObject, Agrees
<1>3. QED
  BY <1>2

LEMMA WithSound ==
  ASSUME SpanTypes, ValueTypes, IdShape, NEW o, o = Null \/ SoundObject(o),
         NEW c, SoundContext(c)
  PROVE  SoundContext(WithSpan(c, o)) /\ SoundContext(WithRoot(c, o))
<1>1. o \in Objects(Len(spans), request) \cup {Null} /\ c \in Contexts(Len(spans), request)
  BY DEF SoundObject, SoundContext
<1>2. \A n : o = Owned(n) => Referenced(n)
  BY Kinds DEF SoundObject
<1>3. SoundContext(WithSpan(c, o))
  <2> DEFINE d == WithSpan(c, o)
  <2>1. /\ d \in Contexts(Len(spans), request)
        /\ d.span = o /\ d.root = c.root /\ (d.keyed <=> o # Null)
    BY <1>1 DEF Contexts, WithSpan
  <2> HIDE DEF d
  <2>2. SoundContext(d)
    BY <1>2, <2>1 DEF SoundContext, Agrees
  <2>3. QED
    BY <2>2 DEF d
<1>4. SoundContext(WithRoot(c, o))
  <2> DEFINE d == WithRoot(c, o)
  <2>1. /\ d \in Contexts(Len(spans), request) /\ d.keyed = c.keyed
        /\ d.span = c.span /\ d.root = o /\ d.native = c.native
    BY <1>1 DEF Contexts, WithRoot
  <2> HIDE DEF d
  <2>2. SoundContext(d)
    BY <1>2, <2>1 DEF SoundContext, Agrees
  <2>3. QED
    BY <2>2 DEF d
<1>5. QED
  BY <1>3, <1>4

-----------------------------------------------------------------------------
(* What a call does to the SDK spans.                                       *)

\* A call starts at most one span, and a span that ends was ended by a call, or was one
\* of the script that nothing refers to any more.
SpanStep ==
  /\ spans' \in Seq(SdkSpans) /\ Len(spans') \in {Len(spans), Len(spans) + 1}
  /\ \A n \in 1 .. Len(spans) :
       /\ spans'[n].parent = spans[n].parent /\ spans'[n].by = spans[n].by
       /\ spans'[n].exports = IF spans'[n].open THEN 0 ELSE 1
       /\ spans'[n].open => spans[n].open
       /\ spans[n].open /\ ~spans'[n].open => n \in ended' \/ n \in Freed
       /\ n \in ended' => ~spans'[n].open
  /\ Len(spans') > Len(spans) =>
       LET s == spans'[Len(spans) + 1]
       IN s.open /\ s.exports = 0 /\ s.by # "request" /\ s.parent \in Inbound .. Len(spans)
  /\ ended \subseteq ended' /\ ended' \subseteq Inbound .. Len(spans)
  /\ WritesHitTheirSpan'

\* What ending spans does to each of them.
LEMMA EndingSpans ==
  ASSUME NEW s \in Seq(SdkSpans), NEW S,
         \A n \in 1 .. Len(s) : s[n].exports = IF s[n].open THEN 0 ELSE 1
  PROVE  /\ Ending(S, s) \in Seq(SdkSpans) /\ Len(Ending(S, s)) = Len(s)
         /\ \A n \in 1 .. Len(s) :
              LET e == Ending(S, s)[n]
              IN /\ e.parent = s[n].parent /\ e.by = s[n].by /\ e.written = s[n].written
                 /\ e.open <=> s[n].open /\ n \notin S
                 /\ e.exports = IF e.open THEN 0 ELSE 1
<1>1. \A n \in 1 .. Len(s) : s[n] \in SdkSpans
  OBVIOUS
<1>2. DOMAIN s = 1 .. Len(s) /\ Len(s) \in Nat
  OBVIOUS
<1>3. ASSUME NEW x \in SdkSpans, x.exports = IF x.open THEN 0 ELSE 1
      PROVE  /\ EndSpan(x) \in SdkSpans /\ EndSpan(x).parent = x.parent
             /\ EndSpan(x).by = x.by /\ EndSpan(x).written = x.written
             /\ ~EndSpan(x).open /\ EndSpan(x).exports = 1
  <2>1. CASE x.open
    <3>1. EndSpan(x) = [x EXCEPT !.open = FALSE, !.exports = 1]
      BY <1>3, <2>1 DEF EndSpan, SdkSpans
    <3>2. PICK y : y = EndSpan(x)
      OBVIOUS
    <3>3. y = [x EXCEPT !.open = FALSE, !.exports = 1]
      BY <3>1, <3>2
    <3>4. /\ y.open = FALSE /\ y.exports = 1 /\ y.parent = x.parent
          /\ y.by = x.by /\ y.written = x.written
      BY <3>3 DEF SdkSpans
    <3>5. y \in SdkSpans
      <4>1. y = [parent |-> x.parent, by |-> x.by, exports |-> 1, open |-> FALSE,
                 written |-> x.written]
        BY <3>3 DEF SdkSpans
      <4>2. QED
        BY <4>1 DEF SdkSpans
    <3>6. QED
      BY <3>2, <3>4, <3>5
  <2>2. CASE ~x.open
    BY <1>3, <2>2 DEF EndSpan
  <2>3. QED
    BY <2>1, <2>2
<1>4. Ending(S, s) = [n \in 1 .. Len(s) |-> IF n \in S THEN EndSpan(s[n]) ELSE s[n]]
  BY <1>2 DEF Ending
<1>5. \A n \in 1 .. Len(s) : (IF n \in S THEN EndSpan(s[n]) ELSE s[n]) \in SdkSpans
  BY <1>1, <1>3
<1>6. Ending(S, s) \in Seq(SdkSpans) /\ Len(Ending(S, s)) = Len(s)
  BY <1>2, <1>4, <1>5
<1>7. ASSUME NEW n \in 1 .. Len(s)
      PROVE  LET e == Ending(S, s)[n]
             IN /\ e.parent = s[n].parent /\ e.by = s[n].by /\ e.written = s[n].written
                /\ e.open <=> s[n].open /\ n \notin S
                /\ e.exports = IF e.open THEN 0 ELSE 1
  <2>1. CASE n \in S
    <3>1. Ending(S, s)[n] = EndSpan(s[n])
      BY <1>4, <2>1
    <3>2. QED
      BY <1>1, <1>3, <2>1, <3>1
  <2>2. CASE n \notin S
    <3>1. Ending(S, s)[n] = s[n]
      BY <1>4, <2>2
    <3>2. QED
      BY <2>2, <3>1
  <2>3. QED
    BY <2>1, <2>2
<1>8. QED
  BY <1>6, <1>7

\* Spans end by a call or because they were freed.
LEMMA EndingStep ==
  ASSUME SpanTypes, LifeShape, WritesHitTheirSpan, NEW S, spans' = Ending(S, spans),
         aimed' = aimed, ended \subseteq ended', ended' \subseteq Inbound .. Len(spans),
         \A n \in S : n \in ended' \/ n \in Freed,
         \A n \in ended' : n \in ended \/ n \in S
  PROVE  SpanStep
<1>1. /\ spans \in Seq(SdkSpans) /\ Len(spans) \in Nat
      /\ \A n \in 1 .. Len(spans) : spans[n].exports = IF spans[n].open THEN 0 ELSE 1
  BY DEF SpanTypes
<1>2. /\ spans' \in Seq(SdkSpans) /\ Len(spans') = Len(spans)
      /\ \A n \in 1 .. Len(spans) :
           /\ spans'[n].parent = spans[n].parent /\ spans'[n].by = spans[n].by
           /\ spans'[n].written = spans[n].written
           /\ spans'[n].open <=> spans[n].open /\ n \notin S
           /\ spans'[n].exports = IF spans'[n].open THEN 0 ELSE 1
  BY <1>1, EndingSpans
<1>3. \A n \in 1 .. Len(spans) : n \in ended => ~spans[n].open
  BY DEF LifeShape
<1>4. DOMAIN spans = 1 .. Len(spans) /\ DOMAIN spans' = 1 .. Len(spans)
  BY <1>1, <1>2
<1>5. WritesHitTheirSpan'
  BY <1>2, <1>4 DEF WritesHitTheirSpan
<1>6. QED
  BY <1>1, <1>2, <1>3, <1>5 DEF SpanStep

\* A span starts.
LEMMA AppendStep ==
  ASSUME SpanTypes, LifeShape, WritesHitTheirSpan,
         NEW p \in Inbound .. Len(spans), NEW by \in {"hook", "php"},
         spans' = Append(spans, Span(p, by)), UNCHANGED <<aimed, ended>>
  PROVE  SpanStep
<1>1. /\ spans \in Seq(SdkSpans) /\ Len(spans) \in Nat
      /\ \A n \in 1 .. Len(spans) : spans[n].exports = IF spans[n].open THEN 0 ELSE 1
      /\ ended \subseteq Inbound .. Len(spans)
  BY DEF SpanTypes
<1>2. /\ Span(p, by) \in SdkSpans /\ Span(p, by).open /\ Span(p, by).exports = 0
      /\ Span(p, by).by # "request" /\ Span(p, by).parent = p /\ Span(p, by).written = FALSE
  BY <1>1 DEF Span, SdkSpans, Inbound
<1>3. /\ spans' \in Seq(SdkSpans) /\ Len(spans') = Len(spans) + 1
      /\ \A n \in 1 .. Len(spans) : spans'[n] = spans[n]
      /\ spans'[Len(spans) + 1] = Span(p, by)
  BY <1>1, <1>2
<1>4. \A n \in 1 .. Len(spans) : n \in ended => ~spans[n].open
  BY DEF LifeShape
<1>5. DOMAIN spans = 1 .. Len(spans) /\ DOMAIN spans' = 1 .. Len(spans) + 1
  BY <1>1, <1>3
<1>6. WritesHitTheirSpan'
  BY <1>1, <1>2, <1>3, <1>5 DEF WritesHitTheirSpan
<1>7. QED
  BY <1>1, <1>2, <1>3, <1>4, <1>6 DEF SpanStep

\* Nothing happens to the spans.
LEMMA SameSpans ==
  ASSUME SpanTypes, LifeShape, WritesHitTheirSpan, UNCHANGED <<spans, aimed, ended>>
  PROVE  SpanStep
BY DEF SpanTypes, LifeShape, WritesHitTheirSpan, SpanStep

\* The span that a call on an object reaches is the one whose id the object reports; it
\* is none for an object that records nothing.
LEMMA TargetKnown ==
  ASSUME SpanTypes, ValueTypes, IdShape, RootShape, NEW o \in Objects(Len(spans), request)
  PROVE  /\ o.kind = "passive" => Target(o) = 0
         /\ o.kind # "passive" => /\ Target(o) = SpanContextOf(o)
                                  /\ Target(o) \in 1 .. Len(spans)
         /\ Target(o) \in 0 .. Len(spans)
<1>1. Len(spans) \in Nat /\ request \in Nat
  BY DEF SpanTypes, IdShape
<1>2. CASE \E n \in 1 .. Len(spans) : o = Owned(n)
  BY <1>1, <1>2, Kinds DEF SpanContextOf, Target
<1>3. CASE \E n \in Inbound .. Len(spans) : o = Passive(n)
  BY <1>1, <1>3, Kinds DEF Target
<1>4. CASE request # 0 /\ o = Bound(request)
  <2>1. /\ Instance(request) = stored[request]
        /\ stored[request].native.live /\ stored[request].native.sc \in 1 .. Len(spans)
    BY <1>4 DEF IdShape, RootShape, Instance
  <2>2. QED
    BY <1>1, <1>4, <2>1, Kinds DEF SpanContextOf, Target
<1>5. QED
  BY <1>1, <1>2, <1>3, <1>4, ObjectKinds

\* A write reaches the span whose id the object reports, if that is open.
LEMMA WriteStep ==
  ASSUME IndInv, NEW o \in held, Write(o)
  PROVE  SpanStep
<1>1. /\ spans \in Seq(SdkSpans) /\ Len(spans) \in Nat /\ DOMAIN spans = 1 .. Len(spans)
      /\ \A n \in 1 .. Len(spans) : spans[n].exports = IF spans[n].open THEN 0 ELSE 1
      /\ ended \subseteq Inbound .. Len(spans)
  BY DEF IndInv, SpanTypes
<1>2. o \in Objects(Len(spans), request)
  BY DEF IndInv, ValueTypes
<1>3. PICK n \in 0 .. Len(spans) : n = Target(o)
  BY <1>2, TargetKnown DEF IndInv
<1>4. /\ spans' = IF n # 0 /\ spans[n].open THEN [spans EXCEPT ![n].written = TRUE] ELSE spans
      /\ ended' = ended
  BY <1>3 DEF Write, WriteTarget
<1>5. aimed' = IF n # 0 /\ spans[n].open THEN aimed \cup {n} ELSE aimed
  <2>1. aimed' = IF o.kind # "passive" /\ SpanContextOf(o) # Invalid
                     /\ spans[SpanContextOf(o)].open
                 THEN aimed \cup {SpanContextOf(o)} ELSE aimed
    BY DEF Write
  <2>2. QED
    BY <1>1, <1>2, <1>3, <2>1, TargetKnown DEF IndInv, Invalid
<1>6. \A k \in 1 .. Len(spans) : k \in ended => ~spans[k].open
  BY DEF IndInv, LifeShape
<1>7. CASE n # 0 /\ spans[n].open
  <2>1. spans' = [spans EXCEPT ![n].written = TRUE] /\ n \in 1 .. Len(spans)
    BY <1>1, <1>4, <1>7
  <2>2. \A x \in SdkSpans : [x EXCEPT !.written = TRUE] \in SdkSpans
    BY DEF SdkSpans
  <2>3. spans[n] \in SdkSpans
    BY <1>1, <2>1
  <2>4. /\ spans' \in Seq(SdkSpans) /\ Len(spans') = Len(spans)
        /\ \A k \in 1 .. Len(spans) : k # n => spans'[k] = spans[k]
        /\ spans'[n] = [spans[n] EXCEPT !.written = TRUE]
    BY <1>1, <2>1, <2>2, <2>3
  <2>5. /\ spans'[n].parent = spans[n].parent /\ spans'[n].by = spans[n].by
        /\ spans'[n].open = spans[n].open /\ spans'[n].exports = spans[n].exports
        /\ spans'[n].written = TRUE
    BY <2>3, <2>4 DEF SdkSpans
  <2>6. DOMAIN spans' = 1 .. Len(spans)
    BY <2>4
  <2>7. WritesHitTheirSpan'
    BY <1>1, <1>5, <1>7, <2>1, <2>4, <2>5, <2>6 DEF WritesHitTheirSpan, IndInv
  <2>8. QED
    BY <1>1, <1>4, <1>6, <2>1, <2>4, <2>5, <2>7 DEF SpanStep
<1>8. CASE ~(n # 0 /\ spans[n].open)
  BY <1>4, <1>5, <1>8, SameSpans DEF IndInv
<1>9. QED
  BY <1>7, <1>8

-----------------------------------------------------------------------------
(* The guards.                                                              *)

\* What precedes a removed element stays in its place.
LEMMA RemoveKeepsFirst ==
  ASSUME NEW X, NEW s \in Seq(X), NEW i \in 2 .. Len(s)
  PROVE  Len(RemoveAt(s, i)) > 0 /\ RemoveAt(s, i)[1] = s[1]
<1>1. Len(s) \in Nat /\ i \in 1 .. Len(s) /\ \A j \in 1 .. Len(s) : s[j] \in X
  OBVIOUS
<1>2. PICK u, v : u = Before(s, i) /\ v = After(s, i)
  OBVIOUS
<1>3. /\ u \in Seq(X) /\ v \in Seq(X) /\ RemoveAt(s, i) = u \o v /\ Len(u) = i - 1
      /\ Len(RemoveAt(s, i)) = Len(s) - 1
  <2>1. /\ Before(s, i) \in Seq(X) /\ After(s, i) \in Seq(X)
        /\ RemoveAt(s, i) = Before(s, i) \o After(s, i) /\ Len(Before(s, i)) = i - 1
    BY <1>1, RemoveParts
  <2>2. Len(RemoveAt(s, i)) = Len(s) - 1
    BY <1>1, RemoveIsSeq
  <2>3. QED
    BY <1>2, <2>1, <2>2, Zenon
<1>4. u[1] = s[1]
  BY <1>1, <1>2, SubSeqProperties DEF Before
<1>5. (u \o v)[1] = u[1]
  BY <1>1, <1>3
<1>6. QED
  BY <1>1, <1>3, <1>4, <1>5

\* The guard of a scope shows in its field.
LEMMA ScopeGuardFields ==
  ASSUME NEW m \in Nat, NEW g \in Guards(m)
  PROVE  g \in ScopeGuards <=> g.by = "scope"
BY DEF Guards, ScopeGuards, Natives, Inbound

\* While a scope is open its guard is found.
LEMMA TopScope ==
  ASSUME SpanTypes, ValueTypes, ScopeShape, stack # <<>>
  PROVE  LET top == SelectLastInSeq(guards, LAMBDA g : g.by = "scope")
         IN top \in 1 .. Len(guards) /\ guards[top] \in ScopeGuards
<1> DEFINE I == {i \in 1 .. Len(guards) : guards[i].by = "scope"}
<1>1. /\ guards \in Seq(Guards(Len(spans))) /\ Len(spans) \in Nat /\ Len(guards) \in Nat
      /\ \A i \in 1 .. Len(guards) : guards[i] \in Guards(Len(spans))
  BY DEF SpanTypes, ValueTypes
<1>2. Len(Keep(guards, ScopeGuards)) > 0
  BY EmptySeq DEF ScopeShape, ValueTypes
<1>3. PICK i \in 1 .. Len(guards) : guards[i] \in ScopeGuards
  BY <1>1, <1>2, KeepSomething
<1>4. i \in I
  BY <1>1, <1>3, ScopeGuardFields
<1>5. Max(I) \in I
  BY <1>1, <1>4, LastPosition
<1>6. SelectLastInSeq(guards, LAMBDA g : g.by = "scope") = Max(I)
  BY <1>4 DEF SelectLastInSeq
<1>7. QED
  BY <1>1, <1>5, <1>6, ScopeGuardFields

-----------------------------------------------------------------------------
(* What stays while the request runs.                                       *)

\* The root context of the request is where it was, as is its guard.
RootFixed ==
  /\ running /\ running' = running /\ request' = request
  /\ request # 0 =>
       /\ request \in DOMAIN stored' /\ stored'[request] = stored[request]
       /\ Len(guards') > 0 /\ guards'[1] = guards[1]

\* The guard of the request is neither a hook's nor a scope's.
LEMMA GuardsFixed ==
  ASSUME IndInv, request # 0, NEW i \in 1 .. Len(guards), guards[i].by # "request"
  PROVE  Len(RemoveAt(guards, i)) > 0 /\ RemoveAt(guards, i)[1] = guards[1]
<1>1. guards \in Seq(Guards(Len(spans))) /\ Len(guards) \in Nat
  BY DEF IndInv, ValueTypes
<1>2. guards[1].by = "request"
  BY DEF IndInv, RootShape, Guard
<1>3. i \in 2 .. Len(guards)
  BY <1>1, <1>2
<1>4. QED
  BY <1>1, <1>3, RemoveKeepsFirst

\* A new guard is above the others.
LEMMA GuardAbove ==
  ASSUME IndInv, request # 0, NEW g
  PROVE  Len(Append(guards, g)) > 0 /\ Append(guards, g)[1] = guards[1]
<1>1. guards \in Seq(Guards(Len(spans))) /\ Len(guards) \in Nat /\ Len(guards) > 0
  BY DEF IndInv, ValueTypes, RootShape
<1>2. QED
  BY <1>1

\* An instance that is stored takes no other's place.
LEMMA InstanceAdded ==
  ASSUME IdShape, NEW c
  PROVE  /\ DOMAIN StoreInstance(c) = DOMAIN stored \cup {last_id + 1}
         /\ last_id + 1 \notin DOMAIN stored /\ last_id + 1 # request
         /\ StoreInstance(c)[last_id + 1] = c
         /\ \A id \in DOMAIN stored : StoreInstance(c)[id] = stored[id]
BY DEF IdShape, StoreInstance

\* No call of the script touches the root context or its guard.
LEMMA CallKeepsRoot ==
  ASSUME IndInv, Call
  PROVE  RootFixed
<1>1. request # 0 => request \in DOMAIN stored /\ Len(guards) > 0
  BY DEF IndInv, IdShape, RootShape
<1>2. ASSUME running, UNCHANGED <<stored, guards, rootVars>>
      PROVE  RootFixed
  BY <1>1, <1>2 DEF RootFixed, rootVars
<1>3. CASE HookBegin
  BY <1>1, <1>3, GuardAbove DEF HookBegin, RootFixed, rootVars, tableVars
<1>4. CASE HookEnd
  <2>1. PICK i \in DOMAIN guards : /\ running /\ guards[i].by = "hook"
                                   /\ guards' = RemoveAt(guards, i)
    BY <1>4 DEF HookEnd
  <2>2. i \in 1 .. Len(guards)
    BY <2>1 DEF IndInv, ValueTypes
  <2>3. UNCHANGED <<stored, rootVars>>
    BY <1>4 DEF HookEnd, tableVars
  <2>4. QED
    BY <1>1, <2>1, <2>2, <2>3, GuardsFixed DEF RootFixed, rootVars
<1>5. CASE SpanBuilder
  BY <1>2, <1>5 DEF SpanBuilder, tableVars, activeVars
<1>6. ASSUME NEW parent, SetParent(parent) PROVE RootFixed
  BY <1>2, <1>6 DEF SetParent, tableVars, activeVars
<1>7. CASE StartSpan
  BY <1>2, <1>7 DEF StartSpan, tableVars, activeVars
<1>8. CASE Obtain
  BY <1>2, <1>8 DEF Obtain, tableVars, activeVars
<1>9. ASSUME NEW o \in held, End(o) PROVE RootFixed
  <2>1. /\ running /\ UNCHANGED <<guards, rootVars>>
        /\ \E gone : /\ gone \subseteq detached
                     /\ stored' = [id \in DOMAIN stored \ gone |-> stored[id]]
    BY <1>9 DEF End, activeVars
  <2>2. request # 0 => request \notin detached
    BY DEF IndInv, IdShape
  <2>3. QED
    BY <1>1, <2>1, <2>2 DEF RootFixed, rootVars
<1>10. ASSUME NEW o \in held, Write(o) PROVE RootFixed
  BY <1>2, <1>10 DEF Write, tableVars, activeVars
<1>11. ASSUME running, UNCHANGED rootVars,
              NEW c, NEW g, stored' = StoreInstance(c), guards' = Append(guards, g)
       PROVE  RootFixed
  BY <1>1, <1>11, GuardAbove, InstanceAdded DEF RootFixed, rootVars, IndInv
<1>12. ASSUME NEW o \in held, Activate(o) PROVE RootFixed
  BY <1>11, <1>12 DEF Activate, ActivateContext
<1>13. ASSUME NEW o \in held, Unset(o) PROVE RootFixed
  BY <1>2, <1>13 DEF Unset, tableVars, activeVars
<1>14. CASE ActivateSaved
  BY <1>11, <1>14 DEF ActivateSaved, ActivateContext
<1>15. CASE Save \/ With
  BY <1>2, <1>15 DEF Save, With, tableVars, activeVars
<1>16. CASE Detach
  <2>1. PICK top : top = SelectLastInSeq(guards, LAMBDA g : g.by = "scope")
    OBVIOUS
  <2>2. stack # <<>> /\ running /\ guards' = RemoveAt(guards, top)
        /\ UNCHANGED <<request, running>>
    BY <1>16, <2>1 DEF Detach
  <2>3. top \in 1 .. Len(guards) /\ guards[top].by # "request"
    BY <2>1, <2>2, TopScope DEF IndInv, ScopeGuards
  <2>4. \/ stored' = stored
        \/ stored' = [i \in DOMAIN stored \ {Last(stack).id} |-> stored[i]]
    BY <1>16 DEF Detach
  <2>5. Last(stack).id # request
    BY <2>2, EmptySeq DEF IndInv, IdShape, ValueTypes, Last
  <2>6. QED
    BY <1>1, <2>2, <2>3, <2>4, <2>5, GuardsFixed DEF RootFixed
<1>17. QED
  BY <1>3, <1>4, <1>5, <1>6, <1>7, <1>8, <1>9, <1>10, <1>12, <1>13, <1>14, <1>15, <1>16
     DEF Call

-----------------------------------------------------------------------------
(* Spans, one case per call.                                                *)

\* The parent that the builder gives to the next span.
LEMMA BuilderParentKnown ==
  ASSUME SpanTypes, ValueTypes, ViewsAgree
  PROVE  BuilderParent.sc \in Inbound .. Len(spans)
<1>1. Current.native.sc \in Inbound .. Len(spans)
  BY CurrentSound DEF SoundContext, Contexts, Natives
<1>2. /\ builder.parent \in {"current", "root", "explicit"}
      /\ builder.native.sc \in Inbound .. Len(spans)
  BY DEF ValueTypes, Natives
<1>3. Empty.sc \in Inbound .. Len(spans)
  BY DEF Empty, Invalid, Inbound, SpanTypes
<1>4. QED
  BY <1>1, <1>2, <1>3 DEF BuilderParent

LEMMA CallSpans ==
  ASSUME IndInv, Call
  PROVE  SpanStep
<1>1. /\ SpanTypes /\ ValueTypes /\ IdShape /\ RootShape /\ ViewsAgree /\ LifeShape
      /\ WritesHitTheirSpan /\ ended \subseteq Inbound .. Len(spans) /\ Len(spans) \in Nat
  BY DEF IndInv, SpanTypes
<1>2. CASE HookBegin
  <2>1. /\ RustCurrent.sc \in Inbound .. Len(spans)
        /\ spans' = Append(spans, Span(RustCurrent.sc, "hook")) /\ UNCHANGED <<aimed, ended>>
    BY <1>1, <1>2, RustCurrentType DEF HookBegin, histVars, Natives
  <2>2. QED
    BY <1>1, <2>1, AppendStep
<1>3. CASE HookEnd
  <2>1. PICK i \in DOMAIN guards :
          /\ spans' = Ending({guards[i].native.sc}, spans)
          /\ ended' = ended \cup {guards[i].native.sc} /\ aimed' = aimed
    BY <1>3 DEF HookEnd
  <2>2. guards[i].native.sc \in Inbound .. Len(spans)
    <3>1. guards[i] \in Guards(Len(spans))
      BY <1>1 DEF ValueTypes
    <3>2. QED
      BY <3>1 DEF Guards, Natives
  <2>3. PICK S : S = {guards[i].native.sc}
    OBVIOUS
  <2>4. /\ spans' = Ending(S, spans) /\ ended \subseteq ended'
        /\ ended' \subseteq Inbound .. Len(spans)
        /\ \A n \in S : n \in ended'
        /\ \A n \in ended' : n \in ended \/ n \in S
    BY <1>1, <2>1, <2>2, <2>3
  <2>5. QED
    BY <1>1, <2>1, <2>4, EndingStep
<1>4. CASE SpanBuilder
  BY <1>1, <1>4, SameSpans DEF SpanBuilder, histVars
<1>5. ASSUME NEW parent, SetParent(parent) PROVE SpanStep
  BY <1>1, <1>5, SameSpans DEF SetParent, histVars
<1>6. CASE StartSpan
  <2>1. \/ spans' = Append(spans, Span(BuilderParent.sc, "php"))
        \/ UNCHANGED spans
    BY <1>6 DEF StartSpan
  <2>2. UNCHANGED <<aimed, ended>>
    BY <1>6 DEF StartSpan, histVars
  <2>3. QED
    BY <1>1, <2>1, <2>2, BuilderParentKnown, AppendStep, SameSpans
<1>7. CASE Obtain
  BY <1>1, <1>7, SameSpans DEF Obtain, histVars
<1>8. ASSUME NEW o \in held, End(o) PROVE SpanStep
  <2>1. PICK n : n = Target(o)
    OBVIOUS
  <2>2. n \in Inbound .. Len(spans)
    <3>1. Target(o) \in 0 .. Len(spans)
      BY <1>1, <1>8, TargetKnown DEF ValueTypes
    <3>2. QED
      BY <1>1, <2>1, <3>1 DEF Inbound
  <2>3. spans' = Ending({n}, spans) /\ ended' = ended \cup {n} /\ aimed' = aimed
    BY <1>8, <2>1 DEF End
  <2>4. PICK S : S = {n}
    OBVIOUS
  <2>5. /\ spans' = Ending(S, spans) /\ ended \subseteq ended'
        /\ ended' \subseteq Inbound .. Len(spans)
        /\ \A k \in S : k \in ended'
        /\ \A k \in ended' : k \in ended \/ k \in S
    BY <1>1, <2>2, <2>3, <2>4
  <2>6. QED
    BY <1>1, <2>3, <2>5, EndingStep
<1>9. ASSUME NEW o \in held, Write(o) PROVE SpanStep
  BY <1>9, WriteStep
<1>10. ASSUME NEW o \in held, Activate(o) PROVE SpanStep
  BY <1>1, <1>10, SameSpans DEF Activate
<1>11. ASSUME spans' = Ending(Freed, spans), UNCHANGED <<aimed, ended>>
       PROVE  SpanStep
  BY <1>1, <1>11, EndingStep
<1>12. ASSUME NEW o \in held, Unset(o) PROVE SpanStep
  BY <1>11, <1>12 DEF Unset, histVars
<1>13. CASE ActivateSaved
  BY <1>1, <1>13, SameSpans DEF ActivateSaved
<1>14. CASE Save \/ With
  BY <1>11, <1>14 DEF Save, With, histVars
<1>15. CASE Detach
  BY <1>11, <1>15 DEF Detach
<1>16. QED
  BY <1>2, <1>3, <1>4, <1>5, <1>6, <1>7, <1>8, <1>9, <1>10, <1>12, <1>13, <1>14, <1>15
     DEF Call

-----------------------------------------------------------------------------
(* Ids, one case per call.                                                  *)

LEMMA CallIds ==
  ASSUME IndInv, Call
  PROVE  IdShape'
<1>1. /\ IdShape /\ ValueTypes /\ Len(stack) \in Nat
      /\ last_id \in Nat /\ request \in 0 .. last_id
  BY DEF IndInv, IdShape, ValueTypes
<1>2. ASSUME UNCHANGED <<last_id, request, local_root, stored, detached, stack>>
      PROVE  IdShape'
  BY <1>1, <1>2 DEF IdShape
<1>3. CASE HookBegin
  BY <1>2, <1>3 DEF HookBegin, rootVars, tableVars
<1>4. CASE HookEnd
  BY <1>2, <1>4 DEF HookEnd, rootVars, tableVars
<1>5. CASE SpanBuilder
  BY <1>2, <1>5 DEF SpanBuilder, rootVars, tableVars, activeVars
<1>6. ASSUME NEW parent, SetParent(parent) PROVE IdShape'
  BY <1>2, <1>6 DEF SetParent, rootVars, tableVars, activeVars
<1>7. CASE StartSpan
  BY <1>2, <1>7 DEF StartSpan, rootVars, tableVars, activeVars
<1>8. CASE Obtain
  BY <1>2, <1>8 DEF Obtain, rootVars, tableVars, activeVars
<1>9. ASSUME NEW o \in held, End(o) PROVE IdShape'
  <2>1. PICK gone : /\ gone \subseteq detached
                    /\ stored' = [id \in DOMAIN stored \ gone |-> stored[id]]
                    /\ detached' = detached \ gone
    BY <1>9 DEF End
  <2>2. UNCHANGED <<last_id, request, local_root, stack>>
    BY <1>9 DEF End, rootVars, activeVars
  <2>3. DOMAIN stored' = DOMAIN stored \ gone
    BY <2>1
  <2>4. QED
    BY <1>1, <2>1, <2>2, <2>3 DEF IdShape
<1>10. ASSUME NEW o \in held, Write(o) PROVE IdShape'
  BY <1>2, <1>10 DEF Write, rootVars, tableVars, activeVars
<1>11. ASSUME NEW c, last_id' = last_id + 1, stored' = StoreInstance(c),
              stack' = Append(stack, [id |-> last_id + 1, context |-> c]),
              UNCHANGED <<detached, rootVars>>
       PROVE  IdShape'
  <2>1. /\ DOMAIN stored' = DOMAIN stored \cup {last_id + 1}
        /\ last_id + 1 \notin DOMAIN stored /\ last_id + 1 # request
    BY <1>1, <1>11, InstanceAdded
  <2>2. /\ Len(stack') = Len(stack) + 1
        /\ stack'[Len(stack) + 1].id = last_id + 1
        /\ \A i \in 1 .. Len(stack) : stack'[i] = stack[i]
    BY <1>1, <1>11 DEF ValueTypes
  <2>3. \A i \in 1 .. Len(stack') : i \in 1 .. Len(stack) \/ i = Len(stack) + 1
    BY <1>1, <2>2
  <2>4. \A i \in 1 .. Len(stack) : stack[i].id \in DOMAIN stored
    BY <1>1 DEF IdShape
  <2>5. \A i \in 1 .. Len(stack') :
          stack'[i].id \in DOMAIN stored' \ (detached' \cup {request'})
    BY <1>1, <1>11, <2>1, <2>2, <2>3 DEF IdShape, rootVars
  <2>6. \A i, j \in 1 .. Len(stack') : i # j => stack'[i].id # stack'[j].id
    <3>1. \A i, j \in 1 .. Len(stack) : i # j => stack'[i].id # stack'[j].id
      BY <1>1, <2>2 DEF IdShape
    <3>2. \A i \in 1 .. Len(stack) : stack'[i].id # last_id + 1
      BY <2>1, <2>2, <2>4
    <3>3. QED
      BY <2>2, <2>3, <3>1, <3>2
  <2>7. QED
    BY <1>1, <1>11, <2>1, <2>5, <2>6 DEF IdShape, rootVars
<1>12. ASSUME NEW o \in held, Activate(o) PROVE IdShape'
  BY <1>11, <1>12 DEF Activate, ActivateContext
<1>13. ASSUME NEW o \in held, Unset(o) PROVE IdShape'
  BY <1>2, <1>13 DEF Unset, rootVars, tableVars, activeVars
<1>14. CASE ActivateSaved
  BY <1>11, <1>14 DEF ActivateSaved, ActivateContext
<1>15. CASE Save \/ With
  BY <1>2, <1>15 DEF Save, With, rootVars, tableVars, activeVars
<1>16. CASE Detach
  <2>1. PICK id : id = Last(stack).id
    OBVIOUS
  <2>2. /\ stack # <<>> /\ stack' = Front(stack) /\ UNCHANGED <<last_id, request>>
        /\ \/ stored' = stored /\ detached' = detached \cup {id}
           \/ stored' = [i \in DOMAIN stored \ {id} |-> stored[i]] /\ detached' = detached
        /\ local_root' = IF id = local_root THEN 0 ELSE local_root
    BY <1>16, <2>1 DEF Detach, RemovesLocalRoot
  <2>3. /\ Len(stack) > 0 /\ id = stack[Len(stack)].id
        /\ Len(stack') = Len(stack) - 1
        /\ \A i \in 1 .. Len(stack') : stack'[i] = stack[i]
    BY <1>1, <2>1, <2>2, FrontLast, EmptySeq DEF ValueTypes, Last
  <2>4. /\ id \in DOMAIN stored \ (detached \cup {request}) /\ id # 0
        /\ \A i \in 1 .. Len(stack') : /\ i \in 1 .. Len(stack) /\ stack[i].id # id
    BY <1>1, <2>3 DEF IdShape
  <2>5. local_root' = request' /\ DOMAIN stored \ {id} \subseteq DOMAIN stored'
        /\ DOMAIN stored' \subseteq DOMAIN stored
        /\ detached' \subseteq detached \cup {id}
        /\ detached' \subseteq DOMAIN stored'
    BY <1>1, <2>2, <2>4 DEF IdShape
  <2>6. QED
    BY <1>1, <2>2, <2>3, <2>4, <2>5 DEF IdShape
<1>17. QED
  BY <1>3, <1>4, <1>5, <1>6, <1>7, <1>8, <1>9, <1>10, <1>12, <1>13, <1>14, <1>15, <1>16
     DEF Call

-----------------------------------------------------------------------------
(* Scopes, one case per call.                                               *)

\* A guard that is no scope's leaves the number of scopes' guards.
LEMMA OtherGuards ==
  ASSUME SpanTypes, ValueTypes
  PROVE  /\ \A m \in Nat : \A g \in Guards(m) : g.by # "scope" =>
              Keep(Append(guards, g), ScopeGuards) = Keep(guards, ScopeGuards)
         /\ \A i \in 1 .. Len(guards) : guards[i].by # "scope" =>
              Keep(RemoveAt(guards, i), ScopeGuards) = Keep(guards, ScopeGuards)
<1>1. /\ guards \in Seq(Guards(Len(spans))) /\ Len(spans) \in Nat
      /\ \A i \in 1 .. Len(guards) : guards[i] \in Guards(Len(spans))
  BY DEF SpanTypes, ValueTypes
<1>2. ASSUME NEW m \in Nat, NEW g \in Guards(m), g.by # "scope"
      PROVE  Keep(Append(guards, g), ScopeGuards) = Keep(guards, ScopeGuards)
  <2>1. PICK X : X = Guards(Len(spans)) \cup {g}
    OBVIOUS
  <2>2. guards \in Seq(X) /\ g \in X
    BY <1>1, <2>1, SeqMonotonic
  <2>3. g \notin ScopeGuards
    BY <1>2, ScopeGuardFields
  <2>4. QED
    BY <2>2, <2>3, KeepAppend
<1>3. ASSUME NEW i \in 1 .. Len(guards), guards[i].by # "scope"
      PROVE  Keep(RemoveAt(guards, i), ScopeGuards) = Keep(guards, ScopeGuards)
  BY <1>1, <1>3, ScopeGuardFields, KeepRemove
<1>4. QED
  BY <1>2, <1>3

\* A scope is opened.
LEMMA ScopeOpened ==
  ASSUME SpanTypes, ValueTypes, ScopeShape, NEW c \in Contexts(Len(spans), request),
         NEW o, o = SpanFrom(c), ActivateContext(c, o), NEW X, chain \in Seq(X), o \in X
  PROVE  ScopeShape'
<1>1. /\ guards \in Seq(Guards(Len(spans))) /\ Len(spans) \in Nat
      /\ stack \in Seq(Entries(Len(spans), request))
  BY DEF SpanTypes, ValueTypes
<1>2. PICK g : g = Guard("scope", c.native)
  OBVIOUS
<1>3. g \in Guards(Len(spans)) /\ g \in ScopeGuards
  BY <1>1, <1>2 DEF Guard, Guards, ScopeGuards, Contexts, Natives, Inbound
<1>4. /\ guards' = Append(guards, g) /\ chain' = Append(chain, o)
      /\ stack' = Append(stack, [id |-> last_id + 1, context |-> c])
  BY <1>2 DEF ActivateContext
<1>5. Keep(guards', ScopeGuards) = Append(Keep(guards, ScopeGuards), g)
  BY <1>1, <1>3, <1>4, KeepAppend
<1>6. Len(Keep(guards', ScopeGuards)) = Len(Keep(guards, ScopeGuards)) + 1
  <2>1. Keep(guards, ScopeGuards) \in Seq(Guards(Len(spans)) \cap ScopeGuards)
    BY <1>1, KeepIsSeq
  <2>2. QED
    BY <1>3, <1>5, <2>1
<1>7. /\ Len(stack') = Len(stack) + 1 /\ Len(chain') = Len(chain) + 1
      /\ stack'[Len(stack) + 1].context = c /\ chain'[Len(chain) + 1] = o
      /\ \A i \in 1 .. Len(stack) : stack'[i] = stack[i]
      /\ \A i \in 1 .. Len(chain) : chain'[i] = chain[i]
      /\ Len(stack) \in Nat
  BY <1>1, <1>4
<1>8. \A i \in 1 .. Len(stack') : i \in 1 .. Len(stack) \/ i = Len(stack) + 1
  BY <1>7
<1>9. QED
  BY <1>6, <1>7, <1>8 DEF ScopeShape

LEMMA CallScopes ==
  ASSUME IndInv, Call
  PROVE  ScopeShape'
<1>1. /\ SpanTypes /\ ValueTypes /\ IdShape /\ ViewsAgree /\ ScopeShape
      /\ Len(stack) \in Nat /\ Len(spans) \in Nat
  BY DEF IndInv, SpanTypes, ValueTypes
<1>2. ASSUME UNCHANGED <<chain, stack, guards>>
      PROVE  ScopeShape'
  BY <1>1, <1>2 DEF ScopeShape
<1>3. CASE HookBegin
  <2>1. PICK g : g = Guard("hook", [sc |-> Len(spans) + 1, live |-> TRUE])
    OBVIOUS
  <2>2. g \in Guards(Len(spans) + 1) /\ g.by # "scope" /\ Len(spans) + 1 \in Nat
    BY <1>1, <2>1 DEF Guard, Guards, Natives, Inbound
  <2>3. guards' = Append(guards, g) /\ UNCHANGED <<chain, stack>>
    BY <1>3, <2>1 DEF HookBegin, histVars
  <2>4. QED
    BY <1>1, <2>2, <2>3, OtherGuards DEF ScopeShape
<1>4. CASE HookEnd
  <2>1. PICK i \in DOMAIN guards : guards[i].by = "hook" /\ guards' = RemoveAt(guards, i)
    BY <1>4 DEF HookEnd
  <2>2. i \in 1 .. Len(guards)
    BY <1>1, <2>1 DEF ValueTypes
  <2>3. UNCHANGED <<chain, stack>>
    BY <1>4 DEF HookEnd
  <2>4. QED
    BY <1>1, <2>1, <2>2, <2>3, OtherGuards DEF ScopeShape
<1>5. CASE SpanBuilder
  BY <1>2, <1>5 DEF SpanBuilder, histVars, activeVars
<1>6. ASSUME NEW parent, SetParent(parent) PROVE ScopeShape'
  BY <1>2, <1>6 DEF SetParent, histVars, activeVars
<1>7. CASE StartSpan
  BY <1>2, <1>7 DEF StartSpan, histVars, activeVars
<1>8. CASE Obtain
  BY <1>2, <1>8 DEF Obtain, histVars, activeVars
<1>9. ASSUME NEW o \in held, End(o) PROVE ScopeShape'
  BY <1>2, <1>9 DEF End, activeVars
<1>10. ASSUME NEW o \in held, Write(o) PROVE ScopeShape'
  BY <1>2, <1>10 DEF Write, activeVars
<1>11. ASSUME NEW o \in held, Activate(o) PROVE ScopeShape'
  <2>1. PICK c : c = StoreInContext(o, Current)
    OBVIOUS
  <2>2. SoundObject(o) /\ SoundContext(c)
    BY <1>1, <1>11, <2>1, ReachedSound, CurrentSound, StoredSound
  <2>3. /\ o \in Objects(Len(spans), request) /\ c \in Contexts(Len(spans), request)
        /\ chain \in Seq(Objects(Len(spans), request))
    BY <1>1, <2>2 DEF SoundObject, SoundContext, ValueTypes
  <2>4. o = SpanFrom(c)
    <3>1. c.span = o /\ o # Null
      BY <1>1, <2>1, <2>3, ObjectKinds DEF StoreInContext, Context, IdShape
    <3>2. QED
      BY <3>1 DEF SpanFrom
  <2>5. ActivateContext(c, o)
    BY <1>11, <2>1 DEF Activate
  <2>6. QED
    BY <1>1, <2>3, <2>4, <2>5, ScopeOpened
<1>12. ASSUME NEW o \in held, Unset(o) PROVE ScopeShape'
  BY <1>2, <1>12 DEF Unset, histVars, activeVars
<1>13. CASE ActivateSaved
  <2>1. SoundContext(saved) /\ SoundObject(SpanFrom(saved))
    BY <1>1, LiveAre, ReachedSound, HandedOut
  <2>2. /\ SpanFrom(saved) \in Objects(Len(spans), request)
        /\ saved \in Contexts(Len(spans), request)
        /\ chain \in Seq(Objects(Len(spans), request))
    BY <1>1, <2>1 DEF SoundObject, SoundContext, ValueTypes
  <2>3. ActivateContext(saved, SpanFrom(saved))
    BY <1>13 DEF ActivateSaved
  <2>4. QED
    BY <1>1, <2>2, <2>3, ScopeOpened
<1>14. CASE Save \/ With
  BY <1>2, <1>14 DEF Save, With, histVars, activeVars
<1>15. CASE Detach
  <2>1. PICK top : top = SelectLastInSeq(guards, LAMBDA g : g.by = "scope")
    OBVIOUS
  <2>2. /\ stack # <<>> /\ stack' = Front(stack) /\ chain' = Front(chain)
        /\ guards' = RemoveAt(guards, top)
    BY <1>15, <2>1 DEF Detach
  <2>3. top \in 1 .. Len(guards) /\ guards[top] \in ScopeGuards
    BY <1>1, <2>1, <2>2, TopScope
  <2>4. /\ guards \in Seq(Guards(Len(spans))) /\ stack \in Seq(Entries(Len(spans), request))
        /\ chain \in Seq(Objects(Len(spans), request)) /\ Len(chain) = Len(stack)
        /\ Len(Keep(guards, ScopeGuards)) = Len(stack)
    BY <1>1 DEF ValueTypes, ScopeShape
  <2>5. Len(Keep(guards', ScopeGuards)) = Len(stack) - 1
    <3>1. Len(Keep(guards, ScopeGuards)) = Len(Keep(guards', ScopeGuards)) + 1
      BY <2>2, <2>3, <2>4, KeepRemove
    <3>2. guards' \in Seq(Guards(Len(spans)))
      BY <2>2, <2>3, <2>4, RemoveIsSeq
    <3>3. Len(Keep(guards', ScopeGuards)) \in Nat
      <4>1. Keep(guards', ScopeGuards) \in Seq(Guards(Len(spans)) \cap ScopeGuards)
        BY <3>2, KeepIsSeq
      <4>2. QED
        BY <4>1
    <3>4. QED
      BY <2>4, <3>1, <3>3
  <2>6. chain # <<>>
    BY <2>2, <2>4, EmptySeq
  <2>7. /\ Len(stack') = Len(stack) - 1 /\ Len(chain') = Len(chain) - 1
        /\ \A i \in 1 .. Len(stack) - 1 : stack'[i] = stack[i]
        /\ \A i \in 1 .. Len(chain) - 1 : chain'[i] = chain[i]
    BY <2>2, <2>4, <2>6, FrontLast
  <2>8. QED
    BY <1>1, <2>4, <2>5, <2>7 DEF ScopeShape
<1>16. QED
  BY <1>3, <1>4, <1>5, <1>6, <1>7, <1>8, <1>9, <1>10, <1>11, <1>12, <1>13, <1>14, <1>15
     DEF Call

-----------------------------------------------------------------------------
(* Values, one case per call.                                               *)

\* After a call the script holds what was sound before it, and at most the span that
\* the call started.
ValueStep ==
  LET m == Len(spans)
  IN /\ stored' \in [DOMAIN stored' -> Contexts(m, request)]
     /\ \A id \in DOMAIN stored' : SoundContext(stored'[id])
     /\ stack' \in Seq(Entries(m, request))
     /\ \A i \in 1 .. Len(stack') : SoundContext(stack'[i].context)
     /\ guards' \in Seq(Guards(Len(spans')))
     /\ \A o \in held' :
          SoundObject(o) \/ (o = Owned(m + 1) /\ Len(spans') = m + 1)
     /\ SoundContext(saved')
     /\ builder' \in [parent : {"current", "root", "explicit"}, native : Natives(m)]
     /\ chain' \in Seq(Objects(m, request))

LEMMA CallValues ==
  ASSUME IndInv, Call, SpanStep
  PROVE  ValueStep
<1> DEFINE m == Len(spans)
<1>1. /\ SpanTypes /\ ValueTypes /\ IdShape /\ ViewsAgree /\ ScopeShape
      /\ m \in Nat /\ Len(spans') \in Nat /\ m <= Len(spans') /\ request \in Nat
  BY DEF IndInv, SpanTypes, SpanStep, IdShape
<1>2. /\ \A o \in held : SoundObject(o) /\ o \in Objects(m, request)
      /\ SoundContext(saved) /\ saved \in Contexts(m, request)
      /\ SoundContext(Current) /\ Current \in Contexts(m, request)
  BY <1>1, LiveAre, ReachedSound, CurrentSound DEF SoundObject, SoundContext
<1>3. /\ stored \in [DOMAIN stored -> Contexts(m, request)]
      /\ \A id \in DOMAIN stored : SoundContext(stored[id])
  BY <1>1, LiveAre, ReachedSound DEF ValueTypes
<1>4. /\ stack \in Seq(Entries(m, request))
      /\ \A i \in 1 .. Len(stack) : SoundContext(stack[i].context)
  BY <1>1, LiveAre, ReachedSound DEF ValueTypes
<1>5. /\ guards \in Seq(Guards(m)) /\ guards \in Seq(Guards(Len(spans')))
      /\ Guards(m) \subseteq Guards(Len(spans'))
  BY <1>1, ValuesGrow, SeqMonotonic DEF ValueTypes
<1>6. /\ builder \in [parent : {"current", "root", "explicit"}, native : Natives(m)]
      /\ chain \in Seq(Objects(m, request))
  BY <1>1 DEF ValueTypes
<1>7. Empty \in Natives(m) /\ saved.native \in Natives(m)
  BY <1>1, <1>2 DEF Empty, Natives, Inbound, Invalid, Contexts
<1> HIDE DEF m
<1>8. ASSUME UNCHANGED <<stored, stack, chain>>,
             guards' \in Seq(Guards(Len(spans'))),
             \A o \in held' : SoundObject(o) \/ (o = Owned(m + 1) /\ Len(spans') = m + 1),
             SoundContext(saved'),
             builder' \in [parent : {"current", "root", "explicit"}, native : Natives(m)]
      PROVE  ValueStep
  BY <1>3, <1>4, <1>6, <1>8 DEF ValueStep, m
<1>9. CASE HookBegin
  <2>1. PICK g : g = Guard("hook", [sc |-> m + 1, live |-> TRUE])
    OBVIOUS
  <2>2. guards' = Append(guards, g) /\ Len(spans') = m + 1
    BY <1>1, <1>9, <2>1 DEF HookBegin, m, SpanTypes
  <2>3. g \in Guards(Len(spans'))
    BY <1>1, <2>1, <2>2 DEF Guard, Guards, Natives, Inbound
  <2>4. guards' \in Seq(Guards(Len(spans')))
    BY <1>5, <2>2, <2>3
  <2>5. UNCHANGED <<stored, stack, chain, held, saved, builder>>
    BY <1>9 DEF HookBegin, tableVars, phpVars, histVars
  <2>6. QED
    BY <1>2, <1>6, <1>8, <2>4, <2>5
<1>10. CASE HookEnd
  <2>1. PICK i \in DOMAIN guards : guards' = RemoveAt(guards, i)
    BY <1>10 DEF HookEnd
  <2>2. i \in 1 .. Len(guards)
    BY <1>5, <2>1
  <2>3. guards' \in Seq(Guards(Len(spans')))
    BY <1>5, <2>1, <2>2, RemoveIsSeq
  <2>4. UNCHANGED <<stored, stack, chain, held, saved, builder>>
    BY <1>10 DEF HookEnd, tableVars, phpVars
  <2>5. QED
    BY <1>2, <1>6, <1>8, <2>3, <2>4
<1>11. CASE SpanBuilder
  <2>1. /\ UNCHANGED <<stored, stack, chain, held, saved, guards>>
        /\ builder' = NewBuilder
    BY <1>11 DEF SpanBuilder, tableVars, activeVars, histVars
  <2>2. builder' \in [parent : {"current", "root", "explicit"}, native : Natives(m)]
    BY <1>7, <2>1 DEF NewBuilder
  <2>3. QED
    BY <1>2, <1>5, <1>8, <2>1, <2>2
<1>12. ASSUME NEW parent \in {"current", "root", "explicit"}, SetParent(parent)
       PROVE  ValueStep
  <2>1. PICK v : v = IF parent = "explicit" THEN saved.native ELSE Empty
    OBVIOUS
  <2>2. /\ UNCHANGED <<stored, stack, chain, held, saved, guards>>
        /\ builder' = [builder EXCEPT !.parent = parent, !.native = v]
    BY <1>12, <2>1 DEF SetParent, tableVars, activeVars, histVars
  <2>3. builder' = [parent |-> parent, native |-> v] /\ v \in Natives(m)
    BY <1>6, <1>7, <2>1, <2>2
  <2>4. builder' \in [parent : {"current", "root", "explicit"}, native : Natives(m)]
    BY <1>12, <2>3
  <2>5. QED
    BY <1>2, <1>5, <1>8, <2>2, <2>4
<1>13. CASE StartSpan
  <2>1. UNCHANGED <<stored, stack, chain, saved, builder, guards>>
    BY <1>13 DEF StartSpan, tableVars, activeVars, histVars
  <2>2. \/ held' = held \cup {Owned(m + 1)} /\ Len(spans') = m + 1
        \/ held' = held \cup {Passive(Invalid)}
    BY <1>1, <1>13 DEF StartSpan, Hold, SpanTypes, m
  <2>3. SoundObject(Passive(Invalid))
    <3>1. Invalid \in Inbound .. m
      BY <1>1 DEF Invalid, Inbound
    <3>2. QED
      BY <1>1, <3>1, ObjectKinds, Kinds DEF SoundObject, m
  <2>4. \A o \in held' : SoundObject(o) \/ (o = Owned(m + 1) /\ Len(spans') = m + 1)
    BY <1>2, <2>2, <2>3
  <2>5. QED
    BY <1>2, <1>5, <1>6, <1>8, <2>1, <2>4
<1>14. CASE Obtain
  <2>1. UNCHANGED <<stored, stack, chain, saved, builder, guards>>
    BY <1>14 DEF Obtain, tableVars, activeVars, histVars
  <2>2. PICK x \in {SpanFrom(Current), LocalRootFrom(Current), SpanFrom(saved),
                    LocalRootFrom(saved), Passive(Inbound), Passive(Invalid)} :
          held' = held \cup {x}
    BY <1>14 DEF Obtain, Hold
  <2>3. SoundObject(Passive(Invalid)) /\ SoundObject(Passive(Inbound))
    <3>1. Invalid \in Inbound .. m /\ Inbound \in Inbound .. m
      BY <1>1 DEF Invalid, Inbound
    <3>2. QED
      BY <1>1, <3>1, ObjectKinds, Kinds DEF SoundObject, m
  <2>4. /\ SoundObject(SpanFrom(Current)) /\ SoundObject(LocalRootFrom(Current))
        /\ SoundObject(SpanFrom(saved)) /\ SoundObject(LocalRootFrom(saved))
    BY <1>1, <1>2, HandedOut
  <2>5. \A o \in held' : SoundObject(o)
    BY <1>2, <2>2, <2>3, <2>4
  <2>6. QED
    BY <1>2, <1>5, <1>6, <1>8, <2>1, <2>5
<1>15. ASSUME NEW o \in held, End(o) PROVE ValueStep
  <2>1. UNCHANGED <<stack, chain, saved, builder, guards, held>>
    BY <1>15 DEF End, activeVars, phpVars
  <2>2. PICK gone : stored' = [id \in DOMAIN stored \ gone |-> stored[id]]
    BY <1>15 DEF End
  <2>3. /\ stored' \in [DOMAIN stored' -> Contexts(m, request)]
        /\ \A id \in DOMAIN stored' : SoundContext(stored'[id])
    BY <1>3, <2>2
  <2>4. QED
    BY <1>2, <1>4, <1>5, <1>6, <2>1, <2>3 DEF ValueStep, m
<1>16. ASSUME NEW o \in held, Write(o) PROVE ValueStep
  <2>1. UNCHANGED <<stored, stack, chain, saved, builder, guards, held>>
    BY <1>16 DEF Write, tableVars, activeVars, phpVars
  <2>2. QED
    BY <1>2, <1>5, <1>6, <1>8, <2>1
<1>17. ASSUME NEW c, SoundContext(c), NEW o \in Objects(m, request), ActivateContext(c, o),
              UNCHANGED <<held, saved, builder>>
       PROVE  ValueStep
  <2>1. c \in Contexts(m, request)
    BY <1>17 DEF SoundContext, m
  <2>2. PICK e : e = [id |-> last_id + 1, context |-> c]
    OBVIOUS
  <2>3. PICK g : g = Guard("scope", c.native)
    OBVIOUS
  <2>4. /\ stored' = StoreInstance(c) /\ stack' = Append(stack, e)
        /\ guards' = Append(guards, g) /\ chain' = Append(chain, o)
    BY <1>17, <2>2, <2>3 DEF ActivateContext
  <2>5. e \in Entries(m, request) /\ e.context = c
    BY <1>1, <2>1, <2>2 DEF Entries, IdShape
  <2>6. g \in Guards(Len(spans'))
    <3>1. g \in Guards(m)
      BY <2>1, <2>3 DEF Guard, Guards, Contexts
    <3>2. QED
      BY <1>5, <3>1
  <2>7. /\ stored' \in [DOMAIN stored' -> Contexts(m, request)]
        /\ \A id \in DOMAIN stored' : SoundContext(stored'[id])
    <3>1. /\ DOMAIN stored' = DOMAIN stored \cup {last_id + 1}
          /\ stored'[last_id + 1] = c
          /\ \A id \in DOMAIN stored : stored'[id] = stored[id]
      BY <1>1, <2>4, InstanceAdded
    <3>2. stored' = [id \in DOMAIN stored' |-> stored'[id]]
      BY <2>4, <3>1 DEF StoreInstance
    <3>3. \A id \in DOMAIN stored' :
            stored'[id] \in Contexts(m, request) /\ SoundContext(stored'[id])
      BY <1>3, <1>17, <2>1, <3>1
    <3>4. QED
      BY <3>2, <3>3
  <2>8. /\ stack' \in Seq(Entries(m, request))
        /\ \A i \in 1 .. Len(stack') : SoundContext(stack'[i].context)
    <3>1. /\ stack' \in Seq(Entries(m, request)) /\ Len(stack') = Len(stack) + 1
          /\ \A i \in 1 .. Len(stack) : stack'[i] = stack[i]
          /\ stack'[Len(stack) + 1] = e /\ Len(stack) \in Nat
      BY <1>4, <2>4, <2>5
    <3>2. \A i \in 1 .. Len(stack') : i \in 1 .. Len(stack) \/ i = Len(stack) + 1
      BY <3>1
    <3>3. QED
      BY <1>4, <1>17, <2>5, <3>1, <3>2
  <2>9. guards' \in Seq(Guards(Len(spans'))) /\ chain' \in Seq(Objects(m, request))
    BY <1>5, <1>6, <1>17, <2>4, <2>6
  <2>10. QED
    BY <1>2, <1>6, <1>17, <2>7, <2>8, <2>9 DEF ValueStep, m
<1>18. ASSUME NEW o \in held, Activate(o) PROVE ValueStep
  <2>1. SoundContext(StoreInContext(o, Current))
    BY <1>1, <1>2, <1>18, StoredSound
  <2>2. QED
    BY <1>2, <1>17, <1>18, <2>1 DEF Activate
<1>19. CASE ActivateSaved
  <2>1. SpanFrom(saved) \in Objects(m, request)
    BY <1>1, <1>2, HandedOut DEF SoundObject, m
  <2>2. QED
    BY <1>2, <1>17, <1>19, <2>1 DEF ActivateSaved
<1>20. ASSUME NEW o \in held, Unset(o) PROVE ValueStep
  <2>1. UNCHANGED <<stored, stack, chain, saved, builder, guards>> /\ held' = held \ {o}
    BY <1>20 DEF Unset, tableVars, activeVars, histVars
  <2>2. QED
    BY <1>2, <1>5, <1>6, <1>8, <2>1
<1>21. CASE Save \/ With
  <2>1. /\ UNCHANGED <<stored, stack, chain, held, builder, guards>>
        /\ \/ saved' \in {Current, Root} \cup {StoreInContext(object, saved) : object \in held}
           \/ \E value \in held \cup {Null} :
                saved' \in {WithSpan(saved, value), WithRoot(saved, value)}
    BY <1>21 DEF Save, With, tableVars, activeVars, histVars
  <2>2. \A o \in held : SoundContext(StoreInContext(o, saved))
    BY <1>1, <1>2, StoredSound
  <2>3. \A o \in held \cup {Null} : /\ SoundContext(WithSpan(saved, o))
                                   /\ SoundContext(WithRoot(saved, o))
    BY <1>1, <1>2, WithSound
  <2>4. SoundContext(Root)
    <3>1. Root = Context(Empty, Null, Null)
      BY DEF Root
    <3>2. /\ Root \in Contexts(m, request)
          /\ Root.span = Null /\ Root.root = Null
      BY <1>7, <3>1 DEF Context, Contexts
    <3>3. QED
      BY <3>2, Kinds DEF SoundContext, Agrees, m
  <2>5. SoundContext(saved')
    BY <1>2, <2>1, <2>2, <2>3, <2>4
  <2>6. QED
    BY <1>2, <1>5, <1>6, <1>8, <2>1, <2>5
<1>22. CASE Detach
  <2>1. PICK top : top = SelectLastInSeq(guards, LAMBDA g : g.by = "scope")
    OBVIOUS
  <2>2. /\ stack # <<>> /\ stack' = Front(stack) /\ chain' = Front(chain)
        /\ guards' = RemoveAt(guards, top) /\ UNCHANGED <<held, saved, builder>>
        /\ \/ stored' = stored
           \/ stored' = [i \in DOMAIN stored \ {Last(stack).id} |-> stored[i]]
    BY <1>22, <2>1 DEF Detach, phpVars
  <2>3. top \in 1 .. Len(guards)
    BY <1>1, <2>1, <2>2, TopScope
  <2>4. guards' \in Seq(Guards(Len(spans')))
    BY <1>5, <2>2, <2>3, RemoveIsSeq
  <2>5. /\ stored' \in [DOMAIN stored' -> Contexts(m, request)]
        /\ \A id \in DOMAIN stored' : SoundContext(stored'[id])
    BY <1>3, <2>2
  <2>6. Len(stack) \in Nat /\ chain # <<>>
    BY <1>1, <1>4, <2>2, EmptySeq DEF ScopeShape
  <2>7. /\ stack' \in Seq(Entries(m, request)) /\ Len(stack') = Len(stack) - 1
        /\ \A i \in 1 .. Len(stack) - 1 : stack'[i] = stack[i]
        /\ chain' \in Seq(Objects(m, request))
    <3>1. /\ stack \in Seq(Entries(m, request)) /\ chain \in Seq(Objects(m, request))
          /\ stack # <<>> /\ chain # <<>>
      BY <1>4, <1>6, <2>2, <2>6
    <3>2. /\ Front(stack) \in Seq(Entries(m, request)) /\ Len(Front(stack)) = Len(stack) - 1
          /\ \A i \in 1 .. Len(stack) - 1 : Front(stack)[i] = stack[i]
      BY <3>1, FrontLast
    <3>3. Front(chain) \in Seq(Objects(m, request))
      BY <3>1, FrontLast
    <3>4. QED
      BY <2>2, <3>2, <3>3
  <2>8. \A i \in 1 .. Len(stack') : SoundContext(stack'[i].context)
    <3>1. \A i \in 1 .. Len(stack') : i \in 1 .. Len(stack) /\ stack'[i] = stack[i]
      BY <2>6, <2>7
    <3>2. QED
      BY <1>4, <3>1
  <2>9. QED
    BY <1>2, <1>6, <2>2, <2>4, <2>5, <2>7, <2>8 DEF ValueStep, m
<1>23. QED
  BY <1>9, <1>10, <1>11, <1>12, <1>13, <1>14, <1>15, <1>16, <1>18, <1>19, <1>20, <1>21, <1>22
     DEF Call

-----------------------------------------------------------------------------
(* Local roots, one case per call.                                          *)

\* An object reports the same span for as long as the request runs.
LEMMA ReportsSame ==
  ASSUME IndInv, RootFixed, NEW o \in Objects(Len(spans), request)
  PROVE  SpanContextOf(o)' = SpanContextOf(o)
<1>1. Len(spans) \in Nat /\ request \in Nat
  BY DEF IndInv, SpanTypes, IdShape
<1>2. CASE o.kind # "bound"
  BY <1>2 DEF SpanContextOf
<1>3. CASE o.kind = "bound"
  <2>1. o.ref = request /\ request # 0
    BY <1>3, KnownSpanContext, Kinds DEF IndInv
  <2>2. Instance(request)' = Instance(request)
    BY <2>1 DEF Instance, RootFixed, IndInv, IdShape
  <2>3. Instance(o.ref)' = Instance(o.ref)
    BY <2>1, <2>2 DEF RootFixed
  <2>4. QED
    BY <1>3, <2>3 DEF SpanContextOf
<1>4. QED
  BY <1>2, <1>3

\* A scope that started a local root still does.
LEMMA StartsSame ==
  ASSUME IndInv, RootFixed, NEW k \in 1 .. Len(chain) + 1,
         k # 1 => chain'[k - 1] = chain[k - 1]
  PROVE  Starts(k)' <=> Starts(k)
<1>1. CASE k = 1
  BY <1>1 DEF Starts
<1>2. CASE k # 1
  <2>1. chain \in Seq(Objects(Len(spans), request))
    BY DEF IndInv, ValueTypes
  <2>2. k - 1 \in 1 .. Len(chain)
    BY <1>2, <2>1
  <2>3. PICK o \in Objects(Len(spans), request) : o = chain[k - 1]
    BY <2>1, <2>2
  <2>4. SpanContextOf(o)' = SpanContextOf(o) /\ chain'[k - 1] = o
    BY <1>2, <2>3, ReportsSame
  <2>5. SpanContextOf(chain[k - 1])' = SpanContextOf(o)'
    BY <2>4 DEF SpanContextOf, Instance
  <2>6. QED
    BY <1>2, <2>3, <2>4, <2>5 DEF Starts
<1>3. QED
  BY <1>1, <1>2

\* The local root of scope i is that of the scope it names.
LEMMA RootsSame ==
  ASSUME IndInv, RootFixed, plain, NEW i \in 1 .. Len(stack),
         stack'[i] = stack[i], \A j \in 1 .. i : chain'[j] = chain[j]
  PROVE  /\ stack'[i].context.span = chain'[i]
         /\ \E j \in 1 .. i : /\ Starts(j)' /\ stack'[i].context.root = chain'[j]
                              /\ \A k \in j + 1 .. i : ~Starts(k)'
<1>1. Len(stack) \in Nat /\ Len(chain) = Len(stack)
  BY DEF IndInv, ValueTypes, ScopeShape
<1>2. \A k \in 1 .. i : Starts(k)' <=> Starts(k)
  <2>1. TAKE k \in 1 .. i
  <2>2. k \in 1 .. Len(chain) + 1 /\ (k # 1 => k - 1 \in 1 .. i)
    BY <1>1
  <2>3. QED
    BY <2>2, StartsSame
<1>3. PICK j \in 1 .. i : /\ Starts(j) /\ stack[i].context.root = chain[j]
                          /\ \A k \in j + 1 .. i : ~Starts(k)
  BY DEF IndInv, RootsFollowScopes
<1>4. \A k \in j + 1 .. i : k \in 1 .. i
  BY <1>1
<1>5. stack[i].context.span = chain[i] /\ i \in 1 .. i
  BY <1>1 DEF IndInv, RootsFollowScopes
<1>6. QED
  BY <1>2, <1>3, <1>4, <1>5

LEMMA CallLocalRoots ==
  ASSUME IndInv, Call, RootFixed
  PROVE  RootsFollowScopes'
<1>1. /\ SpanTypes /\ ValueTypes /\ IdShape /\ ViewsAgree /\ ScopeShape
      /\ Len(stack) \in Nat /\ Len(chain) = Len(stack) /\ Len(spans) \in Nat
      /\ request \in Nat
  BY DEF IndInv, SpanTypes, ValueTypes, ScopeShape, IdShape
<1>2. ASSUME UNCHANGED <<chain, stack, plain>>
      PROVE  RootsFollowScopes'
  BY <1>2, RootsSame DEF RootsFollowScopes
<1>3. CASE HookBegin
  BY <1>2, <1>3 DEF HookBegin, histVars
<1>4. CASE HookEnd
  BY <1>2, <1>4 DEF HookEnd
<1>5. CASE SpanBuilder
  BY <1>2, <1>5 DEF SpanBuilder, histVars, activeVars
<1>6. ASSUME NEW parent, SetParent(parent) PROVE RootsFollowScopes'
  BY <1>2, <1>6 DEF SetParent, histVars, activeVars
<1>7. CASE StartSpan
  BY <1>2, <1>7 DEF StartSpan, histVars, activeVars
<1>8. CASE Obtain
  BY <1>2, <1>8 DEF Obtain, histVars, activeVars
<1>9. ASSUME NEW o \in held, End(o) PROVE RootsFollowScopes'
  BY <1>2, <1>9 DEF End, activeVars
<1>10. ASSUME NEW o \in held, Write(o) PROVE RootsFollowScopes'
  BY <1>2, <1>10 DEF Write, activeVars
<1>11. ASSUME NEW o \in held, Activate(o), plain PROVE RootsFollowScopes'
  <2>1. PICK c : c = StoreInContext(o, Current)
    OBVIOUS
  <2>2. PICK L \in Nat : L = Len(stack)
    BY <1>1
  <2>3. /\ stack' = Append(stack, [id |-> last_id + 1, context |-> c])
        /\ chain' = Append(chain, o) /\ plain' = plain
    BY <1>11, <2>1 DEF Activate, ActivateContext
  <2>4. /\ Len(stack') = L + 1 /\ stack'[L + 1].context = c /\ chain'[L + 1] = o
        /\ \A i \in 1 .. L : stack'[i] = stack[i] /\ chain'[i] = chain[i]
    BY <1>1, <2>2, <2>3 DEF ValueTypes
  <2>5. c.span = o /\ c.root = IF StartsLocalRoot(Current) THEN o ELSE Current.root
    BY <2>1 DEF StoreInContext, Context
  <2>6. \A k \in 1 .. L + 1 : Starts(k)' <=> Starts(k)
    <3>1. TAKE k \in 1 .. L + 1
    <3>2. k # 1 => k - 1 \in 1 .. L
      BY <2>2
    <3>3. QED
      BY <1>1, <2>2, <2>4, <3>2, StartsSame
  <2>7. StartsLocalRoot(Current) <=> Starts(L + 1)
    <3>1. CASE L = 0
      <4>1. stack = <<>>
        BY <1>1, <2>2, <3>1, EmptySeq DEF ValueTypes
      <4>2. QED
        BY <3>1, <4>1 DEF Current, Context, StartsLocalRoot, Starts
    <3>2. CASE L # 0
      <4>1. stack # <<>> /\ Current = stack[L].context
        BY <1>1, <2>2, <3>2, EmptySeq DEF Current, Last
      <4>2. chain[L] \in Objects(Len(spans), request) /\ L \in 1 .. Len(stack)
        BY <1>1, <2>2, <3>2 DEF ValueTypes
      <4>3. Current.span = chain[L] /\ chain[L] # Null
        BY <1>1, <1>11, <4>1, <4>2, ObjectKinds DEF IndInv, RootsFollowScopes
      <4>4. QED
        BY <2>2, <3>2, <4>3 DEF StartsLocalRoot, Starts
    <3>3. QED
      BY <3>1, <3>2
  <2>8. \E j \in 1 .. L + 1 : /\ Starts(j)' /\ c.root = chain'[j]
                              /\ \A k \in j + 1 .. L + 1 : ~Starts(k)'
    <3>1. CASE StartsLocalRoot(Current)
      <4>1. /\ L + 1 \in 1 .. L + 1 /\ Starts(L + 1)' /\ c.root = chain'[L + 1]
            /\ \A k \in (L + 1) + 1 .. L + 1 : FALSE
        BY <2>4, <2>5, <2>6, <2>7, <3>1
      <4>2. QED
        BY <4>1
    <3>2. CASE ~StartsLocalRoot(Current)
      <4>1. L # 0
        BY <2>7, <3>2 DEF Starts
      <4>2. /\ stack # <<>> /\ Current = stack[L].context /\ L \in 1 .. Len(stack)
        BY <1>1, <2>2, <4>1, EmptySeq DEF Current, Last
      <4>3. PICK j \in 1 .. L : /\ Starts(j) /\ stack[L].context.root = chain[j]
                                /\ \A k \in j + 1 .. L : ~Starts(k)
        BY <1>11, <4>2 DEF IndInv, RootsFollowScopes
      <4>4. j \in 1 .. L + 1 /\ Starts(j)' /\ c.root = chain'[j]
        BY <2>4, <2>5, <2>6, <3>2, <4>2, <4>3
      <4>5. \A k \in j + 1 .. L + 1 : ~Starts(k)'
        <5>1. TAKE k \in j + 1 .. L + 1
        <5>2. k \in 1 .. L + 1 /\ (k \in j + 1 .. L \/ k = L + 1)
          BY <2>2
        <5>3. QED
          BY <2>6, <2>7, <3>2, <4>3, <5>2
      <4>6. QED
        BY <4>4, <4>5
    <3>3. QED
      BY <3>1, <3>2
  <2>9. ASSUME NEW i \in 1 .. Len(stack')
        PROVE  /\ stack'[i].context.span = chain'[i]
               /\ \E j \in 1 .. i : /\ Starts(j)' /\ stack'[i].context.root = chain'[j]
                                    /\ \A k \in j + 1 .. i : ~Starts(k)'
    <3>1. CASE i = L + 1
      BY <2>4, <2>5, <2>8, <3>1
    <3>2. CASE i # L + 1
      <4>1. i \in 1 .. Len(stack) /\ \A j \in 1 .. i : j \in 1 .. L
        BY <2>2, <2>4, <3>2
      <4>2. QED
        BY <1>11, <2>2, <2>4, <4>1, RootsSame
    <3>3. QED
      BY <3>1, <3>2
  <2>10. QED
    BY <2>9 DEF RootsFollowScopes
<1>12. ASSUME NEW o \in held, Unset(o) PROVE RootsFollowScopes'
  BY <1>2, <1>12 DEF Unset, histVars, activeVars
<1>13. CASE ActivateSaved
  BY <1>13 DEF ActivateSaved, RootsFollowScopes
<1>14. CASE Save \/ With
  BY <1>2, <1>14 DEF Save, With, histVars, activeVars
<1>15. CASE Detach
  <2>1. stack # <<>> /\ stack' = Front(stack) /\ chain' = Front(chain) /\ plain' = plain
    BY <1>15 DEF Detach
  <2>2. chain # <<>>
    BY <1>1, <2>1, EmptySeq DEF ValueTypes
  <2>3. /\ Len(stack') = Len(stack) - 1
        /\ \A i \in 1 .. Len(stack) - 1 : stack'[i] = stack[i] /\ chain'[i] = chain[i]
    BY <1>1, <2>1, <2>2, FrontLast DEF ValueTypes
  <2>4. \A i \in 1 .. Len(stack') : /\ i \in 1 .. Len(stack) /\ stack'[i] = stack[i]
                                    /\ \A j \in 1 .. i : chain'[j] = chain[j]
    BY <1>1, <2>3
  <2>5. QED
    BY <2>1, <2>4, RootsSame DEF RootsFollowScopes
<1>16. ASSUME NEW o \in held, Activate(o) PROVE RootsFollowScopes'
  <2>1. CASE ~plain
    BY <1>16, <2>1 DEF Activate, RootsFollowScopes
  <2>2. QED
    BY <1>11, <1>16, <2>1
<1>17. QED
  BY <1>3, <1>4, <1>5, <1>6, <1>7, <1>8, <1>9, <1>10, <1>12, <1>13, <1>14, <1>15, <1>16
     DEF Call

-----------------------------------------------------------------------------
(* A call keeps the invariant.                                              *)

\* No span that was not referenced is again.
LEMMA ReferencedBefore ==
  ASSUME SpanTypes, ValueStep, NEW n \in 1 .. Len(spans), Referenced(n)'
  PROVE  Referenced(n)
<1>1. \/ Owned(n) \in held'
      \/ \E c \in LiveContexts' : c.span = Owned(n) \/ c.root = Owned(n)
  BY DEF Referenced, Owned, Object
<1>2. ASSUME NEW c, SoundContext(c), c.span = Owned(n) \/ c.root = Owned(n)
      PROVE  Referenced(n)
  BY <1>2 DEF SoundContext
<1>3. CASE Owned(n) \in held'
  <2>1. Owned(n) # Owned(Len(spans) + 1)
    BY Kinds DEF SpanTypes
  <2>2. QED
    BY <1>3, <2>1 DEF ValueStep, SoundObject
<1>4. CASE \E c \in LiveContexts' : c.span = Owned(n) \/ c.root = Owned(n)
  <2>1. PICK c \in LiveContexts' : c.span = Owned(n) \/ c.root = Owned(n)
    BY <1>4
  <2>2. \/ \E id \in DOMAIN stored' : c = stored'[id]
        \/ \E i \in DOMAIN stack' : c = stack'[i].context
        \/ c = saved'
    BY <2>1 DEF LiveContexts
  <2>3. DOMAIN stack' = 1 .. Len(stack')
    BY DEF ValueStep
  <2>4. SoundContext(c)
    BY <2>2, <2>3 DEF ValueStep
  <2>5. QED
    BY <1>2, <2>1, <2>4
<1>5. QED
  BY <1>1, <1>3, <1>4

LEMMA CallTypes ==
  ASSUME IndInv, SpanStep, ValueStep, RootFixed
  PROVE  SpanTypes' /\ ValueTypes'
<1>1. /\ Len(spans) \in Nat /\ Len(spans') \in Nat /\ request' = request
      /\ Len(spans') \in {Len(spans), Len(spans) + 1} /\ request \in Nat
      /\ Len(spans) <= Len(spans')
  BY DEF IndInv, SpanTypes, SpanStep, RootFixed, IdShape
<1>2. SpanTypes'
  <2>1. ASSUME NEW n \in 1 .. Len(spans')
        PROVE  /\ spans'[n].parent \in Inbound .. n - 1
               /\ spans'[n].exports = IF spans'[n].open THEN 0 ELSE 1
    <3>1. CASE n \in 1 .. Len(spans)
      BY <3>1 DEF SpanStep, IndInv, SpanTypes
    <3>2. CASE n \notin 1 .. Len(spans)
      <4>1. n = Len(spans) + 1 /\ Len(spans') > Len(spans)
        BY <1>1, <3>2
      <4>2. QED
        BY <1>1, <4>1 DEF SpanStep
    <3>3. QED
      BY <3>1, <3>2
  <2>2. ended' \subseteq Inbound .. Len(spans')
    BY <1>1 DEF SpanStep, Inbound
  <2>3. QED
    BY <2>1, <2>2 DEF SpanTypes, SpanStep
<1>3. ValueTypes'
  <2> DEFINE m == Len(spans)
             k == Len(spans')
  <2>1. /\ Natives(m) \subseteq Natives(k) /\ Objects(m, request) \subseteq Objects(k, request)
        /\ Contexts(m, request) \subseteq Contexts(k, request)
        /\ Entries(m, request) \subseteq Entries(k, request)
    BY <1>1, ValuesGrow
  <2>2. /\ stored' \in [DOMAIN stored' -> Contexts(m, request)]
        /\ stack' \in Seq(Entries(m, request)) /\ guards' \in Seq(Guards(k))
        /\ \A o \in held' : SoundObject(o) \/ (o = Owned(m + 1) /\ k = m + 1)
        /\ SoundContext(saved')
        /\ builder' \in [parent : {"current", "root", "explicit"}, native : Natives(m)]
        /\ chain' \in Seq(Objects(m, request))
    BY DEF ValueStep
  <2>3. held' \in SUBSET Objects(k, request)
    <3>1. ASSUME NEW o \in held' PROVE o \in Objects(k, request)
      <4>1. CASE SoundObject(o)
        BY <2>1, <4>1 DEF SoundObject
      <4>2. CASE o = Owned(m + 1) /\ k = m + 1
        BY <1>1, <4>2, ObjectKinds
      <4>3. QED
        BY <2>2, <3>1, <4>1, <4>2
    <3>2. QED
      BY <3>1
  <2>4. saved' \in Contexts(k, request)
    BY <2>1, <2>2 DEF SoundContext
  <2> HIDE DEF m, k
  <2>5. stack' \in Seq(Entries(k, request)) /\ chain' \in Seq(Objects(k, request))
    BY <2>1, <2>2, SeqMonotonic
  <2>6. stored' \in [DOMAIN stored' -> Contexts(k, request)]
    BY <2>1, <2>2
  <2>7. builder' \in [parent : {"current", "root", "explicit"}, native : Natives(k)]
    BY <2>1, <2>2
  <2>8. QED
    BY <1>1, <2>2, <2>3, <2>4, <2>5, <2>6, <2>7 DEF ValueTypes, RootFixed, k
<1>4. QED
  BY <1>2, <1>3

LEMMA CallRest ==
  ASSUME IndInv, SpanStep, ValueStep, RootFixed
  PROVE  RootShape' /\ IdleShape' /\ ViewsAgree' /\ LifeShape'
<1>1. /\ Len(spans) \in Nat /\ Len(spans') \in Nat
      /\ Len(spans') \in {Len(spans), Len(spans) + 1}
  BY DEF IndInv, SpanTypes, SpanStep
<1>2. DOMAIN spans = 1 .. Len(spans)
  BY DEF IndInv, SpanTypes
<1>3. RootShape'
  <2>1. SUFFICES ASSUME request # 0
                 PROVE  LET native == stored[request].native
                        IN /\ native.live /\ native.sc \in 1 .. Len(spans')
                           /\ spans'[native.sc].by = "request"
                           /\ native.sc \notin ended' => spans'[native.sc].open
                           /\ Len(guards') > 0 /\ guards'[1] = Guard("request", native)
    BY DEF RootShape, RootFixed
  <2>2. PICK n : n = stored[request].native.sc
    OBVIOUS
  <2>3. /\ stored[request].native.live /\ n \in 1 .. Len(spans) /\ spans[n].by = "request"
        /\ n \notin ended => spans[n].open
        /\ guards[1] = Guard("request", stored[request].native)
    BY <2>1, <2>2 DEF IndInv, RootShape
  <2>4. n \notin Freed
    BY <2>3 DEF Freed
  <2>5. spans'[n].by = "request" /\ (n \notin ended' => spans'[n].open)
    BY <2>3, <2>4 DEF SpanStep
  <2>6. QED
    BY <1>1, <2>1, <2>2, <2>3, <2>5 DEF RootFixed
<1>4. IdleShape'
  BY DEF IdleShape, RootFixed
<1>5. ViewsAgree'
  <2>1. SUFFICES ASSUME NEW c \in LiveContexts', c.span # Null, ~c.keyed
                 PROVE  SpanContextOf(c.span)' = c.native.sc
    BY DEF ViewsAgree, Agrees
  <2>2. SoundContext(c)
    <3>1. \/ \E id \in DOMAIN stored' : c = stored'[id]
          \/ \E i \in DOMAIN stack' : c = stack'[i].context
          \/ c = saved'
      BY <2>1 DEF LiveContexts
    <3>2. DOMAIN stack' = 1 .. Len(stack')
      BY DEF ValueStep
    <3>3. QED
      BY <3>1, <3>2 DEF ValueStep
  <2>3. c.span \in Objects(Len(spans), request) /\ SpanContextOf(c.span) = c.native.sc
    BY <2>1, <2>2 DEF SoundContext, Contexts, Agrees
  <2>4. PICK o \in Objects(Len(spans), request) : o = c.span
    BY <2>3
  <2>5. SpanContextOf(o)' = SpanContextOf(o)
    BY ReportsSame
  <2>6. QED
    BY <2>3, <2>4, <2>5
<1>6. LifeShape'
  <2>1. SUFFICES ASSUME NEW n \in 1 .. Len(spans')
                 PROVE  /\ n \in ended' => ~spans'[n].open
                        /\ spans'[n].open /\ spans'[n].by = "request" =>
                             request' # 0 /\ n = stored'[request'].native.sc
                        /\ Referenced(n)' /\ n \notin ended' => spans'[n].open
    BY DEF LifeShape, RootFixed
  <2>2. CASE n \in 1 .. Len(spans)
    <3>1. /\ n \in ended' => ~spans'[n].open
          /\ spans'[n].by = spans[n].by /\ (spans'[n].open => spans[n].open)
          /\ spans[n].open /\ ~spans'[n].open => n \in ended' \/ n \in Freed
          /\ n \in ended => n \in ended'
      BY <2>2 DEF SpanStep
    <3>2. spans[n].open /\ spans[n].by = "request" =>
            request # 0 /\ n = stored[request].native.sc
      BY <2>2 DEF IndInv, LifeShape
    <3>3. Referenced(n)' => n \notin Freed
      BY DEF Freed
    <3>4. Referenced(n)' => Referenced(n)
      BY <2>2, ReferencedBefore DEF IndInv
    <3>5. Referenced(n) /\ n \notin ended => spans[n].open
      BY <2>2 DEF IndInv, LifeShape
    <3>6. QED
      BY <3>1, <3>2, <3>3, <3>4, <3>5 DEF RootFixed
  <2>3. CASE n \notin 1 .. Len(spans)
    <3>1. n = Len(spans) + 1 /\ Len(spans') > Len(spans)
      BY <1>1, <2>3
    <3>2. spans'[n].open /\ spans'[n].by # "request" /\ n \notin ended'
      BY <1>1, <3>1 DEF SpanStep, Inbound
    <3>3. QED
      BY <3>2
  <2>4. QED
    BY <2>2, <2>3
<1>7. QED
  BY <1>3, <1>4, <1>5, <1>6

LEMMA CallStep ==
  ASSUME IndInv, Call
  PROVE  IndInv'
<1>1. SpanStep /\ RootFixed
  BY CallSpans, CallKeepsRoot
<1>2. ValueStep
  BY <1>1, CallValues
<1>3. SpanTypes' /\ ValueTypes' /\ RootShape' /\ IdleShape' /\ ViewsAgree' /\ LifeShape'
  BY <1>1, <1>2, CallTypes, CallRest
<1>4. IdShape' /\ ScopeShape' /\ RootsFollowScopes'
  BY <1>1, CallIds, CallScopes, CallLocalRoots
<1>5. WritesHitTheirSpan'
  BY <1>1 DEF SpanStep
<1>6. QED
  BY <1>3, <1>4, <1>5 DEF IndInv

-----------------------------------------------------------------------------
(* Requests.                                                                *)

LEMMA InitInv == Init => IndInv
<1>1. SUFFICES ASSUME Init PROVE IndInv
  OBVIOUS
<1>2. /\ spans = <<>> /\ DOMAIN stored = {} /\ detached = {} /\ last_id = 0 /\ stack = <<>>
      /\ guards = <<>> /\ local_root = 0 /\ request = 0 /\ running = FALSE /\ held = {}
      /\ saved = Root /\ builder = NewBuilder /\ chain = <<>> /\ ended = {} /\ aimed = {}
  BY <1>1 DEF Init
<1>3. Len(spans) = 0 /\ Len(stack) = 0 /\ Len(guards) = 0 /\ Len(chain) = 0
  BY <1>2
<1>4. SpanTypes /\ WritesHitTheirSpan /\ LifeShape
  BY <1>2, <1>3 DEF SpanTypes, WritesHitTheirSpan, LifeShape
<1>5. ValueTypes
  <2>1. Root \in Contexts(0, 0) /\ Empty \in Natives(0)
    BY DEF Root, Contexts, Context, Natives, Empty, Inbound, Invalid
  <2>2. NewBuilder \in [parent : {"current", "root", "explicit"}, native : Natives(0)]
    BY <2>1 DEF NewBuilder
  <2>3. stored \in [DOMAIN stored -> Contexts(0, 0)]
    BY <1>1, <1>2 DEF Init
  <2>4. QED
    BY <1>2, <1>3, <2>1, <2>2, <2>3, EmptySeq DEF ValueTypes
<1>6. IdShape /\ RootShape /\ IdleShape /\ RootsFollowScopes
  BY <1>2, <1>3 DEF IdShape, RootShape, IdleShape, RootsFollowScopes
<1>7. ScopeShape
  BY <1>2, <1>3, KeepEmpty DEF ScopeShape
<1>8. ViewsAgree
  <2>1. \A c \in LiveContexts : c = Root
    BY <1>2 DEF LiveContexts
  <2>2. QED
    BY <2>1 DEF ViewsAgree, Agrees, Root, Context
<1>9. QED
  BY <1>4, <1>5, <1>6, <1>7, <1>8 DEF IndInv

LEMMA BareStep ==
  ASSUME IndInv, RequestInitBare
  PROVE  IndInv'
<1>1. /\ ~running /\ running' = TRUE /\ request = 0
      /\ UNCHANGED <<spans, stored, detached, last_id, stack, guards, local_root, request,
                     held, saved, builder, chain, ended, aimed, plain>>
  BY DEF RequestInitBare, tableVars, activeVars, phpVars, histVars, IndInv, IdleShape
<1>2. SpanTypes' /\ IdShape' /\ ScopeShape' /\ WritesHitTheirSpan'
  BY <1>1 DEF IndInv, SpanTypes, IdShape, ScopeShape, WritesHitTheirSpan
<1>3. ValueTypes'
  BY <1>1 DEF IndInv, ValueTypes
<1>4. RootShape' /\ IdleShape'
  BY <1>1 DEF RootShape, IdleShape
<1>5. ViewsAgree' /\ RootsFollowScopes'
  <2>1. LiveContexts' = LiveContexts /\ \A o : SpanContextOf(o)' = SpanContextOf(o)
    BY <1>1 DEF LiveContexts, SpanContextOf, Instance
  <2>2. stack = <<>>
    BY <1>1 DEF IndInv, IdleShape
  <2>3. QED
    BY <1>1, <2>1, <2>2 DEF IndInv, ViewsAgree, Agrees, RootsFollowScopes
<1>6. LifeShape'
  <2>1. \A n : Referenced(n)' <=> Referenced(n)
    BY <1>1 DEF Referenced, LiveContexts, Owned, Object
  <2>2. QED
    BY <1>1, <2>1 DEF IndInv, LifeShape
<1>7. QED
  BY <1>2, <1>3, <1>4, <1>5, <1>6 DEF IndInv

LEMMA RequestStep ==
  ASSUME IndInv, NEW parent \in {Invalid, Inbound}, RequestInit(parent)
  PROVE  IndInv'
<1>1. PICK m \in Nat : m = Len(spans)
  BY DEF IndInv, SpanTypes
<1>2. PICK r : r = last_id + 1
  OBVIOUS
<1>3. PICK native : native = [sc |-> m + 1, live |-> TRUE]
  OBVIOUS
<1>4. PICK c : c = Context(native, Null, Null)
  OBVIOUS
<1>5. /\ ~running /\ DOMAIN stored = {} /\ stack = <<>> /\ guards = <<>> /\ chain = <<>>
      /\ held = {} /\ saved = Root /\ request = 0 /\ last_id \in Nat /\ detached = {}
  BY DEF RequestInit, IndInv, IdleShape, IdShape
<1>6. /\ running' = TRUE /\ spans' = Append(spans, Span(parent, "request")) /\ last_id' = r
      /\ stored' = StoreInstance(c) /\ request' = r
      /\ local_root' = IF RustCurrent.sc = Invalid THEN r ELSE local_root
      /\ guards' = Append(guards, Guard("request", native))
      /\ UNCHANGED <<detached, stack, held, saved, builder, chain, ended, aimed, plain>>
  BY <1>1, <1>2, <1>3, <1>4 DEF RequestInit, phpVars, histVars
<1>7. /\ DOMAIN stored' = {r} /\ stored'[r] = c /\ stored' = [id \in {r} |-> c]
      /\ r \in Nat /\ r # 0
  BY <1>2, <1>5, <1>6 DEF StoreInstance
<1>8. local_root' = r
  BY <1>5, <1>6 DEF RustCurrent, Empty
<1>9. /\ native \in Natives(m + 1) /\ native.sc = m + 1 /\ native.live
      /\ c \in Contexts(m + 1, r) /\ c.native = native /\ c.span = Null /\ c.root = Null
  BY <1>3, <1>4 DEF Natives, Inbound, Contexts, Context
<1>10. /\ spans \in Seq(SdkSpans) /\ ended \subseteq Inbound .. m
       /\ \A n \in 1 .. m : /\ spans[n].parent \in Inbound .. n - 1 /\ ~spans[n].open
                            /\ spans[n].exports = IF spans[n].open THEN 0 ELSE 1
  BY <1>1, <1>5 DEF IndInv, SpanTypes, LifeShape
<1>11. PICK new : new = Span(parent, "request")
  OBVIOUS
<1>12. /\ new \in SdkSpans /\ new.open /\ new.exports = 0 /\ new.by = "request"
       /\ new.parent = parent /\ new.written = FALSE
  BY <1>11 DEF Span, SdkSpans, Invalid, Inbound
<1>13. /\ spans' \in Seq(SdkSpans) /\ Len(spans') = m + 1
       /\ \A n \in 1 .. m : spans'[n] = spans[n]
       /\ spans'[m + 1] = new
  BY <1>1, <1>6, <1>10, <1>11, <1>12
<1>14. \A n \in 1 .. m + 1 : n \in 1 .. m \/ n = m + 1
  OBVIOUS
<1>15. SpanTypes'
  <2>1. parent \in Inbound .. (m + 1) - 1 /\ ended' \subseteq Inbound .. m + 1
    BY <1>6, <1>10 DEF Invalid, Inbound
  <2>2. QED
    BY <1>10, <1>12, <1>13, <1>14, <2>1 DEF SpanTypes
<1>16. PICK g : g = Guard("request", native)
  OBVIOUS
<1>17. g \in Guards(m + 1) /\ g.by # "scope" /\ guards' = Append(<<>>, g)
  BY <1>5, <1>6, <1>9, <1>16 DEF Guard, Guards
<1>18. guards' \in Seq(Guards(m + 1)) /\ Len(guards') = 1 /\ guards'[1] = g
  BY <1>17
<1>19. ValueTypes'
  <2>1. Root \in Contexts(m + 1, r)
    BY DEF Root, Contexts, Context, Natives, Empty, Inbound, Invalid
  <2>2. builder' \in [parent : {"current", "root", "explicit"}, native : Natives(m + 1)]
    <3>1. Natives(m) \subseteq Natives(m + 1)
      BY ValuesGrow
    <3>2. QED
      BY <1>1, <1>6, <3>1 DEF IndInv, ValueTypes
  <2>3. stored' \in [DOMAIN stored' -> Contexts(m + 1, r)]
    BY <1>7, <1>9
  <2>4. QED
    BY <1>5, <1>6, <1>13, <1>18, <2>1, <2>2, <2>3, EmptySeq DEF ValueTypes
<1>20. IdShape'
  <2>1. last_id' = r /\ request' = r /\ detached' = {} /\ Len(stack') = 0
    BY <1>5, <1>6
  <2>2. r \in 0 .. r /\ {r} \subseteq 1 .. r
    BY <1>7
  <2>3. QED
    BY <1>7, <1>8, <2>1, <2>2 DEF IdShape
<1>21. RootShape' /\ IdleShape'
  BY <1>6, <1>7, <1>9, <1>12, <1>13, <1>16, <1>18 DEF RootShape, IdleShape
<1>22. ScopeShape'
  <2>1. Keep(guards', ScopeGuards) = <<>>
    <3>1. <<>> \in Seq(Guards(m + 1)) /\ g \notin ScopeGuards
      BY <1>17, EmptySeq, ScopeGuardFields
    <3>2. Keep(Append(<<>>, g), ScopeGuards) = Keep(<<>>, ScopeGuards)
      <4>1. PICK e \in Seq(Guards(m + 1)) : e = <<>>
        BY <3>1
      <4>2. Keep(Append(e, g), ScopeGuards) = Keep(e, ScopeGuards)
        BY <1>17, <3>1, KeepAppend
      <4>3. QED
        BY <4>1, <4>2
    <3>3. QED
      BY <1>17, <3>2, KeepEmpty
  <2>2. QED
    BY <1>5, <1>6, <2>1 DEF ScopeShape
<1>23. \A x \in LiveContexts' : x.span = Null /\ x.root = Null
  <2>1. LiveContexts' \subseteq {c, Root}
    BY <1>5, <1>6, <1>7 DEF LiveContexts
  <2>2. QED
    BY <1>9, <2>1 DEF Root, Context
<1>24. ViewsAgree' /\ RootsFollowScopes'
  BY <1>5, <1>6, <1>23 DEF ViewsAgree, Agrees, RootsFollowScopes
<1>25. LifeShape'
  <2>1. \A n : ~Referenced(n)'
    <3>1. TAKE n
    <3>2. Owned(n) # Null /\ held' = {}
      BY <1>5, <1>6, Kinds
    <3>3. \A x \in LiveContexts' : Owned(n) \notin {x.span, x.root}
      BY <1>23, <3>2
    <3>4. QED
      BY <3>2, <3>3 DEF Referenced, Owned, Object
  <2>2. m + 1 \notin ended'
    BY <1>6, <1>10 DEF Inbound
  <2>3. stored'[request'].native.sc = m + 1 /\ request' # 0
    BY <1>6, <1>7, <1>9
  <2>4. QED
    BY <1>6, <1>10, <1>12, <1>13, <1>14, <2>1, <2>2, <2>3 DEF LifeShape
<1>26. WritesHitTheirSpan'
  <2>1. DOMAIN spans = 1 .. m /\ DOMAIN spans' = 1 .. m + 1
    BY <1>1, <1>10, <1>13
  <2>2. QED
    BY <1>6, <1>12, <1>13, <1>14, <2>1 DEF IndInv, WritesHitTheirSpan
<1>27. QED
  BY <1>15, <1>19, <1>20, <1>21, <1>22, <1>24, <1>25, <1>26 DEF IndInv

LEMMA ShutdownStep ==
  ASSUME IndInv, RequestShutdown
  PROVE  IndInv'
<1>1. /\ running' = FALSE /\ held' = {} /\ saved' = Root /\ builder' = NewBuilder
      /\ stored' = << >> /\ DOMAIN stored' = {} /\ detached' = {} /\ stack' = <<>>
      /\ guards' = <<>> /\ local_root' = 0 /\ request' = 0 /\ chain' = <<>>
      /\ UNCHANGED <<last_id, ended, aimed>>
  BY DEF RequestShutdown
<1>2. PICK S : S = Freed \cup {Target(Bound(request))}
                     \cup {n \in DOMAIN spans : spans[n].by = "hook"}
  OBVIOUS
<1>3. spans' = Ending(S, spans)
  BY <1>2 DEF RequestShutdown
<1>4. /\ spans \in Seq(SdkSpans) /\ Len(spans) \in Nat /\ DOMAIN spans = 1 .. Len(spans)
      /\ \A n \in 1 .. Len(spans) : /\ spans[n].exports = IF spans[n].open THEN 0 ELSE 1
                                    /\ spans[n] \in SdkSpans
      /\ ended \subseteq Inbound .. Len(spans)
  BY DEF IndInv, SpanTypes
<1>5. /\ spans' \in Seq(SdkSpans) /\ Len(spans') = Len(spans)
      /\ \A n \in 1 .. Len(spans) :
           /\ spans'[n].parent = spans[n].parent /\ spans'[n].by = spans[n].by
           /\ spans'[n].written = spans[n].written
           /\ spans'[n].open <=> spans[n].open /\ n \notin S
           /\ spans'[n].exports = IF spans'[n].open THEN 0 ELSE 1
  BY <1>3, <1>4, EndingSpans
<1>6. \A c \in LiveContexts' : c = Root
  BY <1>1 DEF LiveContexts
<1>7. \A n : ~Referenced(n)'
  <2>1. TAKE n
  <2>2. Owned(n) # Null
    BY Kinds
  <2>3. \A c \in LiveContexts' : Owned(n) \notin {c.span, c.root}
    BY <1>6, <2>2 DEF Root, Context
  <2>4. QED
    BY <1>1, <2>3 DEF Referenced, Owned, Object
<1>8. ASSUME NEW n \in 1 .. Len(spans), spans[n].open PROVE n \in S
  <2>1. spans[n].by \in {"request", "hook", "php"}
    BY <1>4 DEF SdkSpans
  <2>2. CASE spans[n].by = "php"
    BY <1>2, <1>4, <1>7, <2>2 DEF Freed
  <2>3. CASE spans[n].by = "hook"
    BY <1>2, <1>4, <2>3
  <2>4. CASE spans[n].by = "request"
    <3>1. request # 0 /\ n = stored[request].native.sc
      BY <1>8, <2>4 DEF IndInv, LifeShape
    <3>2. Target(Bound(request)) = stored[request].native.sc
      BY <3>1, Kinds DEF IndInv, RootShape, IdShape, Target, Instance
    <3>3. QED
      BY <1>2, <3>1, <3>2
  <2>5. QED
    BY <2>1, <2>2, <2>3, <2>4
<1>9. \A n \in 1 .. Len(spans) : ~spans'[n].open
  BY <1>5, <1>8
<1>10. SpanTypes'
  BY <1>1, <1>4, <1>5 DEF IndInv, SpanTypes
<1>11. ValueTypes'
  <2>1. PICK m \in Nat : m = Len(spans')
    BY <1>4, <1>5
  <2>2. Root \in Contexts(m, 0) /\ Empty \in Natives(m)
    BY DEF Root, Contexts, Context, Natives, Empty, Inbound, Invalid
  <2>3. NewBuilder \in [parent : {"current", "root", "explicit"}, native : Natives(m)]
    BY <2>2 DEF NewBuilder
  <2>4. stored' \in [DOMAIN stored' -> Contexts(m, 0)]
    BY <1>1
  <2>5. QED
    BY <1>1, <2>1, <2>2, <2>3, <2>4, EmptySeq DEF ValueTypes
<1>12. IdShape' /\ RootShape' /\ IdleShape' /\ RootsFollowScopes'
  BY <1>1 DEF IndInv, IdShape, RootShape, IdleShape, RootsFollowScopes
<1>13. ScopeShape'
  BY <1>1, KeepEmpty DEF ScopeShape
<1>14. ViewsAgree'
  BY <1>6 DEF ViewsAgree, Agrees, Root, Context
<1>15. LifeShape'
  BY <1>5, <1>7, <1>9 DEF LifeShape
<1>16. WritesHitTheirSpan'
  <2>1. DOMAIN spans' = 1 .. Len(spans)
    BY <1>5
  <2>2. QED
    BY <1>1, <1>4, <1>5, <2>1 DEF IndInv, WritesHitTheirSpan
<1>17. QED
  BY <1>10, <1>11, <1>12, <1>13, <1>14, <1>15, <1>16 DEF IndInv

\* Nothing happens.
LEMMA StutterStep ==
  ASSUME IndInv, UNCHANGED vars
  PROVE  IndInv'
<1>1. UNCHANGED <<spans, stored, detached, last_id, stack, guards, local_root, request,
                  running, held, saved, builder, chain, ended, aimed, plain>>
  BY DEF vars, tableVars, activeVars, rootVars, phpVars, histVars
<1>2. SpanTypes' /\ IdShape' /\ ScopeShape' /\ WritesHitTheirSpan'
  BY <1>1 DEF IndInv, SpanTypes, IdShape, ScopeShape, WritesHitTheirSpan
<1>3. ValueTypes'
  BY <1>1 DEF IndInv, ValueTypes
<1>4. RootShape' /\ IdleShape'
  BY <1>1 DEF IndInv, RootShape, IdleShape
<1>5. LiveContexts' = LiveContexts /\ \A o : SpanContextOf(o)' = SpanContextOf(o)
  BY <1>1 DEF LiveContexts, SpanContextOf, Instance
<1>6. ViewsAgree'
  BY <1>5 DEF IndInv, ViewsAgree, Agrees
<1>7. RootsFollowScopes'
  <2>1. \A k : Starts(k)' <=> Starts(k)
    BY <1>1 DEF Starts, SpanContextOf, Instance
  <2>2. QED
    BY <1>1, <2>1 DEF IndInv, RootsFollowScopes
<1>8. LifeShape'
  <2>1. \A n : Referenced(n)' <=> Referenced(n)
    BY <1>1 DEF Referenced, LiveContexts, Owned, Object
  <2>2. QED
    BY <1>1, <2>1 DEF IndInv, LifeShape
<1>9. QED
  BY <1>2, <1>3, <1>4, <1>6, <1>7, <1>8 DEF IndInv

\* The invariant holds in every state that requests, hooks and scripts can reach.
THEOREM Invariance == Spec => []IndInv
<1>1. IndInv /\ [Next]_vars => IndInv'
  <2>1. ASSUME IndInv, Next PROVE IndInv'
    BY <2>1, BareStep, RequestStep, ShutdownStep, CallStep DEF Next
  <2>2. QED
    BY <2>1, StutterStep
<1>2. QED
  BY InitInv, <1>1, PTL DEF Spec

-----------------------------------------------------------------------------
(* The properties of the runs.                                              *)

\* The two views of every context the script can reach name one span, unless the script
\* set the PHP value alone, with Context::with; that does not spread to what
\* storeInContext makes of such a context.
THEOREM ViewsNameOneSpan == Spec => []NativeMatchesPhp
<1>1. IndInv => NativeMatchesPhp
  <2>1. SUFFICES ASSUME IndInv PROVE NativeMatchesPhp
    OBVIOUS
  <2>2. Agrees(Current)
    BY <2>1, CurrentSound DEF IndInv, SoundContext
  <2>3. QED
    BY <2>1, <2>2 DEF IndInv, ViewsAgree, Agrees, NativeMatchesPhp
<1>2. QED
  BY <1>1, Invariance, PTL

\* A span started without an explicit parent is a child of the innermost open scope's.
THEOREM ParentsNest == Spec => []NestedParents
<1>1. IndInv => NestedParents
  <2>1. SUFFICES ASSUME IndInv, builder.parent = "current"
                 PROVE  LET expected == IF chain # <<>> THEN SpanContextOf(Last(chain))
                                        ELSE RustCurrent.sc
                        IN /\ SpanContextOf(SpanFrom(Current)) = expected
                           /\ ~Current.keyed => Current.native.sc = expected
    BY DEF NestedParents, BuilderParent
  <2>2. Current.span = Null \/ ~Current.keyed =>
          SpanContextOf(SpanFrom(Current)) = Current.native.sc
    <3>1. CASE Current.span = Null
      BY <3>1, Kinds DEF SpanFrom, SpanContextOf
    <3>2. CASE Current.span # Null /\ ~Current.keyed
      BY <2>1, <3>2, CurrentSound DEF IndInv, SoundContext, Agrees, SpanFrom
    <3>3. QED
      BY <3>1, <3>2
  <2>3. /\ stack \in Seq(Entries(Len(spans), request))
        /\ chain \in Seq(Objects(Len(spans), request)) /\ Len(chain) = Len(stack)
    BY <2>1 DEF IndInv, ValueTypes, ScopeShape
  <2>4. CASE chain = <<>>
    <3>1. stack = <<>>
      BY <2>3, <2>4, EmptySeq
    <3>2. QED
      BY <2>2, <2>4, <3>1 DEF Current, Context
  <2>5. CASE chain # <<>>
    <3>1. stack # <<>> /\ Len(stack) \in 1 .. Len(stack)
      BY <2>3, <2>5, EmptySeq
    <3>2. Current = stack[Len(stack)].context /\ Last(chain) = chain[Len(stack)]
      BY <2>3, <3>1 DEF Current, Last
    <3>3. Last(chain) = SpanFrom(Current)
      BY <2>1, <3>1, <3>2 DEF IndInv, ScopeShape
    <3>4. QED
      BY <2>2, <2>5, <3>3
  <2>6. QED
    BY <2>4, <2>5
<1>2. QED
  BY <1>1, Invariance, PTL

\* The local root is the span of the outermost scope above a remote or invalid span, and
\* without scopes the root span of the request, which can be written to.
THEOREM LocalRoots == Spec => []LocalRootOfScopes
<1>1. IndInv => LocalRootOfScopes
  <2>1. SUFFICES ASSUME IndInv PROVE LocalRootOfScopes
    OBVIOUS
  <2>2. /\ stack \in Seq(Entries(Len(spans), request)) /\ Len(stack) \in Nat
        /\ chain \in Seq(Objects(Len(spans), request)) /\ Len(chain) = Len(stack)
        /\ Len(spans) \in Nat /\ request \in Nat
    BY <2>1 DEF IndInv, SpanTypes, ValueTypes, ScopeShape, IdShape
  <2>3. ASSUME plain, chain # <<>>
        PROVE  LocalRootFrom(Current) =
                 chain[Max({i \in DOMAIN chain :
                              i = 1 \/ SpanContextOf(chain[i - 1]) \in {Invalid, Inbound}})]
    <3> DEFINE starts == {i \in DOMAIN chain :
                            i = 1 \/ SpanContextOf(chain[i - 1]) \in {Invalid, Inbound}}
    <3>1. PICK L \in Nat : L = Len(stack)
      BY <2>2
    <3>2. L \in 1 .. L /\ stack # <<>> /\ Current = stack[L].context
      BY <2>2, <2>3, <3>1, EmptySeq DEF Current, Last
    <3>3. PICK j \in 1 .. L : /\ Starts(j) /\ stack[L].context.root = chain[j]
                              /\ \A k \in j + 1 .. L : ~Starts(k)
      BY <2>1, <2>3, <3>1, <3>2 DEF IndInv, RootsFollowScopes
    <3>4. starts \in SUBSET (1 .. L) /\ \A i \in 1 .. L : i \in starts <=> Starts(i)
      BY <2>2, <3>1 DEF Starts
    <3>5. j \in starts
      BY <3>3, <3>4
    <3> HIDE DEF starts
    <3>6. Max(starts) \in starts /\ \A y \in starts : y <= Max(starts)
      BY <3>4, <3>5, LastPosition
    <3>7. Max(starts) = j
      <4>1. j <= Max(starts) /\ Max(starts) \in 1 .. L /\ Starts(Max(starts))
        BY <3>4, <3>5, <3>6
      <4>2. Max(starts) \notin j + 1 .. L
        BY <3>3, <4>1
      <4>3. QED
        BY <4>1, <4>2
    <3>8. chain[j] # Null
      BY <2>2, <3>1, ObjectKinds
    <3>9. LocalRootFrom(Current) = chain[j]
      BY <3>2, <3>3, <3>8 DEF LocalRootFrom
    <3>10. QED
      BY <3>7, <3>9 DEF starts
  <2>4. ASSUME chain = <<>>, request # 0, Len(guards) = 1
        PROVE  /\ Target(LocalRootFrom(Current)) # 0
               /\ Target(LocalRootFrom(Current)) = RustCurrent.sc
    <3>1. stack = <<>>
      BY <2>2, <2>4, EmptySeq
    <3>2. /\ guards[1] = Guard("request", stored[request].native)
          /\ local_root = request /\ request \in DOMAIN stored
          /\ stored[request].native.live /\ stored[request].native.sc \in 1 .. Len(spans)
      BY <2>1, <2>4 DEF IndInv, RootShape, IdShape
    <3>3. RustCurrent = stored[request].native
      <4>1. guards # <<>> /\ Last(guards) = guards[1]
        <5>1. guards \in Seq(Guards(Len(spans)))
          BY <2>1 DEF IndInv, ValueTypes
        <5>2. guards # <<>>
          BY <2>4, <5>1, EmptySeq
        <5>3. QED
          BY <2>4, <5>2 DEF Last
      <4>2. QED
        BY <3>2, <4>1 DEF RustCurrent, Guard
    <3>4. Current = Context(RustCurrent, Null, Null)
      BY <3>1 DEF Current
    <3>5. LocalRootFrom(Current) = Bound(request)
      BY <3>2, <3>3, <3>4 DEF LocalRootFrom, Context
    <3>6. Target(Bound(request)) = stored[request].native.sc
      BY <3>2, Kinds DEF Target, Instance
    <3>7. QED
      BY <2>2, <3>2, <3>3, <3>5, <3>6
  <2>5. QED
    BY <2>3, <2>4 DEF LocalRootOfScopes
<1>2. QED
  BY <1>1, Invariance, PTL

\* Spans are exported once, all of them by the end of their request, and none that a
\* scope or the request relies on ends but by a call.
THEOREM SpansEndInTime == Spec => []SpanLifetime
<1>1. IndInv => SpanLifetime
  <2>1. SUFFICES ASSUME IndInv PROVE SpanLifetime
    OBVIOUS
  <2>2. /\ DOMAIN spans = 1 .. Len(spans) /\ DOMAIN stack = 1 .. Len(stack)
        /\ DOMAIN chain = 1 .. Len(stack) /\ Len(spans) \in Nat /\ request \in Nat
        /\ \A n \in 1 .. Len(spans) : spans[n] \in SdkSpans
    BY <2>1 DEF IndInv, SpanTypes, ValueTypes, ScopeShape, IdShape
  <2>3. TypeOK
    <3>1. \A n \in DOMAIN spans : spans[n].parent \in Inbound .. n - 1
                                    /\ spans[n].by \in {"request", "hook", "php"}
      BY <2>1, <2>2 DEF IndInv, SpanTypes, SdkSpans
    <3>2. \A o \in held : o.kind \in {"owned", "bound", "passive"}
      BY <2>1 DEF IndInv, ValueTypes, Objects
    <3>3. QED
      BY <2>1, <2>2, <3>1, <3>2 DEF TypeOK, IndInv, IdShape
  <2>4. ExportedOnce
    BY <2>1, <2>2 DEF ExportedOnce, IndInv, SpanTypes, LifeShape
  <2>5. ActiveStaysOpen
    <3>1. SUFFICES ASSUME NEW n \in 1 .. Len(spans), n \notin ended, spans[n].exports > 0
                   PROVE  /\ Owned(n) \notin {chain[i] : i \in DOMAIN chain}
                          /\ n # Target(Bound(request))
      BY <2>2 DEF ActiveStaysOpen
    <3>2. ~spans[n].open
      BY <2>1, <3>1 DEF IndInv, SpanTypes
    <3>3. ASSUME NEW i \in 1 .. Len(stack), chain[i] = Owned(n) PROVE FALSE
      <4>1. stack[i].context.span = Owned(n)
        BY <2>1, <3>3, Kinds DEF IndInv, ScopeShape, SpanFrom
      <4>2. Referenced(n)
        BY <2>2, <4>1, LiveAre, ReferencedBy
      <4>3. QED
        BY <2>1, <3>1, <3>2, <4>2 DEF IndInv, LifeShape
    <3>4. ASSUME n = Target(Bound(request)) PROVE FALSE
      <4>1. CASE request = 0
        <5>1. Instance(request) = Root
          BY <2>1, <4>1 DEF IndInv, IdShape, Instance
        <5>2. QED
          BY <3>1, <3>4, <5>1, Kinds DEF Target, Root, Context, Empty
      <4>2. CASE request # 0
        <5>1. n = stored[request].native.sc
          BY <2>1, <3>4, <4>2, Kinds DEF IndInv, RootShape, IdShape, Target, Instance
        <5>2. QED
          BY <2>1, <3>1, <3>2, <4>2, <5>1 DEF IndInv, RootShape
      <4>3. QED
        BY <4>1, <4>2
    <3>5. QED
      BY <2>2, <3>3, <3>4
  <2>6. QED
    BY <2>3, <2>4, <2>5 DEF SpanLifetime
<1>2. QED
  BY <1>1, Invariance, PTL

\* Writes reach the span whose id the script sees, and no other.
THEOREM WritesArrive == Spec => []WritesHitTheirSpan
<1>1. IndInv => WritesHitTheirSpan
  BY DEF IndInv
<1>2. QED
  BY <1>1, Invariance, PTL
=============================================================================
