------------------------- MODULE PropagationProofs -------------------------
(***************************************************************************)
(* Theorems about trace states, baggage and the propagators, for any       *)
(* alphabet of keys, values and headers, any limits and any calls.         *)
(*                                                                         *)
(* PropagationInvariant is inductive: the TraceStates of a script are      *)
(* Sound, those of the SDK have only members it takes, a baggage has each  *)
(* key once, and a carrier holds in one spelling what was last injected    *)
(* into it.  What it promises needs facts about the functions:             *)
(*   - SpellsItself: a sound trace state is what its header parses to;     *)
(*   - SdkReadsHeader, ShownTaken: what the SDK reads of a trace state,    *)
(*     and what a script is shown of the SDK's;                            *)
(*   - LimitedFits: what each pass of limited_header leaves out, and why   *)
(*     the length it keeps is that of the members left (PassedStep);       *)
(*   - SetHolds: a header that is set is found again, in its spelling      *)
(*     and by the request, and no other header is lost;                    *)
(*   - ReadEntry: one entry, written, trimmed, cut and unescaped;          *)
(*   - SplitPlain, ReadPlain: the same for a header of many entries.       *)
(*                                                                         *)
(* A fold is a recursive function of the length of the prefix; the lemmas  *)
(* called ...Run state its values, and what holds of each is shown by      *)
(* UpToInduction.                                                          *)
(***************************************************************************)
EXTENDS Propagation, FilterProofs

-----------------------------------------------------------------------------
(* Trace states.                                                            *)

Members == [key : StateKeys, value : StateValues]

\* Members are valid, few enough, and their keys differ.
UniqueKeys(s) == \A i, j \in 1 .. Len(s) : s[i].key = s[j].key => i = j
Sound(ms) ==
  /\ ms \in Seq(Members)
  /\ Len(ms) <= MaxMembers
  /\ UniqueKeys(ms)
  /\ \A i \in 1 .. Len(ms) : valid_key(ms[i].key) /\ valid_value(ms[i].value)

ParseStates == {a \in [ok : BOOLEAN, ms : Seq(Members)] : Sound(a.ms)}
ParseStart  == [ok |-> TRUE, ms |-> <<>>]

\* The empty trace state is sound.
LEMMA EmptySound == Sound(<<>>) /\ ParseStart \in ParseStates
<1>1. <<>> \in Seq(Members) /\ Len(<<>>) = 0 /\ MaxMembers \in Nat
  BY BoundsAssumption
<1>2. Sound(<<>>)
  BY <1>1 DEF Sound, UniqueKeys
<1>3. QED
  BY <1>1, <1>2 DEF ParseStates, ParseStart

\* A member that validate_member accepts and that is new can be added.
LEMMA AppendSound ==
  ASSUME NEW ms, Sound(ms), NEW k \in StateKeys, NEW v \in StateValues,
         ~HasKey(ms, k), validate_member(ms, k, v)
  PROVE  Sound(Append(ms, Member(k, v)))
<1> DEFINE x == Member(k, v)
           s == Append(ms, x)
<1>1. x \in Members /\ x.key = k /\ x.value = v
  BY DEF Member, Members
<1>2. /\ ms \in Seq(Members) /\ Len(ms) \in Nat /\ Len(ms) <= MaxMembers /\ DOMAIN ms = 1 .. Len(ms)
      /\ MaxMembers \in Nat
  BY BoundsAssumption DEF Sound
<1>3. valid_key(k) /\ valid_value(v) /\ Len(ms) < MaxMembers
  BY DEF validate_member
<1> HIDE DEF x
<1>4. /\ s \in Seq(Members) /\ Len(s) = Len(ms) + 1 /\ s[Len(ms) + 1] = x
      /\ \A i \in 1 .. Len(ms) : s[i] = ms[i]
  BY <1>1, <1>2, AppendProperties
<1> HIDE DEF s
<1>5. Len(s) <= MaxMembers
  BY <1>2, <1>3, <1>4
<1>6. \A i \in 1 .. Len(s) : i = Len(ms) + 1 \/ i \in 1 .. Len(ms)
  BY <1>2, <1>4
<1>7. \A i \in 1 .. Len(ms) : s[i].key # k
  BY <1>2, <1>4 DEF HasKey
<1>8. UniqueKeys(s)
  <2>1. SUFFICES ASSUME NEW i \in 1 .. Len(s), NEW j \in 1 .. Len(s), s[i].key = s[j].key
                 PROVE  i = j
    BY DEF UniqueKeys
  <2>2. CASE i = Len(ms) + 1
    BY <1>1, <1>4, <1>6, <1>7, <2>1, <2>2
  <2>3. CASE i \in 1 .. Len(ms) /\ j = Len(ms) + 1
    BY <1>1, <1>4, <1>7, <2>1, <2>3
  <2>4. CASE i \in 1 .. Len(ms) /\ j \in 1 .. Len(ms)
    BY <1>4, <2>1, <2>4 DEF Sound, UniqueKeys
  <2>5. QED
    BY <1>6, <2>2, <2>3, <2>4
<1>9. \A i \in 1 .. Len(s) : valid_key(s[i].key) /\ valid_value(s[i].value)
  BY <1>1, <1>3, <1>4, <1>6 DEF Sound
<1>10. Sound(s)
  BY <1>4, <1>5, <1>8, <1>9 DEF Sound
<1>11. QED
  BY <1>10 DEF s, x

\* TraceStateState::parse keeps what it has read so far sound.
LEMMA ParseStepSound ==
  ASSUME NEW a \in ParseStates, NEW m \in RawMembers
  PROVE  ParseStep(a, m) \in ParseStates
<1>1. a \in [ok : BOOLEAN, ms : Seq(Members)] /\ Sound(a.ms)
  BY DEF ParseStates
<1>2. [ok |-> FALSE, ms |-> <<>>] \in ParseStates
  BY EmptySound DEF ParseStates, Sound
<1>3. CASE ~a.ok \/ m.kind = "blank"
  BY <1>3 DEF ParseStep
<1>4. CASE /\ a.ok /\ m.kind # "blank" /\ m.kind # "junk" /\ validate_member(a.ms, m.key, m.value)
           /\ ~HasKey(a.ms, m.key)
  <2>1. m.key \in StateKeys /\ m.value \in StateValues
    BY <1>4 DEF RawMembers
  <2>2. Sound(Append(a.ms, Member(m.key, m.value)))
    BY <1>1, <1>4, <2>1, AppendSound
  <2>3. ParseStep(a, m) = [a EXCEPT !.ms = Append(a.ms, Member(m.key, m.value))]
    BY <1>4 DEF ParseStep
  <2> DEFINE s == Append(a.ms, Member(m.key, m.value))
  <2>4. s \in Seq(Members)
    BY <2>2 DEF Sound
  <2> HIDE DEF s
  <2>5. [a EXCEPT !.ms = s] \in [ok : BOOLEAN, ms : Seq(Members)] /\ [a EXCEPT !.ms = s].ms = s
    BY <1>1, <2>4
  <2>6. QED
    BY <2>2, <2>3, <2>5 DEF ParseStates, s
<1>5. CASE /\ a.ok /\ m.kind # "blank"
           /\ ~(m.kind # "junk" /\ validate_member(a.ms, m.key, m.value) /\ ~HasKey(a.ms, m.key))
  BY <1>2, <1>5 DEF ParseStep
<1>6. QED
  BY <1>3, <1>4, <1>5

\* The run of the loop in TraceStateState::parse.
LEMMA ParseRun ==
  ASSUME NEW raw \in Seq(RawMembers)
  PROVE  \E r : /\ r[0] = ParseStart
                /\ \A i \in 1 .. Len(raw) : r[i] = ParseStep(r[i - 1], raw[i])
                /\ parse(raw) = r[Len(raw)].ms
<1>1. PICK n : n = Len(raw)
  OBVIOUS
<1>2. n \in Nat /\ DOMAIN raw = 1 .. n /\ \A i \in 1 .. n : raw[i] \in RawMembers
  BY <1>1
<1>3. PICK F : F = [p \in ParseStates \X Nat |->
                     IF p[2] \in 1 .. n THEN ParseStep(p[1], raw[p[2]]) ELSE p[1]]
  OBVIOUS
<1>4. F \in [ParseStates \X Nat -> ParseStates]
  BY <1>2, <1>3, ParseStepSound
<1>5. PICK g : Solves(g, n, ParseStates, ParseStart, F)
  BY <1>2, <1>4, EmptySound, FoldExists
<1> DEFINE E(h) == h = [u \in SUBSET DOMAIN raw |->
                         IF u = {} THEN ParseStart ELSE ParseStep(h[u \ {Max(u)}], raw[Max(u)])]
<1>6. E(g)
  <2>1. \A a \in ParseStates, i \in 1 .. n : F[<<a, i>>] = ParseStep(a, raw[i])
    BY <1>2, <1>3
  <2>0. /\ g \in [SUBSET (1 .. n) -> ParseStates]
        /\ \A u \in SUBSET (1 .. n) :
             g[u] = IF u = {} THEN ParseStart ELSE F[<<g[u \ {Max(u)}], Max(u)>>]
    BY <1>5 DEF Solves
  <2>2. \A u \in SUBSET (1 .. n) :
          g[u] = IF u = {} THEN ParseStart ELSE ParseStep(g[u \ {Max(u)}], raw[Max(u)])
    BY <1>2, <2>0, <2>1, MaxInside
  <2>3. g = [u \in SUBSET (1 .. n) |-> g[u]]
    BY <2>0
  <2>4. QED
    BY <1>2, <2>2, <2>3
<1> HIDE DEF E
<1>7. PICK it : it = (CHOOSE h : E(h))
  OBVIOUS
<1>8. E(it)
  BY <1>6, <1>7
<1>9. parse(raw) = it[1 .. n].ms
  BY <1>2, <1>7 DEF parse, FoldLeft, MapThenFoldSet, E, ParseStart
<1> DEFINE r == [k \in 0 .. n |-> it[1 .. k]]
<1>10. r[0] = ParseStart
  BY <1>2, <1>8, PrefixSets DEF E
<1>11. ASSUME NEW i \in 1 .. n
       PROVE  r[i] = ParseStep(r[i - 1], raw[i])
  <2>1. /\ 1 .. i \in SUBSET (1 .. n) /\ 1 .. i # {}
        /\ Max(1 .. i) = i /\ (1 .. i) \ {i} = 1 .. (i - 1)
    BY <1>2, PrefixSets
  <2>2. it[1 .. i] = ParseStep(it[(1 .. i) \ {Max(1 .. i)}], raw[Max(1 .. i)])
    BY <1>2, <1>8, <2>1 DEF E
  <2>3. r[i] = it[1 .. i] /\ r[i - 1] = it[1 .. (i - 1)]
    BY <1>2
  <2>4. QED
    BY <2>1, <2>2, <2>3
<1>12. parse(raw) = r[n].ms
  BY <1>2, <1>9
<1> HIDE DEF r
<1>13. QED
  BY <1>1, <1>10, <1>11, <1>12

\* Whatever the header, what parse makes of it is sound.
LEMMA ParseSound ==
  ASSUME NEW raw \in Seq(RawMembers)
  PROVE  Sound(parse(raw))
<1>1. PICK r : /\ r[0] = ParseStart
               /\ \A i \in 1 .. Len(raw) : r[i] = ParseStep(r[i - 1], raw[i])
               /\ parse(raw) = r[Len(raw)].ms
  BY ParseRun
<1> DEFINE T == {i \in Nat : r[i] \in ParseStates}
<1>2. Len(raw) \in Nat /\ \A i \in 1 .. Len(raw) : raw[i] \in RawMembers
  OBVIOUS
<1>3. 0 \in T
  BY <1>1, EmptySound
<1>4. \A i \in 1 .. Len(raw) : i - 1 \in T => i \in T
  BY <1>1, <1>2, ParseStepSound
<1>5. Len(raw) \in T
  <2> HIDE DEF T
  <2>1. QED
    BY <1>2, <1>3, <1>4, UpToInduction
<1>6. QED
  BY <1>1, <1>5 DEF ParseStates

\* Prefixes of a sequence.
LEMMA PrefixOf ==
  ASSUME NEW X, NEW s \in Seq(X), NEW i \in 1 .. Len(s)
  PROVE  /\ SubSeq(s, 1, i) = Append(SubSeq(s, 1, i - 1), s[i])
         /\ SubSeq(s, 1, i - 1) \in Seq(X) /\ Len(SubSeq(s, 1, i - 1)) = i - 1
         /\ \A j \in 1 .. (i - 1) : SubSeq(s, 1, i - 1)[j] = s[j]
<1>0. /\ Len(s) \in Nat /\ i \in Nat /\ i - 1 \in Nat /\ i <= Len(s) /\ 1 \in 1 .. Len(s) + 1
      /\ i - 1 <= Len(s) /\ s[i] \in X /\ i \in 1 .. i
  OBVIOUS
<1>1. /\ SubSeq(s, 1, i - 1) \in Seq(X) /\ Len(SubSeq(s, 1, i - 1)) = i - 1
      /\ \A j \in 1 .. (i - 1) : SubSeq(s, 1, i - 1)[j] = s[j]
  BY <1>0
<1>2. /\ SubSeq(s, 1, i) \in Seq(X) /\ Len(SubSeq(s, 1, i)) = i
      /\ \A j \in 1 .. i : SubSeq(s, 1, i)[j] = s[j]
  BY <1>0
<1> DEFINE u == SubSeq(s, 1, i - 1)
           a == Append(u, s[i])
<1> HIDE DEF u
<1>3. /\ a \in Seq(X) /\ Len(a) = i /\ a[i] = s[i]
      /\ \A j \in 1 .. (i - 1) : a[j] = s[j]
  BY <1>0, <1>1, AppendProperties DEF u
<1>4. \A j \in 1 .. i : j = i \/ j \in 1 .. (i - 1)
  BY <1>0
<1>5. \A j \in 1 .. i : a[j] = SubSeq(s, 1, i)[j]
  BY <1>2, <1>3, <1>4
<1> HIDE DEF a
<1>6. a = SubSeq(s, 1, i)
  BY <1>2, <1>3, <1>5, SeqEqual
<1>7. QED
  BY <1>1, <1>6 DEF a, u

\* The header of a trace state, member for member.
LEMMA HeaderRaw ==
  ASSUME NEW ms \in Seq(Members)
  PROVE  /\ header(ms) \in Seq(RawMembers) /\ Len(header(ms)) = Len(ms)
         /\ \A i \in 1 .. Len(ms) : /\ header(ms)[i].kind = "pair"
                                    /\ Member(header(ms)[i].key, header(ms)[i].value) = ms[i]
<1>1. /\ Len(ms) \in Nat /\ DOMAIN ms = 1 .. Len(ms)
      /\ \A i \in 1 .. Len(ms) : /\ ms[i].key \in StateKeys /\ ms[i].value \in StateValues
                                 /\ ms[i] = Member(ms[i].key, ms[i].value)
  <2>1. \A i \in 1 .. Len(ms) : ms[i] \in Members
    OBVIOUS
  <2>2. \A m \in Members : /\ m.key \in StateKeys /\ m.value \in StateValues
                            /\ m = Member(m.key, m.value)
    BY DEF Members, Member
  <2>3. QED
    BY <2>1, <2>2
<1>2. /\ header(ms) \in Seq(RawMembers) /\ Len(header(ms)) = Len(ms)
      /\ \A i \in 1 .. Len(ms) :
           header(ms)[i] = [kind |-> "pair", key |-> ms[i].key, value |-> ms[i].value]
  BY <1>1 DEF header, RawMembers
<1>3. ASSUME NEW i \in 1 .. Len(ms)
      PROVE  header(ms)[i].kind = "pair" /\ Member(header(ms)[i].key, header(ms)[i].value) = ms[i]
  <2>1. PICK h : h = header(ms)[i]
    OBVIOUS
  <2>2. h = [kind |-> "pair", key |-> ms[i].key, value |-> ms[i].value]
    BY <1>2, <2>1
  <2>3. h.kind = "pair" /\ h.key = ms[i].key /\ h.value = ms[i].value
    BY <2>2
  <2>4. QED
    BY <1>1, <2>1, <2>3
<1>4. QED
  BY <1>2, <1>3

\* A sound trace state is what its header spells.
LEMMA SpellsItself ==
  ASSUME NEW ms, Sound(ms)
  PROVE  header(ms) \in Seq(RawMembers) /\ parse(header(ms)) = ms
<1>1. /\ ms \in Seq(Members) /\ Len(ms) \in Nat /\ DOMAIN ms = 1 .. Len(ms) /\ Len(ms) <= MaxMembers
      /\ MaxMembers \in Nat
      /\ \A i \in 1 .. Len(ms) : /\ ms[i].key \in StateKeys /\ ms[i].value \in StateValues
                                 /\ ms[i] = Member(ms[i].key, ms[i].value)
  <2>1. ms \in Seq(Members) /\ Len(ms) <= MaxMembers /\ MaxMembers \in Nat
    BY BoundsAssumption DEF Sound
  <2>2. \A i \in 1 .. Len(ms) : ms[i] \in Members
    BY <2>1
  <2>3. \A m \in Members : /\ m.key \in StateKeys /\ m.value \in StateValues
                            /\ m = Member(m.key, m.value)
    BY DEF Members, Member
  <2>4. QED
    BY <2>1, <2>2, <2>3
<1> DEFINE h == header(ms)
<1>2. /\ h \in Seq(RawMembers) /\ Len(h) = Len(ms)
      /\ \A i \in 1 .. Len(ms) : h[i] = [kind |-> "pair", key |-> ms[i].key, value |-> ms[i].value]
  BY <1>1 DEF header, RawMembers
<1> HIDE DEF h
<1>3. PICK r : /\ r[0] = ParseStart
               /\ \A i \in 1 .. Len(h) : r[i] = ParseStep(r[i - 1], h[i])
               /\ parse(h) = r[Len(h)].ms
  BY <1>2, ParseRun
<1> DEFINE T == {i \in Nat : r[i] = [ok |-> TRUE, ms |-> SubSeq(ms, 1, i)]}
<1>4. 0 \in T
  <2>1. SubSeq(ms, 1, 0) = <<>>
    BY SubSeqEmpty
  <2>2. QED
    BY <1>3, <2>1 DEF ParseStart
<1>5. ASSUME NEW i \in 1 .. Len(ms), i - 1 \in T
      PROVE  i \in T
  <2> DEFINE u == SubSeq(ms, 1, i - 1)
  <2>1. /\ SubSeq(ms, 1, i) = Append(u, ms[i]) /\ u \in Seq(Members) /\ Len(u) = i - 1
        /\ \A j \in 1 .. (i - 1) : u[j] = ms[j]
    BY <1>1, PrefixOf
  <2>2. r[i - 1] = [ok |-> TRUE, ms |-> u]
    BY <1>5
  <2> HIDE DEF u
  <2>3. ~HasKey(u, ms[i].key)
    BY <1>1, <2>1 DEF HasKey, Sound, UniqueKeys
  <2>4. validate_member(u, ms[i].key, ms[i].value)
    BY <1>1, <2>1 DEF validate_member, Sound
  <2>5. r[i] = ParseStep([ok |-> TRUE, ms |-> u], h[i])
    BY <1>2, <1>3, <2>2
  <2>6. ParseStep([ok |-> TRUE, ms |-> u], h[i])
          = [ok |-> TRUE, ms |-> Append(u, Member(ms[i].key, ms[i].value))]
    <3>1. PICK a : a = [ok |-> TRUE, ms |-> u]
      OBVIOUS
    <3>2. a.ok /\ a.ms = u
      BY <3>1
    <3>3. h[i].kind = "pair" /\ h[i].key = ms[i].key /\ h[i].value = ms[i].value
      <4>1. h[i] = [kind |-> "pair", key |-> ms[i].key, value |-> ms[i].value]
        BY <1>2, <1>5
      <4>2. QED
        BY <4>1
    <3>4. ParseStep(a, h[i]) = [a EXCEPT !.ms = Append(u, Member(ms[i].key, ms[i].value))]
      BY <2>3, <2>4, <3>2, <3>3 DEF ParseStep
    <3>5. QED
      BY <3>1, <3>4
  <2>7. r[i] = [ok |-> TRUE, ms |-> SubSeq(ms, 1, i)]
    BY <1>1, <2>1, <2>5, <2>6
  <2>8. QED
    BY <2>7
<1>6. Len(ms) \in T
  <2> HIDE DEF T
  <2>1. QED
    BY <1>1, <1>4, <1>5, UpToInduction
<1>7. SubSeq(ms, 1, Len(ms)) = ms
  BY <1>1
<1>8. QED
  BY <1>1, <1>2, <1>3, <1>6, <1>7 DEF h

-----------------------------------------------------------------------------
(* The SDK's trace states.                                                  *)

SdkStates == {ms \in Seq(Members) : SdkTakes(ms)}

\* What the SDK reads has members it takes.
LEMMA SdkReads ==
  ASSUME NEW raw \in Seq(RawMembers)
  PROVE  otel_trace_state_from_header(raw) \in SdkStates
<1>1. PICK n : n = IF raw # <<>> /\ raw[Len(raw)].kind = "blank" THEN Len(raw) - 1 ELSE Len(raw)
  OBVIOUS
<1>2. n \in Nat /\ n <= Len(raw)
  BY <1>1
<1>3. PICK found : found = [i \in 1 .. n |-> Member(raw[i].key, raw[i].value)]
  OBVIOUS
<1>4. /\ otel_trace_state_from_header(raw) =
           (IF (\A i \in 1 .. n : raw[i].kind = "pair") /\ SdkTakes(found) THEN found ELSE <<>>)
  BY <1>1, <1>3 DEF otel_trace_state_from_header, sdk_from_str
<1>5. <<>> \in SdkStates
  BY DEF SdkStates, SdkTakes
<1>6. ASSUME \A i \in 1 .. n : raw[i].kind = "pair", SdkTakes(found)
      PROVE  found \in SdkStates
  <2>1. \A i \in 1 .. n : raw[i] \in RawMembers /\ raw[i].kind = "pair"
    BY <1>2, <1>6
  <2>2. \A m \in RawMembers : m.kind = "pair" => m.key \in StateKeys /\ m.value \in StateValues
    BY DEF RawMembers
  <2>3. \A i \in 1 .. n : Member(raw[i].key, raw[i].value) \in Members
    BY <2>1, <2>2 DEF Member, Members
  <2>4. found \in Seq(Members)
    BY <1>2, <1>3, <2>3
  <2>5. QED
    BY <1>6, <2>4 DEF SdkStates
<1>7. QED
  BY <1>4, <1>5, <1>6

\* Of a trace state's header the SDK reads all of it, or nothing.
LEMMA SdkReadsHeader ==
  ASSUME NEW ms \in Seq(Members)
  PROVE  otel_trace_state_from_header(header(ms)) = IF SdkTakes(ms) THEN ms ELSE <<>>
<1>1. PICK raw : raw = header(ms)
  OBVIOUS
<1>2. /\ raw \in Seq(RawMembers) /\ Len(raw) = Len(ms) /\ Len(ms) \in Nat
      /\ \A i \in 1 .. Len(ms) : raw[i].kind = "pair" /\ Member(raw[i].key, raw[i].value) = ms[i]
  BY <1>1, HeaderRaw
<1>3. PICK n : n = IF raw # <<>> /\ raw[Len(raw)].kind = "blank" THEN Len(raw) - 1 ELSE Len(raw)
  OBVIOUS
<1>4. n = Len(ms)
  <2>1. CASE raw = <<>>
    BY <1>2, <1>3, <2>1
  <2>2. CASE raw # <<>>
    <3>1. Len(raw) \in 1 .. Len(ms)
      BY <1>2, <2>2
    <3>2. raw[Len(raw)].kind = "pair"
      BY <1>2, <3>1
    <3>3. QED
      BY <1>2, <1>3, <3>2
  <2>3. QED
    BY <2>1, <2>2
<1>5. PICK found : found = [i \in 1 .. n |-> Member(raw[i].key, raw[i].value)]
  OBVIOUS
<1>6. found = ms
  <2>1. found = [i \in 1 .. Len(ms) |-> ms[i]]
    BY <1>2, <1>4, <1>5
  <2>2. QED
    BY <2>1
<1>7. otel_trace_state_from_header(raw) =
        (IF (\A i \in 1 .. n : raw[i].kind = "pair") /\ SdkTakes(found) THEN found ELSE <<>>)
  BY <1>3, <1>5 DEF otel_trace_state_from_header, sdk_from_str
<1>8. QED
  BY <1>1, <1>2, <1>4, <1>6, <1>7

\* What a script is shown of the SDK's trace state is sound and made of its members.
LEMMA ShownTaken ==
  ASSUME NEW ms \in SdkStates
  PROVE  Sound(php_trace_state(ms)) /\ SdkTakes(php_trace_state(ms))
<1>1. ms \in Seq(Members) /\ Len(ms) \in Nat /\ DOMAIN ms = 1 .. Len(ms) /\ SdkTakes(ms)
  BY DEF SdkStates
<1>2. PICK raw : raw = header(ms)
  OBVIOUS
<1>3. /\ raw \in Seq(RawMembers) /\ Len(raw) = Len(ms)
      /\ \A i \in 1 .. Len(ms) : raw[i].kind = "pair" /\ Member(raw[i].key, raw[i].value) = ms[i]
  BY <1>1, <1>2, HeaderRaw
<1>4. PICK r : /\ r[0] = ParseStart
               /\ \A i \in 1 .. Len(raw) : r[i] = ParseStep(r[i - 1], raw[i])
               /\ parse(raw) = r[Len(raw)].ms
  BY <1>3, ParseRun
<1> DEFINE KeptByCap(a) == a \in ParseStates /\ SdkTakes(a.ms)
           T == {i \in Nat : KeptByCap(r[i])}
<1>5. 0 \in T
  BY <1>4, EmptySound DEF ParseStart, SdkTakes
<1>6. ASSUME NEW i \in 1 .. Len(ms), i - 1 \in T
      PROVE  i \in T
  <2>1. PICK a : a = r[i - 1]
    OBVIOUS
  <2>2. PICK m : m = raw[i]
    OBVIOUS
  <2>3. r[i] = ParseStep(a, m) /\ a \in ParseStates /\ SdkTakes(a.ms) /\ m \in RawMembers
    BY <1>3, <1>4, <1>6, <2>1, <2>2
  <2>4. ParseStep(a, m) \in ParseStates
    BY <2>3, ParseStepSound
  <2>5. SdkTakes(ParseStep(a, m).ms)
    <3>1. a \in [ok : BOOLEAN, ms : Seq(Members)]
      BY <2>3 DEF ParseStates
    <3>2. m.kind = "pair" /\ Member(m.key, m.value) = ms[i] /\ i \in DOMAIN ms
      BY <1>1, <1>3, <2>2
    <3>3. sdk_valid_key(ms[i].key) /\ sdk_valid_value(ms[i].value) /\ ms[i] \in Members
      BY <1>1, <3>2 DEF SdkTakes
    <3>4. PICK s : s = Append(a.ms, ms[i])
      OBVIOUS
    <3>5. /\ s \in Seq(Members) /\ DOMAIN s = 1 .. (Len(a.ms) + 1) /\ s[Len(a.ms) + 1] = ms[i]
          /\ DOMAIN a.ms = 1 .. Len(a.ms) /\ Len(a.ms) \in Nat
          /\ \A j \in 1 .. Len(a.ms) : s[j] = a.ms[j]
      BY <3>1, <3>3, <3>4, AppendProperties
    <3>6. SdkTakes(s)
      <4>1. \A j \in DOMAIN s : j = Len(a.ms) + 1 \/ j \in 1 .. Len(a.ms)
        BY <3>5
      <4>2. \A j \in 1 .. Len(a.ms) : sdk_valid_key(a.ms[j].key) /\ sdk_valid_value(a.ms[j].value)
        BY <2>3, <3>5 DEF SdkTakes
      <4>3. \A j \in DOMAIN s : sdk_valid_key(s[j].key) /\ sdk_valid_value(s[j].value)
        BY <3>3, <3>5, <4>1, <4>2
      <4>4. QED
        BY <4>3 DEF SdkTakes
    <3>7. \/ ParseStep(a, m) = a
          \/ ParseStep(a, m) = [a EXCEPT !.ms = s]
          \/ ParseStep(a, m) = [ok |-> FALSE, ms |-> <<>>]
      BY <3>2, <3>4 DEF ParseStep
    <3>8. [a EXCEPT !.ms = s].ms = s /\ [ok |-> FALSE, ms |-> <<>>].ms = <<>>
      BY <3>1
    <3>9. SdkTakes(<<>>)
      BY DEF SdkTakes
    <3>10. ParseStep(a, m).ms \in {a.ms, s, <<>>}
      BY <3>7, <3>8
    <3>11. QED
      BY <2>3, <3>6, <3>9, <3>10
  <2>6. i \in Nat
    BY <1>6
  <2>7. QED
    BY <2>3, <2>4, <2>5, <2>6
<1>7. Len(ms) \in T
  <2> HIDE DEF T
  <2>1. QED
    BY <1>1, <1>5, <1>6, UpToInduction
<1>8. QED
  BY <1>2, <1>3, <1>4, <1>7 DEF php_trace_state, ParseStates

\* Appending an element with a new key.
LEMMA UniqueAppend ==
  ASSUME NEW X, NEW s \in Seq(X), NEW x \in X
  PROVE  UniqueKeys(Append(s, x)) <=>
           UniqueKeys(s) /\ \A i \in 1 .. Len(s) : s[i].key # x.key
<1> DEFINE a == Append(s, x)
<1>1. /\ Len(s) \in Nat /\ Len(a) = Len(s) + 1 /\ a[Len(s) + 1] = x
      /\ \A i \in 1 .. Len(s) : a[i] = s[i]
  BY AppendProperties
<1> HIDE DEF a
<1>2. Len(s) + 1 \in 1 .. Len(a) /\ \A i \in 1 .. Len(a) : i = Len(s) + 1 \/ i \in 1 .. Len(s)
  BY <1>1
<1>3. \A i \in 1 .. Len(s) : i \in 1 .. Len(a) /\ i # Len(s) + 1
  BY <1>1
<1>4. UniqueKeys(a) => UniqueKeys(s) /\ \A i \in 1 .. Len(s) : s[i].key # x.key
  BY <1>1, <1>2, <1>3 DEF UniqueKeys
<1>5. ASSUME UniqueKeys(s), \A i \in 1 .. Len(s) : s[i].key # x.key
      PROVE  UniqueKeys(a)
  <2>1. SUFFICES ASSUME NEW i \in 1 .. Len(a), NEW j \in 1 .. Len(a), a[i].key = a[j].key
                 PROVE  i = j
    BY DEF UniqueKeys
  <2>2. CASE i \in 1 .. Len(s) /\ j \in 1 .. Len(s)
    BY <1>1, <1>5, <2>1, <2>2 DEF UniqueKeys
  <2>3. QED
    BY <1>1, <1>2, <1>5, <2>1, <2>2
<1>6. QED
  BY <1>4, <1>5 DEF a

\* Filtering keeps keys unique and adds nothing.
LEMMA KeepUnique ==
  ASSUME NEW X, NEW S, NEW s \in Seq(X)
  PROVE  /\ \A i \in 1 .. Len(Keep(s, S)) : \E j \in 1 .. Len(s) : Keep(s, S)[i] = s[j] /\ s[j] \in S
         /\ Len(Keep(s, S)) \in Nat /\ Len(Keep(s, S)) <= Len(s)
         /\ UniqueKeys(s) => UniqueKeys(Keep(s, S))
<1> DEFINE Part(v) == \A i \in 1 .. Len(Keep(v, S)) :
                        \E j \in 1 .. Len(v) : Keep(v, S)[i] = v[j] /\ v[j] \in S
           T == {v \in Seq(X) : /\ Part(v) /\ Len(Keep(v, S)) <= Len(v)
                                /\ UniqueKeys(v) => UniqueKeys(Keep(v, S))}
<1>1. <<>> \in T
  BY KeepEmpty DEF UniqueKeys
<1>2. ASSUME NEW v \in Seq(X), NEW x \in X, v \in T
      PROVE  Append(v, x) \in T
  <2> DEFINE k == Keep(v, S)
             a == Append(v, x)
  <2>1. k \in Seq(X)
    <3>1. k \in Seq(X \cap S) /\ X \cap S \subseteq X
      BY KeepIsSeq
    <3>2. QED
      BY <3>1, SeqMonotonic
  <2>2. Part(v) /\ Len(k) <= Len(v) /\ (UniqueKeys(v) => UniqueKeys(k))
    BY <1>2
  <2>3. Keep(a, S) = IF x \in S THEN Append(k, x) ELSE k
    BY KeepAppend
  <2>4. /\ a \in Seq(X) /\ Len(v) \in Nat /\ Len(a) = Len(v) + 1 /\ a[Len(v) + 1] = x
        /\ \A i \in 1 .. Len(v) : a[i] = v[i] /\ i \in 1 .. Len(a)
    BY AppendProperties
  <2>5. UniqueKeys(a) => UniqueKeys(v) /\ \A i \in 1 .. Len(v) : v[i].key # x.key
    BY UniqueAppend
  <2>6. UniqueKeys(Append(k, x)) <=> UniqueKeys(k) /\ \A i \in 1 .. Len(k) : k[i].key # x.key
    BY <2>1, UniqueAppend
  <2>7. /\ Len(k) \in Nat /\ Len(Append(k, x)) = Len(k) + 1 /\ Append(k, x)[Len(k) + 1] = x
        /\ \A i \in 1 .. Len(k) : Append(k, x)[i] = k[i]
    BY <2>1, AppendProperties
  <2> HIDE DEF k, a
  <2>8. CASE x \notin S
    <3>1. Keep(a, S) = k
      BY <2>3, <2>8
    <3>2. Part(a)
      BY <2>2, <2>4, <3>1 DEF k
    <3>3. Len(Keep(a, S)) <= Len(a)
      BY <2>2, <2>4, <2>7, <3>1
    <3>4. QED
      BY <2>2, <2>4, <2>5, <3>1, <3>2, <3>3 DEF a
  <2>9. CASE x \in S
    <3>1. Keep(a, S) = Append(k, x)
      BY <2>3, <2>9
    <3>2. Part(a)
      <4>1. TAKE i \in 1 .. Len(Keep(a, S))
      <4>2. i = Len(k) + 1 \/ i \in 1 .. Len(k)
        BY <2>7, <3>1
      <4>3. CASE i = Len(k) + 1
        <5>1. Len(v) + 1 \in 1 .. Len(a)
          BY <2>4
        <5>2. QED
          BY <2>4, <2>7, <2>9, <3>1, <4>3, <5>1
      <4>4. CASE i \in 1 .. Len(k)
        <5>1. PICK j \in 1 .. Len(v) : k[i] = v[j] /\ v[j] \in S
          BY <2>2, <4>4 DEF k
        <5>2. QED
          BY <2>4, <2>7, <3>1, <4>4, <5>1
      <4>5. QED
        BY <4>2, <4>3, <4>4
    <3>3. Len(Keep(a, S)) <= Len(a)
      BY <2>2, <2>4, <2>7, <3>1
    <3>4. ASSUME UniqueKeys(a)
          PROVE  UniqueKeys(Keep(a, S))
      <4>1. \A i \in 1 .. Len(k) : k[i].key # x.key
        BY <2>2, <2>5, <3>4 DEF k
      <4>2. QED
        BY <2>2, <2>5, <2>6, <3>1, <3>4, <4>1
    <3>5. QED
      BY <2>4, <3>2, <3>3, <3>4 DEF a
  <2>10. QED
    BY <2>8, <2>9
<1>3. Seq(X) \subseteq T
  <2> HIDE DEF T
  <2>1. QED
    BY <1>1, <1>2, SeqInductionSet
<1>4. s \in T /\ Keep(s, S) \in Seq(X \cap S)
  BY <1>3, KeepIsSeq
<1>5. QED
  BY <1>4

\* Any members of a sound trace state, in their order, are sound.
LEMMA KeepSound ==
  ASSUME NEW ms, Sound(ms), NEW S
  PROVE  Sound(Keep(ms, S)) /\ \A i \in 1 .. Len(Keep(ms, S)) : Keep(ms, S)[i] \in S
<1> DEFINE k == Keep(ms, S)
<1>1. ms \in Seq(Members) /\ Len(ms) <= MaxMembers /\ Len(ms) \in Nat /\ MaxMembers \in Nat
  BY BoundsAssumption DEF Sound
<1>2. k \in Seq(Members \cap S)
  BY <1>1, KeepIsSeq
<1>3. /\ \A i \in 1 .. Len(k) : \E j \in 1 .. Len(ms) : k[i] = ms[j] /\ ms[j] \in S
      /\ Len(k) \in Nat /\ Len(k) <= Len(ms)
      /\ UniqueKeys(ms) => UniqueKeys(k)
  BY <1>1, KeepUnique
<1> HIDE DEF k
<1>4. k \in Seq(Members)
  <2>1. Members \cap S \subseteq Members
    OBVIOUS
  <2>2. QED
    BY <1>2, <2>1, SeqMonotonic
<1>5. Len(k) <= MaxMembers
  BY <1>1, <1>3
<1>6. Sound(k) /\ \A i \in 1 .. Len(k) : k[i] \in S
  BY <1>3, <1>4, <1>5 DEF Sound
<1>7. QED
  BY <1>6 DEF k

\* Filtering out an element shortens the sequence.
LEMMA KeepFewer ==
  ASSUME NEW X, NEW s \in Seq(X), NEW S, NEW i \in 1 .. Len(s), s[i] \notin S
  PROVE  Len(Keep(s, S)) < Len(s)
<1>1. PICK U : U = X \ S
  OBVIOUS
<1>2. s[i] \in U /\ X \subseteq S \cup U /\ S \cap U = {}
  BY <1>1
<1>3. Len(s) = Len(Keep(s, S)) + Len(Keep(s, U))
  BY <1>2, KeepLengths
<1>4. Len(Keep(s, U)) > 0
  BY <1>2, KeepSomething
<1>5. Len(Keep(s, S)) \in Nat /\ Len(Keep(s, U)) \in Nat
  BY KeepUnique
<1>6. QED
  BY <1>3, <1>4, <1>5

\* TraceState::without leaves a sound trace state, and the key is gone.
LEMMA WithoutKeySound ==
  ASSUME NEW ms, Sound(ms), NEW k
  PROVE  /\ Sound(WithoutKey(ms, k))
         /\ \A i \in 1 .. Len(WithoutKey(ms, k)) : WithoutKey(ms, k)[i].key # k
         /\ HasKey(ms, k) => Len(WithoutKey(ms, k)) < Len(ms)
<1> DEFINE S == {m \in Range(ms) : m.key # k}
           w == Keep(ms, S)
<1>1. ms \in Seq(Members) /\ Len(ms) \in Nat /\ DOMAIN ms = 1 .. Len(ms)
  BY DEF Sound
<1>2. Sound(w) /\ \A i \in 1 .. Len(w) : w[i] \in S
  <2> HIDE DEF S
  <2>1. QED
    BY KeepSound
<1>3. \A i \in 1 .. Len(w) : w[i].key # k
  BY <1>2
<1>4. ASSUME HasKey(ms, k)
      PROVE  Len(w) < Len(ms)
  <2>1. PICK i \in 1 .. Len(ms) : ms[i].key = k
    BY <1>1, <1>4 DEF HasKey
  <2>2. ms[i] \notin S
    BY <2>1
  <2> HIDE DEF S
  <2>3. QED
    BY <1>1, <2>1, <2>2, KeepFewer
<1>5. QED
  BY <1>2, <1>3, <1>4 DEF WithoutKey

\* TraceState::with puts the member first.
LEMMA WithSound ==
  ASSUME NEW ms, Sound(ms), NEW k \in StateKeys, NEW v \in StateValues, validate_member(ms, k, v)
  PROVE  Sound(<<Member(k, v)>> \o WithoutKey(ms, k))
<1>1. PICK w : w = WithoutKey(ms, k)
  OBVIOUS
<1>2. PICK x : x = Member(k, v)
  OBVIOUS
<1>3. x \in Members /\ x.key = k /\ x.value = v
  BY <1>2 DEF Member, Members
<1>4. /\ Sound(w) /\ \A i \in 1 .. Len(w) : w[i].key # k
      /\ HasKey(ms, k) => Len(w) < Len(ms)
  BY <1>1, WithoutKeySound
<1>5. /\ w \in Seq(Members) /\ Len(w) \in Nat /\ Len(w) <= MaxMembers /\ MaxMembers \in Nat
      /\ Len(ms) \in Nat /\ Len(ms) <= MaxMembers
  BY <1>4, BoundsAssumption DEF Sound
<1>6. valid_key(k)
  <2>1. CASE HasKey(ms, k)
    BY <2>1 DEF HasKey, Sound
  <2>2. QED
    BY <2>1 DEF validate_member
<1>7. Len(w) < MaxMembers
  <2>1. CASE HasKey(ms, k)
    BY <1>4, <1>5, <2>1
  <2>2. CASE ~HasKey(ms, k)
    <3>1. Len(w) <= Len(ms) /\ Len(ms) < MaxMembers
      BY <1>1, <2>2, KeepUnique DEF WithoutKey, validate_member, Sound
    <3>2. QED
      BY <1>5, <3>1
  <2>3. QED
    BY <2>1, <2>2
<1>8. PICK s : s = <<x>> \o w
  OBVIOUS
<1>9. /\ s \in Seq(Members) /\ Len(s) = Len(w) + 1 /\ s[1] = x
      /\ \A i \in 2 .. Len(s) : s[i] = w[i - 1] /\ i - 1 \in 1 .. Len(w)
  <2>1. <<x>> \in Seq(Members) /\ Len(<<x>>) = 1 /\ <<x>>[1] = x
    BY <1>3
  <2>2. /\ s \in Seq(Members) /\ Len(s) = 1 + Len(w)
        /\ \A i \in 1 .. 1 + Len(w) : s[i] = IF i <= 1 THEN <<x>>[i] ELSE w[i - 1]
    BY <1>5, <1>8, <2>1, ConcatProperties
  <2>3. QED
    BY <1>5, <2>1, <2>2
<1>10. \A i \in 1 .. Len(s) : i = 1 \/ i \in 2 .. Len(s)
  BY <1>5, <1>9
<1>11. UniqueKeys(s)
  <2>1. SUFFICES ASSUME NEW i \in 1 .. Len(s), NEW j \in 1 .. Len(s), s[i].key = s[j].key
                 PROVE  i = j
    BY DEF UniqueKeys
  <2>2. CASE i \in 2 .. Len(s) /\ j \in 2 .. Len(s)
    <3>1. w[i - 1].key = w[j - 1].key /\ i - 1 \in 1 .. Len(w) /\ j - 1 \in 1 .. Len(w)
      BY <1>9, <2>1, <2>2
    <3>2. i - 1 = j - 1
      BY <1>4, <3>1 DEF Sound, UniqueKeys
    <3>3. QED
      BY <1>9, <3>2
  <2>3. CASE i = 1 \/ j = 1
    BY <1>3, <1>4, <1>9, <1>10, <2>1, <2>3
  <2>4. QED
    BY <1>10, <2>2, <2>3
<1>12. \A i \in 1 .. Len(s) : valid_key(s[i].key) /\ valid_value(s[i].value)
  <2>1. valid_value(v)
    BY DEF validate_member
  <2>2. QED
    BY <1>3, <1>4, <1>6, <1>9, <1>10, <2>1 DEF Sound
<1>13. Len(s) <= MaxMembers
  BY <1>5, <1>7, <1>9
<1>14. QED
  BY <1>1, <1>2, <1>8, <1>9, <1>11, <1>12, <1>13 DEF Sound

-----------------------------------------------------------------------------
(* Headers of a limited length.                                             *)

\* The length of a member is a natural number above zero.
LEMMA MemberLengths ==
  ASSUME NEW m \in Members
  PROVE  MemberLength(m) \in Nat /\ MemberLength(m) > 0
<1>1. m.key.len \in Nat /\ m.value.len \in Nat
  BY StateAssumption DEF Members
<1>2. QED
  BY <1>1 DEF MemberLength

\* The run of the sum of the members' lengths.
LEMMA TotalRun ==
  ASSUME NEW ms \in Seq(Members)
  PROVE  \E r : /\ r[0] = 0
                /\ \A i \in 1 .. Len(ms) : r[i] = r[i - 1] + MemberLength(ms[i])
                /\ TotalLength(ms) = r[Len(ms)]
<1>1. PICK n : n = Len(ms)
  OBVIOUS
<1>2. n \in Nat /\ DOMAIN ms = 1 .. n /\ \A i \in 1 .. n : ms[i] \in Members
  BY <1>1
<1>3. PICK F : F = [p \in Nat \X Nat |->
                     IF p[2] \in 1 .. n THEN p[1] + MemberLength(ms[p[2]]) ELSE p[1]]
  OBVIOUS
<1>4. F \in [Nat \X Nat -> Nat]
  BY <1>2, <1>3, MemberLengths
<1>5. PICK g : Solves(g, n, Nat, 0, F)
  BY <1>2, <1>4, FoldExists
<1> DEFINE E(h) == h = [u \in SUBSET DOMAIN ms |->
                         IF u = {} THEN 0
                         ELSE h[u \ {Max(u)}] + MemberLength(ms[Max(u)])]
<1>6. E(g)
  <2>1. \A a \in Nat, i \in 1 .. n : F[<<a, i>>] = a + MemberLength(ms[i])
    BY <1>2, <1>3
  <2>2. /\ g \in [SUBSET (1 .. n) -> Nat]
        /\ \A u \in SUBSET (1 .. n) :
             g[u] = IF u = {} THEN 0 ELSE F[<<g[u \ {Max(u)}], Max(u)>>]
    BY <1>5 DEF Solves
  <2>3. \A u \in SUBSET (1 .. n) :
          g[u] = IF u = {} THEN 0
                 ELSE g[u \ {Max(u)}] + MemberLength(ms[Max(u)])
    BY <1>2, <2>1, <2>2, MaxInside
  <2>4. g = [u \in SUBSET (1 .. n) |-> g[u]]
    BY <2>2
  <2>5. QED
    BY <1>2, <2>3, <2>4
<1> HIDE DEF E
<1>7. PICK it : it = (CHOOSE h : E(h))
  OBVIOUS
<1>8. E(it)
  BY <1>6, <1>7
<1>9. TotalLength(ms) = it[1 .. n]
  BY <1>2, <1>7 DEF TotalLength, FoldLeft, MapThenFoldSet, E
<1> DEFINE r == [k \in 0 .. n |-> it[1 .. k]]
<1>10. r[0] = 0
  BY <1>2, <1>8, PrefixSets DEF E
<1>11. ASSUME NEW i \in 1 .. n
       PROVE  r[i] = r[i - 1] + MemberLength(ms[i])
  <2>1. /\ 1 .. i \in SUBSET (1 .. n) /\ 1 .. i # {}
        /\ Max(1 .. i) = i /\ (1 .. i) \ {i} = 1 .. (i - 1)
    BY <1>2, PrefixSets
  <2>2. it[1 .. i] = it[(1 .. i) \ {Max(1 .. i)}] + MemberLength(ms[Max(1 .. i)])
    BY <1>2, <1>8, <2>1 DEF E
  <2>3. r[i] = it[1 .. i] /\ r[i - 1] = it[1 .. (i - 1)]
    BY <1>2
  <2>4. QED
    BY <2>1, <2>2, <2>3
<1>12. TotalLength(ms) = r[n]
  BY <1>2, <1>9
<1> HIDE DEF r
<1>13. QED
  BY <1>1, <1>10, <1>11, <1>12

\* The total length of one more member.
LEMMA TotalAppend ==
  /\ TotalLength(<<>>) = 0
  /\ \A ms \in Seq(Members), m \in Members :
       TotalLength(Append(ms, m)) = TotalLength(ms) + MemberLength(m)
<1>1. TotalLength(<<>>) = 0
  <2>1. <<>> \in Seq(Members) /\ Len(<<>>) = 0
    OBVIOUS
  <2>2. QED
    BY <2>1, TotalRun
<1>2. ASSUME NEW ms \in Seq(Members), NEW m \in Members
      PROVE  TotalLength(Append(ms, m)) = TotalLength(ms) + MemberLength(m)
  <2>1. PICK s : s = Append(ms, m)
    OBVIOUS
  <2>2. /\ s \in Seq(Members) /\ Len(s) = Len(ms) + 1 /\ s[Len(ms) + 1] = m /\ Len(ms) \in Nat
        /\ \A i \in 1 .. Len(ms) : s[i] = ms[i]
    BY <2>1, AppendProperties
  <2>3. PICK q : /\ q[0] = 0
                 /\ \A i \in 1 .. Len(ms) : q[i] = q[i - 1] + MemberLength(ms[i])
                 /\ TotalLength(ms) = q[Len(ms)]
    BY TotalRun
  <2>4. PICK r : /\ r[0] = 0
                 /\ \A i \in 1 .. Len(s) : r[i] = r[i - 1] + MemberLength(s[i])
                 /\ TotalLength(s) = r[Len(s)]
    BY <2>2, TotalRun
  <2> DEFINE T == {i \in Nat : r[i] = q[i]}
  <2>5. 0 \in T
    BY <2>3, <2>4
  <2>6. \A i \in 1 .. Len(ms) : i - 1 \in T => i \in T
    BY <2>2, <2>3, <2>4
  <2>7. Len(ms) \in T
    <3> HIDE DEF T
    <3>1. QED
      BY <2>2, <2>5, <2>6, UpToInduction
  <2>8. r[Len(ms) + 1] = r[Len(ms)] + MemberLength(m)
    BY <2>2, <2>4
  <2>9. QED
    BY <2>1, <2>2, <2>3, <2>4, <2>7, <2>8
<1>3. QED
  BY <1>1, <1>2

\* The total length of two parts.
LEMMA TotalConcat ==
  ASSUME NEW s \in Seq(Members)
  PROVE  \A t \in Seq(Members) : /\ TotalLength(t) \in Nat
                                 /\ TotalLength(s \o t) = TotalLength(s) + TotalLength(t)
<1> DEFINE N == {t \in Seq(Members) : TotalLength(t) \in Nat}
           T == {t \in Seq(Members) : TotalLength(s \o t) = TotalLength(s) + TotalLength(t)}
<1>1. <<>> \in N
  BY TotalAppend
<1>2. ASSUME NEW t \in Seq(Members), NEW x \in Members, t \in N
      PROVE  Append(t, x) \in N
  BY <1>2, TotalAppend, MemberLengths, AppendProperties
<1>3. Seq(Members) \subseteq N
  <2> HIDE DEF N
  <2>1. QED
    BY <1>1, <1>2, SeqInductionSet
<1>4. <<>> \in T
  BY <1>3, TotalAppend, ConcatEmptySeq
<1>5. ASSUME NEW t \in Seq(Members), NEW x \in Members, t \in T
      PROVE  Append(t, x) \in T
  <2>1. s \o t \in Seq(Members) /\ Append(t, x) \in Seq(Members)
    BY ConcatProperties, AppendProperties
  <2>2. s \o Append(t, x) = Append(s \o t, x)
    <3>1. Append(t, x) = t \o <<x>> /\ Append(s \o t, x) = (s \o t) \o <<x>> /\ <<x>> \in Seq(Members)
      BY <2>1, AppendIsConcat
    <3>2. (s \o t) \o <<x>> = s \o (t \o <<x>>)
      BY <3>1, ConcatAssociative
    <3>3. QED
      BY <3>1, <3>2
  <2>3. TotalLength(s \o Append(t, x)) = TotalLength(s \o t) + MemberLength(x)
    BY <2>1, <2>2, TotalAppend
  <2>4. TotalLength(Append(t, x)) = TotalLength(t) + MemberLength(x)
    BY TotalAppend
  <2>5. TotalLength(s) \in Nat /\ TotalLength(t) \in Nat /\ MemberLength(x) \in Nat
    BY <1>3, MemberLengths
  <2>6. QED
    BY <1>5, <2>1, <2>3, <2>4, <2>5
<1>6. Seq(Members) \subseteq T
  <2> HIDE DEF T
  <2>1. QED
    BY <1>4, <1>5, SeqInductionSet
<1>7. QED
  BY <1>3, <1>6

\* The greater of a length and 0.
LEMMA MaxZero ==
  ASSUME NEW x \in Int
  PROVE  Max({0, x}) = IF x > 0 THEN x ELSE 0
BY DEF Max

\* Removing a member takes its length and one separator, unless it was alone.
LEMMA RemoveLength ==
  ASSUME NEW ms \in Seq(Members), NEW i \in 1 .. Len(ms)
  PROVE  /\ RemoveAt(ms, i) \in Seq(Members) /\ HeaderLength(ms) \in Nat
         /\ Max({0, HeaderLength(ms) - MemberLength(ms[i]) - (IF Len(ms) > 1 THEN 1 ELSE 0)})
              = HeaderLength(RemoveAt(ms, i))
<1>1. PICK u, v : u = Before(ms, i) /\ v = After(ms, i)
  OBVIOUS
<1>2. /\ u \in Seq(Members) /\ v \in Seq(Members)
      /\ ms = (u \o <<ms[i]>>) \o v /\ RemoveAt(ms, i) = u \o v
  <2>1. /\ Before(ms, i) \in Seq(Members) /\ After(ms, i) \in Seq(Members)
        /\ ms = (Before(ms, i) \o <<ms[i]>>) \o After(ms, i)
        /\ RemoveAt(ms, i) = Before(ms, i) \o After(ms, i)
    BY RemoveParts
  <2>2. QED
    BY <1>1, <2>1, Zenon
<1>3. ms[i] \in Members /\ <<ms[i]>> \in Seq(Members) /\ u \o <<ms[i]>> = Append(u, ms[i])
  BY <1>2, AppendIsConcat
<1>4. TotalLength(Append(u, ms[i])) = TotalLength(u) + MemberLength(ms[i])
  BY <1>2, <1>3, TotalAppend
<1>5. TotalLength(ms) = TotalLength(Append(u, ms[i])) + TotalLength(v)
  <2>1. Append(u, ms[i]) \in Seq(Members)
    BY <1>2, <1>3, AppendProperties
  <2>2. QED
    BY <1>2, <1>3, <2>1, TotalConcat
<1>6. TotalLength(RemoveAt(ms, i)) = TotalLength(u) + TotalLength(v)
  BY <1>2, TotalConcat
<1>7. /\ TotalLength(u) \in Nat /\ TotalLength(v) \in Nat /\ MemberLength(ms[i]) \in Nat
  BY <1>2, <1>3, TotalConcat, MemberLengths
<1>8. RemoveAt(ms, i) \in Seq(Members) /\ Len(RemoveAt(ms, i)) = Len(ms) - 1
  BY RemoveIsSeq
<1>9. Len(ms) \in Nat /\ Len(ms) - 1 \in Int /\ (Len(ms) - 1) - 1 \in Int /\ Len(ms) >= 1
  OBVIOUS
<1>10. /\ HeaderLength(ms) = TotalLength(ms) + (IF Len(ms) - 1 > 0 THEN Len(ms) - 1 ELSE 0)
       /\ HeaderLength(RemoveAt(ms, i)) = TotalLength(RemoveAt(ms, i))
            + (IF (Len(ms) - 1) - 1 > 0 THEN (Len(ms) - 1) - 1 ELSE 0)
  BY <1>8, <1>9, MaxZero DEF HeaderLength
<1>11. PICK d : d = HeaderLength(ms) - MemberLength(ms[i]) - (IF Len(ms) > 1 THEN 1 ELSE 0)
  OBVIOUS
<1>12. d \in Nat /\ d = HeaderLength(RemoveAt(ms, i)) /\ HeaderLength(ms) \in Nat
  <2> DEFINE a == TotalLength(u)
             b == TotalLength(v)
             x == MemberLength(ms[i])
             n == Len(ms)
  <2>1. /\ TotalLength(ms) = (a + x) + b /\ TotalLength(RemoveAt(ms, i)) = a + b
        /\ a \in Nat /\ b \in Nat /\ x \in Nat /\ n \in Nat /\ n >= 1
    BY <1>4, <1>5, <1>6, <1>7, <1>9
  <2> HIDE DEF a, b
  <2>2. CASE n > 1
    <3>1. /\ HeaderLength(ms) = ((a + x) + b) + (n - 1)
          /\ HeaderLength(RemoveAt(ms, i)) = (a + b) + (n - 2)
      <4>1. /\ (IF n - 1 > 0 THEN n - 1 ELSE 0) = n - 1
            /\ (IF (n - 1) - 1 > 0 THEN (n - 1) - 1 ELSE 0) = n - 2
        <5> HIDE DEF n
        <5>1. n = 2 \/ n > 2
          BY <2>1, <2>2
        <5>2. QED
          BY <2>1, <2>2, <5>1
      <4>2. QED
        BY <1>10, <2>1, <4>1
    <3>2. d = HeaderLength(ms) - x - 1
      BY <1>11, <2>2
    <3> HIDE DEF x, n
    <3>3. QED
      BY <2>1, <2>2, <3>1, <3>2
  <2>3. CASE n = 1
    <3>1. /\ HeaderLength(ms) = ((a + x) + b) + 0
          /\ HeaderLength(RemoveAt(ms, i)) = (a + b) + 0
      BY <1>10, <2>1, <2>3
    <3>2. d = HeaderLength(ms) - x - 0
      BY <1>11, <2>3
    <3> HIDE DEF x, n
    <3>3. QED
      BY <2>1, <3>1, <3>2
  <2>4. QED
    <3> HIDE DEF n
    <3>1. n = 1 \/ n > 1
      BY <2>1
    <3>2. QED
      BY <2>2, <2>3, <3>1
<1>13. Max({0, d}) = d
  BY <1>12, MaxZero
<1>14. QED
  BY <1>8, <1>11, <1>12, <1>13

\* The elements that stay when one is removed.
LEMMA RemoveElements ==
  ASSUME NEW X, NEW s \in Seq(X), NEW i \in 1 .. Len(s)
  PROVE  /\ RemoveAt(s, i) \in Seq(X) /\ Len(RemoveAt(s, i)) = Len(s) - 1
         /\ \A j \in 1 .. (Len(s) - 1) : RemoveAt(s, i)[j] = IF j < i THEN s[j] ELSE s[j + 1]
<1>1. PICK u, v : u = SubSeq(s, 1, i - 1) /\ v = SubSeq(s, i + 1, Len(s))
  OBVIOUS
<1>2. /\ Len(s) \in Nat /\ 1 \in 1 .. Len(s) + 1 /\ i - 1 \in 0 .. Len(s)
      /\ i + 1 \in 1 .. Len(s) + 1 /\ Len(s) \in i .. Len(s)
  OBVIOUS
<1>3. u \in Seq(X) /\ Len(u) = i - 1 /\ \A j \in 1 .. (i - 1) : u[j] = s[j]
  <2>1. /\ SubSeq(s, 1, i - 1) \in Seq(X) /\ Len(SubSeq(s, 1, i - 1)) = i - 1
        /\ \A j \in 1 .. (i - 1) : SubSeq(s, 1, i - 1)[j] = s[j]
    BY PrefixOf
  <2>2. QED
    BY <1>1, <2>1, Zenon
<1>4. v \in Seq(X) /\ Len(v) = Len(s) - i /\ \A j \in 1 .. (Len(s) - i) : v[j] = s[i + j]
  <2>1. /\ After(s, i) \in Seq(X) /\ Len(After(s, i)) = Len(s) - i
        /\ \A j \in 1 .. Len(After(s, i)) : After(s, i)[j] = s[i + j]
    BY RemoveParts
  <2>2. v = After(s, i)
    BY <1>1 DEF After
  <2>3. QED
    BY <2>1, <2>2, Zenon
<1>5. RemoveAt(s, i) = u \o v
  BY <1>1 DEF RemoveAt
<1>6. /\ u \o v \in Seq(X) /\ Len(u \o v) = Len(u) + Len(v)
      /\ \A j \in 1 .. Len(u) + Len(v) : (u \o v)[j] = IF j <= Len(u) THEN u[j] ELSE v[j - Len(u)]
  BY <1>3, <1>4, ConcatProperties
<1>7. Len(u) + Len(v) = Len(s) - 1
  BY <1>2, <1>3, <1>4
<1>8. ASSUME NEW j \in 1 .. (Len(s) - 1)
      PROVE  (u \o v)[j] = IF j < i THEN s[j] ELSE s[j + 1]
  <2>1. CASE j < i
    BY <1>2, <1>3, <1>6, <1>7, <2>1
  <2>2. CASE j >= i
    <3>1. (u \o v)[j] = v[j - (i - 1)]
      BY <1>2, <1>3, <1>6, <1>7, <2>2
    <3>2. j - (i - 1) \in 1 .. (Len(s) - i) /\ i + (j - (i - 1)) = j + 1
      BY <1>2, <2>2
    <3>3. QED
      BY <1>4, <2>2, <3>1, <3>2
  <2>3. j < i \/ j >= i
    BY <1>2
  <2>4. QED
    BY <2>1, <2>2, <2>3
<1>9. QED
  BY <1>5, <1>6, <1>7, <1>8

\* Removing a member of a sound trace state filters it out.
LEMMA RemoveIsKeep ==
  ASSUME NEW ms, Sound(ms), NEW i \in 1 .. Len(ms)
  PROVE  /\ Sound(RemoveAt(ms, i)) /\ ms[i] \notin Range(RemoveAt(ms, i))
         /\ RemoveAt(ms, i) = Keep(ms, Range(RemoveAt(ms, i)))
         /\ Range(ms) = Range(RemoveAt(ms, i)) \cup {ms[i]}
<1>1. ms \in Seq(Members) /\ Len(ms) \in Nat /\ DOMAIN ms = 1 .. Len(ms) /\ UniqueKeys(ms)
  BY DEF Sound
<1>2. PICK q : q = RemoveAt(ms, i)
  OBVIOUS
<1>3. /\ q \in Seq(Members) /\ Len(q) = Len(ms) - 1
      /\ \A j \in 1 .. (Len(ms) - 1) : q[j] = IF j < i THEN ms[j] ELSE ms[j + 1]
  BY <1>1, <1>2, RemoveElements
<1>4. DOMAIN q = 1 .. (Len(ms) - 1)
  BY <1>3
<1>5. ms[i] \notin Range(q)
  <2>1. \A j \in 1 .. (Len(ms) - 1) : q[j] # ms[i]
    <3>1. TAKE j \in 1 .. (Len(ms) - 1)
    <3>2. CASE j < i
      BY <1>1, <1>3, <3>2 DEF UniqueKeys
    <3>3. CASE ~(j < i)
      <4>1. j + 1 \in 1 .. Len(ms) /\ j + 1 # i
        BY <1>1, <3>3
      <4>2. QED
        BY <1>1, <1>3, <3>3, <4>1 DEF UniqueKeys
    <3>4. QED
      BY <3>2, <3>3
  <2>2. QED
    BY <1>4, <2>1 DEF Range
<1>6. PICK R : R = Range(q)
  OBVIOUS
<1>7. q \in Seq(R)
  BY <1>3, <1>4, <1>6 DEF Range
<1>8. Keep(q, R) = q
  BY <1>7, KeepAllOrNone
<1>9. Keep(q, R) = Keep(ms, R)
  BY <1>1, <1>2, <1>5, <1>6, KeepRemove
<1>10. Sound(Keep(ms, R))
  BY KeepSound
<1>11. Range(ms) = Range(q) \cup {ms[i]}
  <2>1. \A j \in 1 .. (Len(ms) - 1) : q[j] \in Range(ms)
    BY <1>1, <1>3 DEF Range
  <2>2. ASSUME NEW j \in 1 .. Len(ms), j # i
        PROVE  ms[j] \in Range(q)
    <3>1. CASE j < i
      BY <1>1, <1>3, <1>4, <3>1 DEF Range
    <3>2. CASE j > i
      <4>1. j - 1 \in 1 .. (Len(ms) - 1) /\ ~(j - 1 < i) /\ (j - 1) + 1 = j
        BY <1>1, <3>2
      <4>2. q[j - 1] = ms[j]
        BY <1>3, <4>1
      <4>3. QED
        BY <1>4, <4>1, <4>2 DEF Range
    <3>3. QED
      BY <1>1, <2>2, <3>1, <3>2
  <2>3. QED
    BY <1>1, <1>4, <2>1, <2>2 DEF Range
<1>12. QED
  BY <1>2, <1>5, <1>6, <1>8, <1>9, <1>10, <1>11

\* The length of a header is a natural number.
LEMMA HeaderNat ==
  ASSUME NEW ms \in Seq(Members)
  PROVE  HeaderLength(ms) \in Nat
<1>1. TotalLength(ms) \in Nat /\ Len(ms) - 1 \in Int /\ Len(ms) \in Nat
  BY TotalConcat
<1>2. QED
  BY <1>1, MaxZero DEF HeaderLength

\* The state of a pass: the members left and the length of their header.
DropStates == {a \in [ms : Seq(Members), length : Nat] : Sound(a.ms) /\ a.length = HeaderLength(a.ms)}

\* One step of limited_header keeps a list of members and a length.
LEMMA DropStepSound ==
  ASSUME NEW a \in DropStates, NEW i \in Nat \ {0}, NEW threshold \in Nat, NEW limit \in Int
  PROVE  DropStep(a, i, threshold, limit) \in DropStates
<1>1. /\ a \in [ms : Seq(Members), length : Nat] /\ Sound(a.ms) /\ a.length = HeaderLength(a.ms)
      /\ Len(a.ms) \in Nat
  BY DEF DropStates
<1>2. CASE i > Len(a.ms) \/ a.length <= limit \/ MemberLength(a.ms[i]) <= threshold
  BY <1>2 DEF DropStep
<1>3. CASE ~(i > Len(a.ms) \/ a.length <= limit \/ MemberLength(a.ms[i]) <= threshold)
  <2>1. i \in 1 .. Len(a.ms)
    BY <1>1, <1>3
  <2>2. PICK q, d : /\ q = RemoveAt(a.ms, i)
                    /\ d = Max({0, a.length - MemberLength(a.ms[i]) - (IF Len(a.ms) > 1 THEN 1 ELSE 0)})
    OBVIOUS
  <2>3. DropStep(a, i, threshold, limit) = [ms |-> q, length |-> d]
    BY <1>3, <2>2 DEF DropStep
  <2>4. Sound(q) /\ q \in Seq(Members)
    BY <1>1, <2>1, <2>2, RemoveIsKeep DEF Sound
  <2>5. d = HeaderLength(q) /\ d \in Nat
    <3>1. d = HeaderLength(q)
      BY <1>1, <2>1, <2>2, RemoveLength
    <3>2. QED
      BY <2>4, <3>1, HeaderNat
  <2>6. QED
    BY <2>3, <2>4, <2>5 DEF DropStates
<1>4. QED
  BY <1>2, <1>3

\* Downwards gives the indices from the last to the first.
LEMMA DownwardsIs ==
  ASSUME NEW X, NEW ms \in Seq(X)
  PROVE  /\ Downwards(ms) \in Seq(Nat \ {0}) /\ Len(Downwards(ms)) = Len(ms)
         /\ \A j \in 1 .. Len(ms) : Downwards(ms)[j] = (Len(ms) - j) + 1
<1>1. PICK s : s = [i \in DOMAIN ms |-> i]
  OBVIOUS
<1>2. Len(ms) \in Nat /\ s \in Seq(Nat) /\ Len(s) = Len(ms) /\ \A j \in 1 .. Len(ms) : s[j] = j
  BY <1>1
<1>3. Downwards(ms) = [i \in 1 .. Len(s) |-> s[(Len(s) - i) + 1]]
  BY <1>1 DEF Downwards, Reverse
<1>4. \A j \in 1 .. Len(ms) : (Len(ms) - j) + 1 \in 1 .. Len(ms) /\ (Len(ms) - j) + 1 \in Nat \ {0}
  BY <1>2
<1>5. Downwards(ms) = [i \in 1 .. Len(ms) |-> (Len(ms) - i) + 1]
  BY <1>2, <1>3, <1>4
<1>6. QED
  BY <1>2, <1>4, <1>5

\* The run of a pass.
LEMMA DropRun ==
  ASSUME NEW acc \in DropStates, NEW threshold \in Nat, NEW limit \in Int,
         Downwards(acc.ms) \in Seq(Nat \ {0})
  PROVE  \E r : /\ r[0] = acc
                /\ \A i \in 1 .. Len(Downwards(acc.ms)) :
                      r[i] = DropStep(r[i - 1], Downwards(acc.ms)[i], threshold, limit)
                /\ DropLonger(acc, threshold, limit) = r[Len(Downwards(acc.ms))]
<1>1. PICK n : n = Len(Downwards(acc.ms))
  OBVIOUS
<1>2. n \in Nat /\ DOMAIN Downwards(acc.ms) = 1 .. n /\ \A i \in 1 .. n : Downwards(acc.ms)[i] \in (Nat \ {0})
  BY <1>1
<1>3. PICK F : F = [p \in DropStates \X Nat |->
                     IF p[2] \in 1 .. n THEN DropStep(p[1], Downwards(acc.ms)[p[2]], threshold, limit) ELSE p[1]]
  OBVIOUS
<1>4. F \in [DropStates \X Nat -> DropStates]
  BY <1>2, <1>3, DropStepSound
<1>5. PICK g : Solves(g, n, DropStates, acc, F)
  BY <1>2, <1>4, FoldExists
<1> DEFINE E(h) == h = [u \in SUBSET DOMAIN Downwards(acc.ms) |->
                         IF u = {} THEN acc
                         ELSE DropStep(h[u \ {Max(u)}], Downwards(acc.ms)[Max(u)], threshold, limit)]
<1>6. E(g)
  <2>1. \A a \in DropStates, i \in 1 .. n : F[<<a, i>>] = DropStep(a, Downwards(acc.ms)[i], threshold, limit)
    BY <1>2, <1>3
  <2>2. /\ g \in [SUBSET (1 .. n) -> DropStates]
        /\ \A u \in SUBSET (1 .. n) :
             g[u] = IF u = {} THEN acc ELSE F[<<g[u \ {Max(u)}], Max(u)>>]
    BY <1>5 DEF Solves
  <2>3. \A u \in SUBSET (1 .. n) :
          g[u] = IF u = {} THEN acc
                 ELSE DropStep(g[u \ {Max(u)}], Downwards(acc.ms)[Max(u)], threshold, limit)
    BY <1>2, <2>1, <2>2, MaxInside
  <2>4. g = [u \in SUBSET (1 .. n) |-> g[u]]
    BY <2>2
  <2>5. QED
    BY <1>2, <2>3, <2>4
<1> HIDE DEF E
<1>7. PICK it : it = (CHOOSE h : E(h))
  OBVIOUS
<1>8. E(it)
  BY <1>6, <1>7
<1>9. DropLonger(acc, threshold, limit) = it[1 .. n]
  BY <1>2, <1>7 DEF DropLonger, FoldLeft, MapThenFoldSet, E
<1> DEFINE r == [k \in 0 .. n |-> it[1 .. k]]
<1>10. r[0] = acc
  BY <1>2, <1>8, PrefixSets DEF E
<1>11. ASSUME NEW i \in 1 .. n
       PROVE  r[i] = DropStep(r[i - 1], Downwards(acc.ms)[i], threshold, limit)
  <2>1. /\ 1 .. i \in SUBSET (1 .. n) /\ 1 .. i # {}
        /\ Max(1 .. i) = i /\ (1 .. i) \ {i} = 1 .. (i - 1)
    BY <1>2, PrefixSets
  <2>2. it[1 .. i] = DropStep(it[(1 .. i) \ {Max(1 .. i)}], Downwards(acc.ms)[Max(1 .. i)], threshold, limit)
    BY <1>2, <1>8, <2>1 DEF E
  <2>3. r[i] = it[1 .. i] /\ r[i - 1] = it[1 .. (i - 1)]
    BY <1>2
  <2>4. QED
    BY <2>1, <2>2, <2>3
<1>12. DropLonger(acc, threshold, limit) = r[n]
  BY <1>2, <1>9
<1> HIDE DEF r
<1>13. QED
  BY <1>1, <1>10, <1>11, <1>12

\* What a pass has done once it has looked at the last k members.
Passed(a, ms, k, threshold, limit) ==
  /\ a \in DropStates
  /\ Len(a.ms) <= Len(ms) /\ Len(a.ms) >= Len(ms) - k
  /\ \A j \in 1 .. (Len(ms) - k) : a.ms[j] = ms[j]
  /\ a.ms = Keep(ms, Range(a.ms))
  /\ a.length > limit => \A j \in (Len(ms) - k) + 1 .. Len(a.ms) : MemberLength(a.ms[j]) <= threshold
  /\ \A m \in Range(ms) \ Range(a.ms) : MemberLength(m) > threshold
  /\ Range(a.ms) \subseteq Range(ms)
  /\ HeaderLength(ms) <= limit => a.ms = ms

\* One step of a pass: the length is still that of the members left, and what was
\* passed over is short or fits.
LEMMA PassedStep ==
  ASSUME NEW ms, Sound(ms), NEW threshold \in Nat, NEW limit \in Int,
         NEW k \in 1 .. Len(ms), NEW a, Passed(a, ms, k - 1, threshold, limit)
  PROVE  Passed(DropStep(a, (Len(ms) - k) + 1, threshold, limit), ms, k, threshold, limit)
<1>1. ms \in Seq(Members) /\ Len(ms) \in Nat /\ DOMAIN ms = 1 .. Len(ms)
  BY DEF Sound
<1>2. /\ a \in DropStates /\ a.ms \in Seq(Members) /\ a.length \in Nat
      /\ Sound(a.ms) /\ a.length = HeaderLength(a.ms) /\ Len(a.ms) \in Nat
  BY DEF Passed, DropStates
<1>3. PICK i : i = (Len(ms) - k) + 1
  OBVIOUS
<1>4. /\ i \in Nat \ {0} /\ i \in 1 .. Len(ms) /\ Len(ms) - (k - 1) = i /\ Len(ms) - k = i - 1 /\ i - 1 \in Nat
  BY <1>1, <1>3
<1>5. /\ Len(a.ms) <= Len(ms) /\ Len(a.ms) >= i
      /\ \A j \in 1 .. i : a.ms[j] = ms[j]
      /\ a.ms = Keep(ms, Range(a.ms))
      /\ a.length > limit => \A j \in i + 1 .. Len(a.ms) : MemberLength(a.ms[j]) <= threshold
      /\ \A m \in Range(ms) \ Range(a.ms) : MemberLength(m) > threshold
      /\ Range(a.ms) \subseteq Range(ms)
      /\ HeaderLength(ms) <= limit => a.ms = ms
  BY <1>4 DEF Passed
<1>6. PICK b : b = DropStep(a, i, threshold, limit)
  OBVIOUS
<1>7. b \in DropStates
  BY <1>2, <1>4, <1>6, DropStepSound
<1>8. i \in 1 .. Len(a.ms) /\ ~(i > Len(a.ms)) /\ a.ms[i] \in Members
  BY <1>2, <1>4, <1>5
<1>9. MemberLength(a.ms[i]) \in Nat
  BY <1>8, MemberLengths
<1>10. \A j \in 1 .. (i - 1) : j \in 1 .. i
  BY <1>4
<1>11. \A j \in (i - 1) + 1 .. Len(a.ms) : j = i \/ j \in i + 1 .. Len(a.ms)
  BY <1>2, <1>4
<1>12. CASE a.length <= limit \/ MemberLength(a.ms[i]) <= threshold
  <2>1. b = a
    BY <1>6, <1>12 DEF DropStep
  <2>2. a.length > limit => \A j \in (i - 1) + 1 .. Len(a.ms) : MemberLength(a.ms[j]) <= threshold
    <3>1. a.length > limit => MemberLength(a.ms[i]) <= threshold
      BY <1>2, <1>12
    <3>2. QED
      BY <1>5, <1>11, <3>1
  <2>3. Len(a.ms) >= i - 1
    BY <1>2, <1>4, <1>5
  <2>4. Passed(a, ms, k, threshold, limit)
    BY <1>2, <1>4, <1>5, <1>10, <2>2, <2>3 DEF Passed
  <2>5. QED
    BY <1>3, <1>6, <2>1, <2>4
<1>13. CASE a.length > limit /\ MemberLength(a.ms[i]) > threshold
  <2>1. PICK q : q = RemoveAt(a.ms, i)
    OBVIOUS
  <2>2. b.ms = q
    <3>1. ~(a.length <= limit) /\ ~(MemberLength(a.ms[i]) <= threshold)
      BY <1>2, <1>9, <1>13
    <3>2. b = [ms |-> q,
               length |-> Max({0, a.length - MemberLength(a.ms[i]) - (IF Len(a.ms) > 1 THEN 1 ELSE 0)})]
      BY <1>6, <1>8, <2>1, <3>1 DEF DropStep
    <3>3. QED
      BY <3>2
  <2>3. /\ Sound(q) /\ a.ms[i] \notin Range(q) /\ q = Keep(a.ms, Range(q))
        /\ Range(a.ms) = Range(q) \cup {a.ms[i]}
    BY <1>2, <1>8, <2>1, RemoveIsKeep
  <2>4. /\ q \in Seq(Members) /\ Len(q) = Len(a.ms) - 1
        /\ \A j \in 1 .. (Len(a.ms) - 1) : q[j] = IF j < i THEN a.ms[j] ELSE a.ms[j + 1]
    BY <1>2, <1>8, <2>1, RemoveElements
  <2>5. Len(q) <= Len(ms) /\ Len(q) >= i - 1
    BY <1>1, <1>2, <1>4, <1>5, <2>4
  <2>6. \A j \in 1 .. (i - 1) : q[j] = ms[j]
    <3>1. TAKE j \in 1 .. (i - 1)
    <3>2. j \in 1 .. (Len(a.ms) - 1) /\ j < i
      BY <1>2, <1>4, <1>5
    <3>3. QED
      BY <1>5, <1>10, <2>4, <3>2
  <2>7. q = Keep(ms, Range(q))
    <3>1. PICK W, R : W = Range(a.ms) /\ R = Range(q)
      OBVIOUS
    <3>2. Keep(Keep(ms, W), R) = Keep(ms, R)
      BY <1>1, <2>3, <3>1, KeepNarrower
    <3>3. QED
      BY <1>5, <2>3, <3>1, <3>2
  <2>8. \A j \in (i - 1) + 1 .. Len(q) : MemberLength(q[j]) <= threshold
    <3>1. TAKE j \in (i - 1) + 1 .. Len(q)
    <3>2. j \in 1 .. (Len(a.ms) - 1) /\ ~(j < i) /\ j + 1 \in i + 1 .. Len(a.ms)
      <4>1. PICK l : l = Len(a.ms)
        OBVIOUS
      <4>2. l \in Nat /\ i \in 1 .. l /\ Len(q) = l - 1
        BY <1>2, <1>8, <2>4, <4>1, Zenon
      <4>3. j \in 1 .. (l - 1) /\ ~(j < i) /\ j + 1 \in i + 1 .. l
        BY <4>2
      <4>4. QED
        BY <4>1, <4>3, Zenon
    <3>3. QED
      BY <1>5, <1>13, <2>4, <3>2
  <2>9. \A m \in Range(ms) \ Range(q) : MemberLength(m) > threshold
    BY <1>5, <1>13, <2>3
  <2>10. ~(HeaderLength(ms) <= limit)
    BY <1>2, <1>5, <1>13
  <2>11. Range(q) \subseteq Range(ms)
    BY <1>5, <2>3
  <2>12. Passed(b, ms, k, threshold, limit)
    BY <1>4, <1>7, <2>2, <2>5, <2>6, <2>7, <2>8, <2>9, <2>10, <2>11 DEF Passed
  <2>13. QED
    BY <1>3, <1>6, <2>12
<1>14. QED
  BY <1>2, <1>9, <1>12, <1>13

\* A whole pass.
LEMMA PassedAll ==
  ASSUME NEW ms, Sound(ms), NEW threshold \in Nat, NEW limit \in Int,
         NEW a \in DropStates, a.ms = ms
  PROVE  Passed(DropLonger(a, threshold, limit), ms, Len(ms), threshold, limit)
<1>1. ms \in Seq(Members) /\ Len(ms) \in Nat /\ DOMAIN ms = 1 .. Len(ms)
  BY DEF Sound
<1>2. PICK s : s = Downwards(ms)
  OBVIOUS
<1>3. s \in Seq(Nat \ {0}) /\ Len(s) = Len(ms) /\ \A j \in 1 .. Len(ms) : s[j] = (Len(ms) - j) + 1
  BY <1>1, <1>2, DownwardsIs
<1>4. PICK r : /\ r[0] = a
               /\ \A i \in 1 .. Len(s) : r[i] = DropStep(r[i - 1], s[i], threshold, limit)
               /\ DropLonger(a, threshold, limit) = r[Len(s)]
  <2>1. Downwards(a.ms) = s /\ Downwards(a.ms) \in Seq(Nat \ {0})
    BY <1>2, <1>3
  <2>2. \E r : /\ r[0] = a
               /\ \A i \in 1 .. Len(Downwards(a.ms)) :
                     r[i] = DropStep(r[i - 1], Downwards(a.ms)[i], threshold, limit)
               /\ DropLonger(a, threshold, limit) = r[Len(Downwards(a.ms))]
    BY <2>1, DropRun
  <2>3. QED
    BY <2>1, <2>2
<1> DEFINE T == {k \in Nat : Passed(r[k], ms, k, threshold, limit)}
<1>5. 0 \in T
  <2>1. Keep(ms, Range(ms)) = ms
    <3>1. PICK R : R = Range(ms)
      OBVIOUS
    <3>2. ms \in Seq(R)
      BY <1>1, <3>1 DEF Range
    <3>3. QED
      BY <3>1, <3>2, KeepAllOrNone
  <2>2. Passed(a, ms, 0, threshold, limit)
    BY <1>1, <2>1 DEF Passed
  <2>3. QED
    BY <1>4, <2>2
<1>6. \A k \in 1 .. Len(ms) : k - 1 \in T => k \in T
  <2>1. SUFFICES ASSUME NEW k \in 1 .. Len(ms), k - 1 \in T
                 PROVE  Passed(r[k], ms, k, threshold, limit)
    BY <1>1
  <2>2. r[k] = DropStep(r[k - 1], (Len(ms) - k) + 1, threshold, limit)
    BY <1>3, <1>4
  <2>3. Passed(r[k - 1], ms, k - 1, threshold, limit)
    BY <2>1
  <2>4. QED
    BY <2>2, <2>3, PassedStep
<1>7. Len(ms) \in T
  <2> HIDE DEF T
  <2>1. QED
    BY <1>1, <1>5, <1>6, UpToInduction
<1>8. QED
  BY <1>3, <1>4, <1>7

\* limited_header fits the limit, keeps the order, and drops short members last.
LEMMA LimitedFits ==
  ASSUME NEW ms, Sound(ms), NEW limit \in Int
  PROVE  LET out == limited_header(ms, limit)
         IN  /\ limit >= 0 => HeaderLength(out) <= limit
             /\ out = Keep(ms, Range(out))
             /\ HeaderLength(ms) <= limit => out = ms
             /\ (\E i \in DOMAIN ms : ms[i] \notin Range(out) /\ MemberLength(ms[i]) <= 128)
                   => \A i \in DOMAIN out : MemberLength(out[i]) <= 128
<1>1. ms \in Seq(Members) /\ Len(ms) \in Nat /\ DOMAIN ms = 1 .. Len(ms)
  BY DEF Sound
<1>2. PICK start : start = [ms |-> ms, length |-> HeaderLength(ms)]
  OBVIOUS
<1>3. start \in DropStates /\ start.ms = ms
  BY <1>1, <1>2, HeaderNat DEF DropStates
<1>4. PICK a : a = DropLonger(start, 128, limit)
  OBVIOUS
<1>5. Passed(a, ms, Len(ms), 128, limit)
  BY <1>3, <1>4, PassedAll
<1>6. /\ a \in DropStates /\ a.ms \in Seq(Members) /\ Sound(a.ms) /\ a.length = HeaderLength(a.ms)
      /\ a.length \in Nat /\ Len(a.ms) \in Nat /\ DOMAIN a.ms = 1 .. Len(a.ms)
      /\ a.ms = Keep(ms, Range(a.ms)) /\ Range(a.ms) \subseteq Range(ms)
      /\ a.length > limit => \A j \in 1 .. Len(a.ms) : MemberLength(a.ms[j]) <= 128
      /\ \A m \in Range(ms) \ Range(a.ms) : MemberLength(m) > 128
      /\ HeaderLength(ms) <= limit => a.ms = ms
  <2>1. (Len(ms) - Len(ms)) + 1 = 1
    BY <1>1
  <2>2. QED
    BY <1>5, <2>1 DEF Passed, DropStates
<1>7. PICK b : b = DropLonger(a, 0, limit)
  OBVIOUS
<1>8. Passed(b, a.ms, Len(a.ms), 0, limit)
  BY <1>6, <1>7, PassedAll
<1>9. /\ b.ms \in Seq(Members) /\ b.length = HeaderLength(b.ms) /\ b.length \in Nat /\ Len(b.ms) \in Nat
      /\ DOMAIN b.ms = 1 .. Len(b.ms) /\ b.ms = Keep(a.ms, Range(b.ms)) /\ Range(b.ms) \subseteq Range(a.ms)
      /\ b.length > limit => \A j \in 1 .. Len(b.ms) : MemberLength(b.ms[j]) <= 0
      /\ a.length <= limit => b.ms = a.ms
  <2>1. (Len(a.ms) - Len(a.ms)) + 1 = 1
    BY <1>6
  <2>2. QED
    BY <1>6, <1>8, <2>1 DEF Passed, DropStates
<1>10. PICK out : out = b.ms
  OBVIOUS
<1>11. limited_header(ms, limit) = out
  BY <1>2, <1>4, <1>7, <1>10 DEF limited_header
<1>12. limit >= 0 => HeaderLength(out) <= limit
  <2>1. CASE b.length > limit
    <3>1. \A j \in 1 .. Len(b.ms) : MemberLength(b.ms[j]) > 0 /\ MemberLength(b.ms[j]) \in Nat
      BY <1>9, MemberLengths
    <3>2. Len(b.ms) = 0
      <4>1. ~(1 \in 1 .. Len(b.ms))
        BY <1>9, <2>1, <3>1
      <4>2. QED
        BY <1>9, <4>1
    <3>3. b.ms = <<>>
      BY <1>9, <3>2
    <3>4. HeaderLength(<<>>) = 0
      <4>1. Len(<<>>) - 1 = -1 /\ Max({0, -1}) = 0
        BY MaxZero
      <4>2. QED
        BY <4>1, TotalAppend DEF HeaderLength
    <3>5. QED
      BY <1>10, <3>3, <3>4
  <2>2. QED
    BY <1>9, <1>10, <2>1
<1>13. out = Keep(ms, Range(out))
  <2>1. PICK W, R : W = Range(a.ms) /\ R = Range(out)
    OBVIOUS
  <2>2. Keep(Keep(ms, W), R) = Keep(ms, R)
    BY <1>1, <1>9, <1>10, <2>1, KeepNarrower
  <2>3. QED
    BY <1>6, <1>9, <1>10, <2>1, <2>2
<1>14. HeaderLength(ms) <= limit => out = ms
  BY <1>6, <1>9, <1>10
<1>15. ASSUME NEW i \in DOMAIN ms, ms[i] \notin Range(out), MemberLength(ms[i]) <= 128
       PROVE  \A j \in DOMAIN out : MemberLength(out[j]) <= 128
  <2>1. ms[i] \in Range(ms) /\ ms[i] \in Members /\ MemberLength(ms[i]) \in Nat
    BY <1>1, MemberLengths DEF Range
  <2>2. ms[i] \in Range(a.ms)
    BY <1>6, <1>15, <2>1
  <2>3. a.length > limit
    BY <1>6, <1>9, <1>10, <1>15, <2>2
  <2>4. \A m \in Range(a.ms) : MemberLength(m) <= 128
    BY <1>6, <2>3 DEF Range
  <2>5. \A j \in DOMAIN out : out[j] \in Range(a.ms)
    BY <1>9, <1>10 DEF Range
  <2>6. QED
    BY <2>4, <2>5
<1>16. QED
  BY <1>11, <1>12, <1>13, <1>14, <1>15

-----------------------------------------------------------------------------
(* Carriers.                                                                *)

\* The ids of span contexts, and what the header of a name may hold.
Ids == 0 .. MaxSpanContexts
ValuesOf(name) == IF name = "traceparent" THEN Ids
                  ELSE IF name = "tracestate" THEN Seq(RawMembers) ELSE Seq(HeaderChars)
AnyValue == UNION {ValuesOf(n) : n \in Names}
Headers == {h \in [name : Names, spelling : Spellings, values : Seq(AnyValue)] :
              \A i \in 1 .. Len(h.values) : h.values[i] \in ValuesOf(h.name)}

\* A carrier's only headers of that name hold just the value.
Holds(c, name, v) ==
  /\ \E i \in 1 .. Len(c) : c[i].name = name
  /\ \A i \in 1 .. Len(c) : c[i].name = name => c[i].values = <<v>>

\* The first position in a set of positions, or 0.
LEMMA FirstOf ==
  ASSUME NEW n \in Nat, NEW I \in SUBSET (1 .. n),
         NEW at, at = IF I # {} THEN Min(I) ELSE 0
  PROVE  /\ at \in 0 .. n
         /\ at = 0 <=> I = {}
         /\ at # 0 => at \in I /\ at \in 1 .. n /\ at > 0 /\ \A j \in I : at <= j
<1>1. CASE I = {}
  BY <1>1
<1>2. CASE I # {}
  <2>1. at = Min(I)
    BY <1>2
  <2>2. Min(I) \in I /\ \A j \in I : Min(I) <= j
    BY <1>2, FirstPosition
  <2>3. at \in I /\ \A j \in I : at <= j
    BY <2>1, <2>2, Zenon
  <2>4. QED
    BY <1>2, <2>3
<1>3. QED
  BY <1>1, <1>2

\* find gives the first header of a name, or zero.
LEMMA FindIs ==
  ASSUME NEW c \in Seq(Headers), NEW name
  PROVE  /\ find(c, name) \in 0 .. Len(c)
         /\ find(c, name) = 0 <=> \A i \in 1 .. Len(c) : c[i].name # name
         /\ find(c, name) # 0 => /\ find(c, name) \in 1 .. Len(c) /\ find(c, name) > 0
                                 /\ c[find(c, name)].name = name
<1>1. PICK I : I = {i \in 1 .. Len(c) : c[i].name = name}
  OBVIOUS
<1>2. find(c, name) = IF I # {} THEN Min(I) ELSE 0
  BY <1>1 DEF find, SelectInSeq
<1>3. Len(c) \in Nat /\ I \in SUBSET (1 .. Len(c))
  BY <1>1
<1>4. PICK at : at = find(c, name)
  OBVIOUS
<1>5. /\ at \in 0 .. Len(c) /\ (at = 0 <=> I = {})
      /\ at # 0 => at \in I /\ at \in 1 .. Len(c) /\ at > 0
  BY <1>2, <1>3, <1>4, FirstOf
<1>6. QED
  BY <1>1, <1>4, <1>5

\* get reads what a carrier holds, and reads only values of the right kind.
LEMMA GetIs ==
  ASSUME NEW c \in Seq(Headers), NEW name \in Names
  PROVE  /\ get(c, name) = <<>> \/ \E v \in ValuesOf(name) : get(c, name) = <<v>>
         /\ \A v : Holds(c, name, v) => get(c, name) = <<v>>
<1>1. PICK at : at = find(c, name)
  OBVIOUS
<1>2. /\ at = 0 <=> \A i \in 1 .. Len(c) : c[i].name # name
      /\ at # 0 => at \in 1 .. Len(c) /\ c[at].name = name
  BY <1>1, FindIs
<1>3. get(c, name) = IF at = 0 \/ c[at].values = <<>> THEN <<>> ELSE <<Head(c[at].values)>>
  BY <1>1 DEF get
<1>4. ASSUME at # 0, c[at].values # <<>>
      PROVE  Head(c[at].values) \in ValuesOf(name)
  <2>1. c[at] \in Headers /\ c[at].name = name
    BY <1>2, <1>4
  <2>2. c[at].values \in Seq(AnyValue) /\ \A i \in 1 .. Len(c[at].values) : c[at].values[i] \in ValuesOf(name)
    BY <2>1 DEF Headers
  <2>3. 1 \in 1 .. Len(c[at].values) /\ Head(c[at].values) = c[at].values[1]
    BY <1>4, <2>2
  <2>4. QED
    BY <2>2, <2>3
<1>5. ASSUME NEW v, Holds(c, name, v)
      PROVE  get(c, name) = <<v>>
  <2>1. at # 0
    BY <1>2, <1>5 DEF Holds
  <2>2. c[at].values = <<v>>
    BY <1>2, <1>5, <2>1 DEF Holds
  <2>3. <<v>> # <<>> /\ Head(<<v>>) = v
    OBVIOUS
  <2>4. QED
    BY <1>3, <2>1, <2>2, <2>3
<1>6. QED
  BY <1>3, <1>4, <1>5

\* Insertion replaces one header or adds one at the end.
LEMMA InsertIs ==
  ASSUME NEW c \in Seq(Headers), NEW h \in Headers
  PROVE  /\ Insert(c, h) \in Seq(Headers)
         /\ (\A i \in 1 .. Len(c) : c[i].name # h.name) => Insert(c, h) = Append(c, h)
         /\ \A i \in 1 .. Len(c) :
              OneSpelling(c) /\ c[i].name = h.name /\ c[i].spelling = h.spelling
                => Insert(c, h) = [c EXCEPT ![i] = h]
<1>1. PICK I : I = {i \in 1 .. Len(c) : c[i].name = h.name /\ c[i].spelling = h.spelling}
  OBVIOUS
<1>2. PICK at : at = IF I # {} THEN Min(I) ELSE 0
  OBVIOUS
<1>3. Len(c) \in Nat /\ I \in SUBSET (1 .. Len(c)) /\ DOMAIN c = 1 .. Len(c)
  BY <1>1
<1>4. /\ at \in 0 .. Len(c) /\ (at = 0 <=> I = {})
      /\ at # 0 => at \in I /\ at \in 1 .. Len(c) /\ at > 0
  BY <1>2, <1>3, FirstOf
<1>5. Insert(c, h) = IF at > 0 THEN [c EXCEPT ![at] = h] ELSE Append(c, h)
  BY <1>1, <1>2 DEF Insert, SelectInSeq
<1>6. Append(c, h) \in Seq(Headers)
  BY AppendProperties
<1>7. at # 0 => [c EXCEPT ![at] = h] \in Seq(Headers)
  BY <1>4
<1>8. Insert(c, h) \in Seq(Headers)
  BY <1>4, <1>5, <1>6, <1>7
<1>9. ASSUME \A i \in 1 .. Len(c) : c[i].name # h.name
      PROVE  Insert(c, h) = Append(c, h)
  <2>1. at = 0
    BY <1>1, <1>4, <1>9
  <2>2. QED
    BY <1>5, <2>1
<1>10. ASSUME NEW i \in 1 .. Len(c), OneSpelling(c), c[i].name = h.name, c[i].spelling = h.spelling
       PROVE  Insert(c, h) = [c EXCEPT ![i] = h]
  <2>1. at # 0 /\ at > 0
    BY <1>1, <1>4, <1>10
  <2>2. c[at].name = h.name /\ at \in DOMAIN c /\ i \in DOMAIN c
    BY <1>1, <1>3, <1>4, <2>1
  <2>3. at = i
    BY <1>10, <2>2 DEF OneSpelling
  <2>4. QED
    BY <1>5, <2>1, <2>3
<1>11. QED
  BY <1>8, <1>9, <1>10

\* The header a propagator writes.
LowerHeader(name, v) == [name |-> name, spelling |-> "lower", values |-> <<v>>]

\* What set writes is a header.
LEMMA WrittenHeader ==
  ASSUME NEW name \in Names, NEW v \in ValuesOf(name)
  PROVE  /\ LowerHeader(name, v) \in Headers
         /\ LowerHeader(name, v).name = name /\ LowerHeader(name, v).spelling = "lower"
         /\ LowerHeader(name, v).values = <<v>>
<1>1. v \in AnyValue
  BY DEF AnyValue
<1>2. PICK s : s = <<v>>
  OBVIOUS
<1>3. s \in Seq(AnyValue) /\ Len(s) = 1 /\ s[1] = v
  BY <1>1, <1>2
<1>4. \A i \in 1 .. Len(s) : s[i] \in ValuesOf(name)
  BY <1>3
<1>5. "lower" \in Spellings
  BY DEF Spellings
<1>6. LowerHeader(name, v) = [name |-> name, spelling |-> "lower", values |-> s]
  BY <1>2 DEF LowerHeader
<1>7. [name |-> name, spelling |-> "lower", values |-> s] \in Headers
  BY <1>3, <1>4, <1>5 DEF Headers
<1>8. QED
  BY <1>2, <1>6, <1>7

\* Appending a header whose name is new.
LEMMA AppendHolds ==
  ASSUME NEW c \in Seq(Headers), OneSpelling(c), NEW h \in Headers,
         \A i \in 1 .. Len(c) : c[i].name # h.name
  PROVE  /\ OneSpelling(Append(c, h))
         /\ \A v : h.values = <<v>> => Holds(Append(c, h), h.name, v)
         /\ \A n, v : n # h.name /\ Holds(c, n, v) => Holds(Append(c, h), n, v)
<1>1. PICK a : a = Append(c, h)
  OBVIOUS
<1>2. /\ a \in Seq(Headers) /\ Len(c) \in Nat /\ Len(a) = Len(c) + 1 /\ a[Len(c) + 1] = h
      /\ \A i \in 1 .. Len(c) : a[i] = c[i]
  BY <1>1, AppendProperties
<1>3. /\ Len(c) + 1 \in 1 .. Len(a)
      /\ \A i \in 1 .. Len(a) : i = Len(c) + 1 \/ i \in 1 .. Len(c)
      /\ \A i \in 1 .. Len(c) : i \in 1 .. Len(a)
  BY <1>2
<1>4. DOMAIN a = 1 .. Len(a) /\ DOMAIN c = 1 .. Len(c)
  BY <1>2
<1>5. OneSpelling(a)
  <2>1. SUFFICES ASSUME NEW i \in 1 .. Len(a), NEW j \in 1 .. Len(a), a[i].name = a[j].name
                 PROVE  i = j
    BY <1>4 DEF OneSpelling
  <2>2. CASE i \in 1 .. Len(c) /\ j \in 1 .. Len(c)
    BY <1>2, <1>4, <2>1, <2>2 DEF OneSpelling
  <2>3. QED
    BY <1>2, <1>3, <2>1, <2>2
<1>6. \A v : h.values = <<v>> => Holds(a, h.name, v)
  BY <1>2, <1>3 DEF Holds
<1>7. \A n, v : n # h.name /\ Holds(c, n, v) => Holds(a, n, v)
  BY <1>2, <1>3 DEF Holds
<1>8. QED
  BY <1>1, <1>5, <1>6, <1>7

\* Replacing a header by one of the same name.
LEMMA ReplaceHolds ==
  ASSUME NEW c \in Seq(Headers), OneSpelling(c), NEW h \in Headers,
         NEW i \in 1 .. Len(c), c[i].name = h.name
  PROVE  /\ OneSpelling([c EXCEPT ![i] = h])
         /\ \A v : h.values = <<v>> => Holds([c EXCEPT ![i] = h], h.name, v)
         /\ \A n, v : n # h.name /\ Holds(c, n, v) => Holds([c EXCEPT ![i] = h], n, v)
<1>1. PICK a : a = [c EXCEPT ![i] = h]
  OBVIOUS
<1>2. /\ a \in Seq(Headers) /\ Len(c) \in Nat /\ Len(a) = Len(c) /\ a[i] = h
      /\ \A j \in 1 .. Len(c) : j # i => a[j] = c[j]
      /\ DOMAIN a = 1 .. Len(c) /\ DOMAIN c = 1 .. Len(c)
  BY <1>1
<1>3. \A j \in 1 .. Len(c) : a[j].name = c[j].name
  BY <1>2
<1>4. OneSpelling(a)
  BY <1>2, <1>3 DEF OneSpelling
<1>5. \A j \in 1 .. Len(c) : a[j].name = h.name => j = i
  BY <1>2, <1>3 DEF OneSpelling
<1>6. \A v : h.values = <<v>> => Holds(a, h.name, v)
  BY <1>2, <1>5 DEF Holds
<1>7. \A n, v : n # h.name /\ Holds(c, n, v) => Holds(a, n, v)
  BY <1>2, <1>3 DEF Holds
<1>8. QED
  BY <1>1, <1>4, <1>6, <1>7

\* Removing the only header of a name.
LEMMA RemoveHolds ==
  ASSUME NEW c \in Seq(Headers), OneSpelling(c), NEW i \in 1 .. Len(c)
  PROVE  /\ RemoveAt(c, i) \in Seq(Headers) /\ OneSpelling(RemoveAt(c, i))
         /\ \A j \in 1 .. Len(RemoveAt(c, i)) : RemoveAt(c, i)[j].name # c[i].name
         /\ \A n, v : n # c[i].name /\ Holds(c, n, v) => Holds(RemoveAt(c, i), n, v)
<1>1. PICK a : a = RemoveAt(c, i)
  OBVIOUS
<1>2. /\ a \in Seq(Headers) /\ Len(a) = Len(c) - 1 /\ Len(c) \in Nat
      /\ \A j \in 1 .. (Len(c) - 1) : a[j] = IF j < i THEN c[j] ELSE c[j + 1]
  <2>1. /\ RemoveAt(c, i) \in Seq(Headers) /\ Len(RemoveAt(c, i)) = Len(c) - 1 /\ Len(c) \in Nat
        /\ \A j \in 1 .. (Len(c) - 1) : RemoveAt(c, i)[j] = IF j < i THEN c[j] ELSE c[j + 1]
    BY RemoveElements, SMTT(30)
  <2>2. QED
    BY <1>1, <2>1, Zenon
<1>3. PICK f : f = [j \in 1 .. (Len(c) - 1) |-> IF j < i THEN j ELSE j + 1]
  OBVIOUS
<1>4. \A j \in 1 .. Len(a) : f[j] \in 1 .. Len(c) /\ f[j] # i /\ a[j] = c[f[j]]
  BY <1>2, <1>3
<1>5. \A j, k \in 1 .. Len(a) : f[j] = f[k] => j = k
  BY <1>2, <1>3
<1>6. \A k \in 1 .. Len(c) : k # i => \E j \in 1 .. Len(a) : a[j] = c[k]
  <2>1. TAKE k \in 1 .. Len(c)
  <2>2. HAVE k # i
  <2>3. CASE k < i
    <3>1. k \in 1 .. Len(a) /\ f[k] = k
      BY <1>2, <1>3, <2>3
    <3>2. QED
      BY <1>4, <3>1
  <2>4. CASE k > i
    <3>1. k - 1 \in 1 .. Len(a) /\ f[k - 1] = k
      BY <1>2, <1>3, <2>4
    <3>2. QED
      BY <1>4, <3>1
  <2>5. QED
    BY <1>2, <2>2, <2>3, <2>4
<1>7. DOMAIN a = 1 .. Len(a) /\ DOMAIN c = 1 .. Len(c)
  BY <1>2
<1>8. OneSpelling(a)
  <2>1. SUFFICES ASSUME NEW j \in 1 .. Len(a), NEW k \in 1 .. Len(a), a[j].name = a[k].name
                 PROVE  j = k
    BY <1>7 DEF OneSpelling
  <2>2. f[j] = f[k]
    BY <1>4, <1>7, <2>1 DEF OneSpelling
  <2>3. QED
    BY <1>5, <2>2
<1>9. \A j \in 1 .. Len(a) : a[j].name # c[i].name
  BY <1>4, <1>7 DEF OneSpelling
<1>10. ASSUME NEW n, NEW v, n # c[i].name, Holds(c, n, v)
       PROVE  Holds(a, n, v)
  <2>1. PICK k \in 1 .. Len(c) : c[k].name = n
    BY <1>10 DEF Holds
  <2>2. \E j \in 1 .. Len(a) : a[j].name = n
    BY <1>6, <1>10, <2>1
  <2>3. \A j \in 1 .. Len(a) : a[j].name = n => a[j].values = <<v>>
    BY <1>4, <1>10 DEF Holds
  <2>4. QED
    BY <2>2, <2>3 DEF Holds
<1>11. QED
  BY <1>1, <1>2, <1>8, <1>9, <1>10

\* ArrayAccessGetterSetter::set: the carrier holds the value, in one spelling, and
\* holds what it held under other names.
LEMMA SetHolds ==
  ASSUME NEW c \in Seq(Headers), NEW name \in Names, NEW v \in ValuesOf(name)
  PROVE  /\ set(c, name, v) \in Seq(Headers)
         /\ OneSpelling(c) =>
              /\ OneSpelling(set(c, name, v))
              /\ Holds(set(c, name, v), name, v)
              /\ \A n, w : n # name /\ Holds(c, n, w) => Holds(set(c, name, v), n, w)
<1>1. PICK at : at = find(c, name)
  OBVIOUS
<1>2. /\ at = 0 <=> \A i \in 1 .. Len(c) : c[i].name # name
      /\ at \in 0 .. Len(c)
      /\ at # 0 => at \in 1 .. Len(c) /\ at > 0 /\ c[at].name = name
  BY <1>1, FindIs
<1>3. PICK h : h = LowerHeader(name, v)
  OBVIOUS
<1>4. h \in Headers /\ h.name = name /\ h.spelling = "lower" /\ h.values = <<v>>
  BY <1>3, WrittenHeader
<1>5. CASE at = 0
  <2>1. set(c, name, v) = Insert(c, h)
    BY <1>1, <1>3, <1>5 DEF set, LowerHeader
  <2>2. Insert(c, h) \in Seq(Headers) /\ Insert(c, h) = Append(c, h)
    BY <1>2, <1>4, <1>5, InsertIs
  <2>3. QED
    BY <1>2, <1>4, <1>5, <2>1, <2>2, AppendHolds
<1>6. CASE at # 0 /\ c[at].spelling = "lower"
  <2>1. set(c, name, v) = Insert(c, h)
    BY <1>1, <1>3, <1>6 DEF set, LowerHeader
  <2>2. Insert(c, h) \in Seq(Headers) /\ (OneSpelling(c) => Insert(c, h) = [c EXCEPT ![at] = h])
    BY <1>2, <1>4, <1>6, InsertIs
  <2>3. QED
    BY <1>2, <1>4, <1>6, <2>1, <2>2, ReplaceHolds
<1>7. CASE at # 0 /\ c[at].spelling # "lower"
  <2>1. PICK b : b = RemoveAt(c, at)
    OBVIOUS
  <2>2. set(c, name, v) = Insert(b, h)
    BY <1>1, <1>2, <1>3, <1>7, <2>1 DEF set, LowerHeader
  <2>3. b \in Seq(Headers)
    BY <1>2, <1>7, <2>1, RemoveElements
  <2>4. Insert(b, h) \in Seq(Headers)
    BY <1>4, <2>3, InsertIs
  <2>5. ASSUME OneSpelling(c)
        PROVE  /\ OneSpelling(Insert(b, h)) /\ Holds(Insert(b, h), name, v)
               /\ \A n, w : n # name /\ Holds(c, n, w) => Holds(Insert(b, h), n, w)
    <3>1. /\ OneSpelling(b) /\ \A j \in 1 .. Len(b) : b[j].name # name
          /\ \A n, w : n # name /\ Holds(c, n, w) => Holds(b, n, w)
      BY <1>2, <1>7, <2>1, <2>5, RemoveHolds
    <3>2. Insert(b, h) = Append(b, h)
      BY <1>4, <2>3, <3>1, InsertIs
    <3>3. /\ OneSpelling(Append(b, h)) /\ Holds(Append(b, h), name, v)
          /\ \A n, w : n # name /\ Holds(b, n, w) => Holds(Append(b, h), n, w)
      BY <1>4, <2>3, <3>1, AppendHolds
    <3>4. QED
      BY <3>1, <3>2, <3>3
  <2>6. QED
    BY <2>2, <2>4, <2>5
<1>8. QED
  BY <1>5, <1>6, <1>7

\* What a filter keeps is what is in the sequence and in the set.
LEMMA KeepRange ==
  ASSUME NEW X, NEW s \in Seq(X), NEW S
  PROVE  Keep(s, S) \in Seq(X) /\ Range(Keep(s, S)) = Range(s) \cap S
<1>1. PICK k : k = Keep(s, S)
  OBVIOUS
<1>2. k \in Seq(X)
  <2>1. k \in Seq(X \cap S) /\ X \cap S \subseteq X
    BY <1>1, KeepIsSeq
  <2>2. QED
    BY <2>1, SeqMonotonic
<1>3. DOMAIN k = 1 .. Len(k) /\ DOMAIN s = 1 .. Len(s)
  BY <1>2
<1>4. \A i \in 1 .. Len(k) : \E j \in 1 .. Len(s) : k[i] = s[j] /\ s[j] \in S
  BY <1>1, KeepUnique
<1>5. ASSUME NEW i \in 1 .. Len(s), s[i] \in S
      PROVE  \E j \in 1 .. Len(k) : k[j] = s[i]
  <2>1. PICK W : W = {s[i]}
    OBVIOUS
  <2>2. s[i] \in W /\ W \subseteq S
    BY <1>5, <2>1
  <2>3. Len(Keep(s, W)) > 0
    BY <2>2, KeepSomething
  <2>4. Keep(k, W) = Keep(s, W)
    BY <1>1, <2>2, KeepNarrower
  <2>5. \E j \in 1 .. Len(k) : k[j] \in W
    BY <1>2, <2>3, <2>4, KeepSomething
  <2>6. QED
    BY <2>1, <2>5
<1>6. Range(k) = Range(s) \cap S
  <2>1. Range(k) \subseteq Range(s) \cap S
    BY <1>3, <1>4 DEF Range
  <2>2. Range(s) \cap S \subseteq Range(k)
    BY <1>3, <1>5 DEF Range
  <2>3. QED
    BY <2>1, <2>2
<1>7. QED
  BY <1>1, <1>2, <1>6

\* A request's headers hold what the carrier held.
LEMMA RequestHolds ==
  ASSUME NEW c \in Seq(Headers)
  PROVE  /\ extract_request_headers(c) \in Seq(Headers)
         /\ \A n, v : Holds(c, n, v) => Holds(extract_request_headers(c), n, v)
<1>1. PICK S : S = {h \in Range(c) : Len(h.values) = 1}
  OBVIOUS
<1>2. PICK k : k = Keep(c, S)
  OBVIOUS
<1>3. k \in Seq(Headers) /\ Range(k) = Range(c) \cap S
  BY <1>2, KeepRange
<1>4. DOMAIN k = 1 .. Len(k) /\ DOMAIN c = 1 .. Len(c)
  BY <1>3
<1>5. ASSUME NEW n, NEW v, Holds(c, n, v)
      PROVE  Holds(k, n, v)
  <2>1. PICK i \in 1 .. Len(c) : c[i].name = n /\ c[i].values = <<v>>
    BY <1>5 DEF Holds
  <2>2. Len(<<v>>) = 1
    OBVIOUS
  <2>3. c[i] \in Range(c) /\ c[i] \in S
    BY <1>1, <1>4, <2>1, <2>2 DEF Range
  <2>4. \E j \in 1 .. Len(k) : k[j] = c[i]
    BY <1>3, <1>4, <2>3 DEF Range
  <2>5. \A j \in 1 .. Len(k) : \E l \in 1 .. Len(c) : k[j] = c[l]
    BY <1>3, <1>4 DEF Range
  <2>6. QED
    BY <1>5, <2>1, <2>4, <2>5 DEF Holds
<1>6. extract_request_headers(c) = k
  BY <1>1, <1>2 DEF extract_request_headers
<1>7. QED
  BY <1>3, <1>5, <1>6

-----------------------------------------------------------------------------
(* Baggage texts and entries.                                               *)

Texts       == Seq(Chars)
HeaderTexts == Seq(HeaderChars)
Entries     == [key : Texts, value : Texts, metadata : HeaderTexts]

\* The entries of a builder: each key once, and none empty.
Baggage(b) ==
  /\ b \in Seq(Entries)
  /\ UniqueKeys(b)
  /\ \A i \in 1 .. Len(b) : b[i].key # <<>>

\* The empty baggage.
LEMMA EmptyBaggage == Baggage(<<>>)
<1>1. <<>> \in Seq(Entries) /\ Len(<<>>) = 0
  OBVIOUS
<1>2. QED
  BY <1>1 DEF Baggage, UniqueKeys

\* BaggageBuilder::set keeps one entry per key.
LEMMA SetEntryBaggage ==
  ASSUME NEW b, Baggage(b), NEW x \in Entries
  PROVE  /\ Baggage(set_entry(b, x))
         /\ x.key # <<>> /\ (\A i \in 1 .. Len(b) : b[i].key # x.key) => set_entry(b, x) = Append(b, x)
<1>1. b \in Seq(Entries) /\ Len(b) \in Nat /\ DOMAIN b = 1 .. Len(b) /\ UniqueKeys(b)
  BY DEF Baggage
<1>2. PICK I : I = {i \in 1 .. Len(b) : b[i].key = x.key}
  OBVIOUS
<1>3. PICK at : at = IF I # {} THEN Min(I) ELSE 0
  OBVIOUS
<1>4. /\ at \in 0 .. Len(b) /\ (at = 0 <=> I = {})
      /\ at # 0 => at \in I /\ at \in 1 .. Len(b) /\ at > 0
  BY <1>1, <1>2, <1>3, FirstOf
<1>5. SelectInSeq(b, LAMBDA y : y.key = x.key) = at
  BY <1>2, <1>3 DEF SelectInSeq
<1>6. /\ x.key = <<>> => set_entry(b, x) = b
      /\ x.key # <<>> /\ at # 0 => set_entry(b, x) = [b EXCEPT ![at] = x]
      /\ x.key # <<>> /\ at = 0 => set_entry(b, x) = Append(b, x)
  BY <1>2, <1>3, <1>4 DEF set_entry, SelectInSeq
<1>7. CASE x.key = <<>>
  BY <1>6, <1>7
<1>8. CASE x.key # <<>> /\ at = 0
  <2>1. \A i \in 1 .. Len(b) : b[i].key # x.key
    BY <1>2, <1>4, <1>8
  <2>2. PICK a : a = Append(b, x)
    OBVIOUS
  <2>3. UniqueKeys(a)
    BY <1>1, <2>1, <2>2, UniqueAppend
  <2>4. /\ a \in Seq(Entries) /\ Len(a) = Len(b) + 1 /\ a[Len(b) + 1] = x
        /\ \A i \in 1 .. Len(b) : a[i] = b[i]
    BY <1>1, <2>2, AppendProperties
  <2>5. \A i \in 1 .. Len(a) : i = Len(b) + 1 \/ i \in 1 .. Len(b)
    BY <1>1, <2>4
  <2>6. Baggage(a)
    BY <1>8, <2>3, <2>4, <2>5 DEF Baggage
  <2>7. QED
    BY <1>6, <1>8, <2>2, <2>6
<1>9. CASE x.key # <<>> /\ at # 0
  <2>1. at \in 1 .. Len(b) /\ b[at].key = x.key
    BY <1>2, <1>4, <1>9
  <2>2. PICK a : a = [b EXCEPT ![at] = x]
    OBVIOUS
  <2>3. /\ a \in Seq(Entries) /\ Len(a) = Len(b)
        /\ \A i \in 1 .. Len(b) : i # at => a[i] = b[i]
        /\ a[at] = x
    BY <1>1, <2>1, <2>2
  <2>4. \A i \in 1 .. Len(b) : a[i].key = b[i].key
    BY <2>1, <2>3
  <2>5. Baggage(a)
    BY <2>3, <2>4 DEF Baggage, UniqueKeys
  <2>6. QED
    BY <1>6, <1>9, <2>1, <2>2, <2>5
<1>10. QED
  BY <1>7, <1>8, <1>9

\* BaggageBuilder::remove keeps one entry per key.
LEMMA RemoveEntryBaggage ==
  ASSUME NEW b, Baggage(b), NEW k
  PROVE  Baggage(remove_entry(b, k))
<1>1. PICK S : S = {x \in Range(b) : x.key # k}
  OBVIOUS
<1>2. PICK w : w = Keep(b, S)
  OBVIOUS
<1>3. b \in Seq(Entries)
  BY DEF Baggage
<1>4. w \in Seq(Entries)
  BY <1>2, <1>3, KeepRange
<1>5. /\ \A i \in 1 .. Len(w) : \E j \in 1 .. Len(b) : w[i] = b[j] /\ b[j] \in S
      /\ UniqueKeys(b) => UniqueKeys(w)
  BY <1>2, <1>3, KeepUnique
<1>6. Baggage(w)
  BY <1>4, <1>5 DEF Baggage
<1>7. QED
  BY <1>1, <1>2, <1>6 DEF remove_entry

\* Parts of a text.
LEMMA PartOf ==
  ASSUME NEW X, NEW t \in Seq(X), NEW a \in Nat \ {0}, NEW b \in Nat, b <= Len(t)
  PROVE  /\ SubSeq(t, a, b) \in Seq(X)
         /\ a <= b => Len(SubSeq(t, a, b)) = b - a + 1
         /\ a > b => SubSeq(t, a, b) = <<>>
         /\ \A i \in 1 .. (b - a + 1) : SubSeq(t, a, b)[i] = t[a + i - 1]
<1>1. Len(t) \in Nat /\ \A i \in 1 .. Len(t) : t[i] \in X
  OBVIOUS
<1>2. CASE a <= b
  BY <1>1, <1>2
<1>3. CASE a > b
  BY <1>1, <1>3, SubSeqEmpty
<1>4. QED
  BY <1>2, <1>3

\* A trimmed text has bytes of the text only.
LEMMA TrimText ==
  ASSUME NEW X, NEW t \in Seq(X)
  PROVE  trim_php(t) \in Seq(X)
<1>1. PICK I : I = {i \in DOMAIN t : t[i] \notin White}
  OBVIOUS
<1>2. trim_php(t) = IF I = {} THEN <<>> ELSE SubSeq(t, Min(I), Max(I))
  BY <1>1 DEF trim_php
<1>3. CASE I = {}
  BY <1>2, <1>3
<1>4. CASE I # {}
  <2>1. Len(t) \in Nat /\ I \in SUBSET (1 .. Len(t))
    BY <1>1
  <2>2. Min(I) \in I /\ Max(I) \in I
    BY <1>4, <2>1, FirstPosition, LastPosition
  <2>3. PICK a, b : a = Min(I) /\ b = Max(I)
    OBVIOUS
  <2>4. a \in Nat \ {0} /\ b \in Nat /\ b <= Len(t)
    <3>1. a \in I /\ b \in I
      BY <2>2, <2>3, Zenon
    <3>2. QED
      BY <2>1, <3>1
  <2>5. SubSeq(t, a, b) \in Seq(X)
    BY <2>4, PartOf
  <2>6. QED
    BY <1>2, <1>4, <2>3, <2>5
<1>5. QED
  BY <1>3, <1>4

\* So has what stands before and after a separator.
LEMMA CutText ==
  ASSUME NEW X, NEW t \in Seq(X), NEW c
  PROVE  TextBefore(t, c) \in Seq(X) /\ TextAfter(t, c) \in Seq(X)
<1>1. PICK I : I = {i \in 1 .. Len(t) : t[i] = c}
  OBVIOUS
<1>2. PICK at : at = IF I # {} THEN Min(I) ELSE 0
  OBVIOUS
<1>3. Len(t) \in Nat /\ at \in 0 .. Len(t)
  BY <1>1, <1>2, FirstOf
<1>4. /\ TextBefore(t, c) = IF at = 0 THEN t ELSE SubSeq(t, 1, at - 1)
      /\ TextAfter(t, c) = IF at = 0 THEN <<>> ELSE SubSeq(t, at + 1, Len(t))
  BY <1>1, <1>2 DEF TextBefore, TextAfter, SelectInSeq
<1>5. at # 0 => SubSeq(t, 1, at - 1) \in Seq(X) /\ SubSeq(t, at + 1, Len(t)) \in Seq(X)
  BY <1>3, PartOf
<1>6. QED
  BY <1>4, <1>5

\* The bytes that escaping and unescaping give.
LEMMA CharFacts ==
  /\ Chars \subseteq HeaderChars
  /\ \A c \in Chars : c \in Unreserved \/ c = " " \/ c \in DOMAIN Escape
  /\ \A c \in DOMAIN Escape : Escape[c] \in DOMAIN Unescape /\ Unescape[Escape[c]] = c
  /\ "+" \notin DOMAIN Unescape /\ " " \in Chars /\ "+" \in Chars /\ "a" \in Chars
  /\ \A x \in DOMAIN Unescape : Unescape[x] \in Chars
  /\ DOMAIN Unescape \subseteq HeaderChars
  /\ Unreserved \cap DOMAIN Unescape = {} /\ "+" \notin Unreserved
  /\ DOMAIN Unescape \cap {" ", "tab", ",", ";", "=", "/"} = {}
  /\ Unreserved \cap {" ", "tab", ",", ";", "=", "/", "+", "%61"} = {}
<1>1. DOMAIN Escape = {",", ";", "=", "/", "tab", "+", "%61"}
  BY DEF Escape
<1>2. DOMAIN Unescape = {"%2C", "%3B", "%3D", "%2F", "%09", "%2B", "%2561", "%61"}
  BY DEF Unescape
<1>3. /\ Escape[","] = "%2C" /\ Escape[";"] = "%3B" /\ Escape["="] = "%3D" /\ Escape["/"] = "%2F"
      /\ Escape["tab"] = "%09" /\ Escape["+"] = "%2B" /\ Escape["%61"] = "%2561"
  BY DEF Escape
<1>4. \A c, d \in DOMAIN Escape : Escape[c] = Escape[d] => c = d
  BY <1>1, <1>3
<1>5. \A c \in DOMAIN Escape : Escape[c] \in DOMAIN Unescape /\ Escape[c] # "%61"
  BY <1>1, <1>2, <1>3
<1>6. ASSUME NEW c \in DOMAIN Escape
      PROVE  Unescape[Escape[c]] = c
  <2>1. Unescape[Escape[c]] = CHOOSE d \in DOMAIN Escape : Escape[d] = Escape[c]
    BY <1>2, <1>5 DEF Unescape
  <2>2. PICK d : d = (CHOOSE e \in DOMAIN Escape : Escape[e] = Escape[c])
    OBVIOUS
  <2>3. d \in DOMAIN Escape /\ Escape[d] = Escape[c]
    BY <2>2
  <2>4. QED
    BY <1>4, <2>1, <2>2, <2>3
<1>7. \A x \in DOMAIN Unescape : x = "%61" \/ \E c \in DOMAIN Escape : x = Escape[c]
  BY <1>1, <1>2, <1>3
<1>8. Unescape["%61"] = "a"
  BY <1>2 DEF Unescape
<1>9. \A x \in DOMAIN Unescape : Unescape[x] \in Chars
  BY <1>6, <1>7, <1>8 DEF Chars, Unreserved
<1>10. Unreserved = {"a", "b", "0"}
  BY DEF Unreserved
<1>11. /\ "+" \notin DOMAIN Unescape /\ Unreserved \cap DOMAIN Unescape = {} /\ "+" \notin Unreserved
       /\ DOMAIN Unescape \cap {" ", "tab", ",", ";", "=", "/"} = {}
       /\ Unreserved \cap {" ", "tab", ",", ";", "=", "/", "+", "%61"} = {}
  BY <1>2, <1>10
<1>12. QED
  BY <1>1, <1>5, <1>6, <1>9, <1>10, <1>11 DEF Chars, HeaderChars

\* What encoding and decoding give is a text.
LEMMA CodeTexts ==
  /\ \A t \in Texts : t \in HeaderTexts /\ url_encode(t) \in HeaderTexts
  /\ \A t \in HeaderTexts : url_decode(t) \in Texts
<1>1. ASSUME NEW t \in Texts
      PROVE  t \in HeaderTexts /\ url_encode(t) \in HeaderTexts
  <2>1. t \in HeaderTexts
    BY CharFacts, SeqMonotonic DEF Texts, HeaderTexts
  <2>2. Len(t) \in Nat /\ DOMAIN t = 1 .. Len(t) /\ \A i \in 1 .. Len(t) : t[i] \in Chars
    BY DEF Texts
  <2>3. \A i \in 1 .. Len(t) : url_encode(t)[i] \in HeaderChars
    BY <2>2, CharFacts DEF url_encode
  <2>4. url_encode(t) \in [1 .. Len(t) -> HeaderChars]
    BY <2>2, <2>3 DEF url_encode
  <2>5. QED
    BY <2>1, <2>2, <2>4 DEF HeaderTexts
<1>2. ASSUME NEW t \in HeaderTexts
      PROVE  url_decode(t) \in Texts
  <2>1. Len(t) \in Nat /\ DOMAIN t = 1 .. Len(t) /\ \A i \in 1 .. Len(t) : t[i] \in HeaderChars
    BY DEF HeaderTexts
  <2>2. \A i \in 1 .. Len(t) : t[i] \in Chars \/ t[i] \in DOMAIN Unescape
    BY <2>1 DEF HeaderChars
  <2>3. \A i \in 1 .. Len(t) : url_decode(t)[i] \in Chars
    BY <2>1, <2>2, CharFacts DEF url_decode
  <2>4. url_decode(t) \in [1 .. Len(t) -> Chars]
    BY <2>1, <2>3 DEF url_decode
  <2>5. QED
    BY <2>1, <2>4 DEF Texts
<1>3. QED
  BY <1>1, <1>2

\* A text cut at its commas: one piece at least.
Pieces     == {s \in Seq(HeaderTexts) : s # <<>>}
EmptyPiece == <<(<<>>)>>

\* What one more byte does to the pieces of a header.
LEMMA SplitSteps ==
  /\ EmptyPiece \in Pieces
  /\ \A a \in Pieces, c \in HeaderChars :
       /\ SplitStep(a, c) \in Pieces
       /\ c = "," => SplitStep(a, c) = Append(a, <<>>)
       /\ c # "," => SplitStep(a, c) = [a EXCEPT ![Len(a)] = Append(@, c)]
<1>1. <<>> \in HeaderTexts
  BY DEF HeaderTexts
<1>2. EmptyPiece \in Pieces
  BY <1>1 DEF EmptyPiece, Pieces
<1>3. ASSUME NEW a \in Pieces, NEW c \in HeaderChars
      PROVE  /\ SplitStep(a, c) \in Pieces
             /\ c = "," => SplitStep(a, c) = Append(a, <<>>)
             /\ c # "," => SplitStep(a, c) = [a EXCEPT ![Len(a)] = Append(@, c)]
  <2>1. a \in Seq(HeaderTexts) /\ a # <<>> /\ Len(a) \in Nat /\ Len(a) \in 1 .. Len(a)
    BY DEF Pieces
  <2>2. CASE c = ","
    <3>1. Append(a, <<>>) \in Pieces
      BY <1>1, <2>1, AppendProperties DEF Pieces
    <3>2. QED
      BY <2>2, <3>1 DEF SplitStep
  <2>3. CASE c # ","
    <3>1. PICK t : t = Append(a[Len(a)], c)
      OBVIOUS
    <3>2. t \in HeaderTexts
      BY <2>1, <3>1, AppendProperties DEF HeaderTexts
    <3>3. PICK b : b = [a EXCEPT ![Len(a)] = t]
      OBVIOUS
    <3>4. b \in Seq(HeaderTexts) /\ Len(b) = Len(a)
      BY <2>1, <3>2, <3>3
    <3>5. b # <<>>
      BY <2>1, <3>4
    <3>6. SplitStep(a, c) = b
      BY <2>3, <3>1, <3>3 DEF SplitStep
    <3>7. b \in Pieces
      BY <3>4, <3>5 DEF Pieces
    <3>8. QED
      BY <2>3, <3>1, <3>3, <3>6, <3>7
  <2>4. QED
    BY <2>2, <2>3
<1>4. QED
  BY <1>2, <1>3

\* The run of the cuts.
LEMMA SplitRun ==
  ASSUME NEW t \in Seq(HeaderChars)
  PROVE  \E r : /\ r[0] = EmptyPiece
                /\ \A i \in 1 .. Len(t) : r[i] = SplitStep(r[i - 1], t[i])
                /\ Split(t) = r[Len(t)]
<1>1. PICK n : n = Len(t)
  OBVIOUS
<1>2. n \in Nat /\ DOMAIN t = 1 .. n /\ \A i \in 1 .. n : t[i] \in HeaderChars
  BY <1>1
<1>3. PICK F : F = [p \in Pieces \X Nat |->
                     IF p[2] \in 1 .. n THEN SplitStep(p[1], t[p[2]]) ELSE p[1]]
  OBVIOUS
<1>4. F \in [Pieces \X Nat -> Pieces]
  BY <1>2, <1>3, SplitSteps
<1>5. PICK g : Solves(g, n, Pieces, EmptyPiece, F)
  BY <1>2, <1>4, FoldExists, SplitSteps
<1> DEFINE E(h) == h = [u \in SUBSET DOMAIN t |->
                         IF u = {} THEN EmptyPiece
                         ELSE SplitStep(h[u \ {Max(u)}], t[Max(u)])]
<1>6. E(g)
  <2>1. \A a \in Pieces, i \in 1 .. n : F[<<a, i>>] = SplitStep(a, t[i])
    BY <1>2, <1>3
  <2>2. /\ g \in [SUBSET (1 .. n) -> Pieces]
        /\ \A u \in SUBSET (1 .. n) :
             g[u] = IF u = {} THEN EmptyPiece ELSE F[<<g[u \ {Max(u)}], Max(u)>>]
    BY <1>5 DEF Solves
  <2>3. \A u \in SUBSET (1 .. n) :
          g[u] = IF u = {} THEN EmptyPiece
                 ELSE SplitStep(g[u \ {Max(u)}], t[Max(u)])
    BY <1>2, <2>1, <2>2, MaxInside
  <2>4. g = [u \in SUBSET (1 .. n) |-> g[u]]
    BY <2>2
  <2>5. QED
    BY <1>2, <2>3, <2>4
<1> HIDE DEF E
<1>7. PICK it : it = (CHOOSE h : E(h))
  OBVIOUS
<1>8. E(it)
  BY <1>6, <1>7
<1>9. Split(t) = it[1 .. n]
  BY <1>2, <1>7 DEF Split, EmptyPiece, FoldLeft, MapThenFoldSet, E
<1> DEFINE r == [k \in 0 .. n |-> it[1 .. k]]
<1>10. r[0] = EmptyPiece
  BY <1>2, <1>8, PrefixSets DEF E
<1>11. ASSUME NEW i \in 1 .. n
       PROVE  r[i] = SplitStep(r[i - 1], t[i])
  <2>1. /\ 1 .. i \in SUBSET (1 .. n) /\ 1 .. i # {}
        /\ Max(1 .. i) = i /\ (1 .. i) \ {i} = 1 .. (i - 1)
    BY <1>2, PrefixSets
  <2>2. it[1 .. i] = SplitStep(it[(1 .. i) \ {Max(1 .. i)}], t[Max(1 .. i)])
    BY <1>2, <1>8, <2>1 DEF E
  <2>3. r[i] = it[1 .. i] /\ r[i - 1] = it[1 .. (i - 1)]
    BY <1>2
  <2>4. QED
    BY <2>1, <2>2, <2>3
<1>12. Split(t) = r[n]
  BY <1>2, <1>9
<1> HIDE DEF r
<1>13. QED
  BY <1>1, <1>10, <1>11, <1>12

\* A text one byte longer.
LEMMA SplitAppend ==
  /\ Split(<<>>) = EmptyPiece
  /\ \A s \in Seq(HeaderChars), x \in HeaderChars : Split(Append(s, x)) = SplitStep(Split(s), x)
<1>1. Split(<<>>) = EmptyPiece
  <2>1. <<>> \in Seq(HeaderChars) /\ Len(<<>>) = 0
    OBVIOUS
  <2>2. QED
    BY <2>1, SplitRun
<1>2. ASSUME NEW s \in Seq(HeaderChars), NEW x \in HeaderChars
      PROVE  Split(Append(s, x)) = SplitStep(Split(s), x)
  <2>1. PICK t : t = Append(s, x)
    OBVIOUS
  <2>2. /\ t \in Seq(HeaderChars) /\ Len(t) = Len(s) + 1 /\ t[Len(s) + 1] = x /\ Len(s) \in Nat
        /\ \A i \in 1 .. Len(s) : t[i] = s[i] /\ i \in 1 .. Len(t)
        /\ Len(s) + 1 \in 1 .. Len(t) /\ (Len(s) + 1) - 1 = Len(s)
    BY <2>1, AppendProperties
  <2>3. PICK q : /\ q[0] = EmptyPiece
                 /\ \A i \in 1 .. Len(s) : q[i] = SplitStep(q[i - 1], s[i])
                 /\ Split(s) = q[Len(s)]
    BY SplitRun
  <2>4. PICK r : /\ r[0] = EmptyPiece
                 /\ \A i \in 1 .. Len(t) : r[i] = SplitStep(r[i - 1], t[i])
                 /\ Split(t) = r[Len(t)]
    BY <2>2, SplitRun
  <2> DEFINE T == {i \in Nat : r[i] = q[i]}
  <2>5. 0 \in T
    BY <2>3, <2>4
  <2>6. \A i \in 1 .. Len(s) : i - 1 \in T => i \in T
    BY <2>2, <2>3, <2>4
  <2>7. Len(s) \in T
    <3> HIDE DEF T
    <3>1. QED
      BY <2>2, <2>5, <2>6, UpToInduction
  <2>8. r[Len(s) + 1] = SplitStep(r[Len(s)], x)
    BY <2>2, <2>4
  <2>9. QED
    BY <2>1, <2>2, <2>3, <2>4, <2>7, <2>8
<1>3. QED
  BY <1>1, <1>2

\* The pieces of a header are texts of a header, at least one.
LEMMA SplitPieces ==
  \A t \in Seq(HeaderChars) : Split(t) \in Pieces
<1> DEFINE T == {t \in Seq(HeaderChars) : Split(t) \in Pieces}
<1>1. <<>> \in T
  <2>1. Split(<<>>) \in Pieces
    BY SplitAppend, SplitSteps, Zenon
  <2>2. <<>> \in Seq(HeaderChars)
    OBVIOUS
  <2>3. QED
    BY <2>1, <2>2
<1>2. ASSUME NEW t \in Seq(HeaderChars), NEW c \in HeaderChars, t \in T
      PROVE  Append(t, c) \in T
  <2>1. Split(t) \in Pieces
    BY <1>2
  <2>2. Split(Append(t, c)) = SplitStep(Split(t), c)
    BY SplitAppend, Zenon
  <2>3. SplitStep(Split(t), c) \in Pieces
    BY <2>1, SplitSteps, Zenon
  <2>4. Append(t, c) \in Seq(HeaderChars)
    BY AppendProperties
  <2>5. QED
    BY <2>2, <2>3, <2>4
<1>3. Seq(HeaderChars) \subseteq T
  <2> HIDE DEF T
  <2>1. QED
    BY <1>1, <1>2, SeqInductionSet
<1>4. QED
  BY <1>3

\* Two texts, one after the other.
LEMMA ConcatText ==
  ASSUME NEW X, NEW s \in Seq(X), NEW t \in Seq(X)
  PROVE  /\ s \o t \in Seq(X) /\ Len(s) \in Nat /\ Len(t) \in Nat
         /\ Len(s \o t) = Len(s) + Len(t)
         /\ \A i \in 1 .. Len(s) : (s \o t)[i] = s[i]
         /\ \A i \in 1 .. Len(t) : (s \o t)[Len(s) + i] = t[i]
<1>1. Len(s) \in Nat /\ Len(t) \in Nat
  OBVIOUS
<1>2. /\ s \o t \in Seq(X) /\ Len(s \o t) = Len(s) + Len(t)
      /\ \A i \in 1 .. Len(s) + Len(t) : (s \o t)[i] = IF i <= Len(s) THEN s[i] ELSE t[i - Len(s)]
  BY ConcatProperties
<1>3. \A i \in 1 .. Len(s) : i \in 1 .. Len(s) + Len(t) /\ i <= Len(s)
  BY <1>1
<1>4. \A i \in 1 .. Len(t) : /\ Len(s) + i \in 1 .. Len(s) + Len(t) /\ ~(Len(s) + i <= Len(s))
                             /\ (Len(s) + i) - Len(s) = i
  BY <1>1
<1>5. QED
  BY <1>1, <1>2, <1>3, <1>4

\* A text of one byte.
LEMMA OneChar ==
  ASSUME NEW X, NEW c \in X
  PROVE  <<c>> \in Seq(X) /\ Len(<<c>>) = 1 /\ <<c>>[1] = c
OBVIOUS

\* The separators are bytes of a header.
LEMMA CharTexts ==
  /\ <<"=">> \in HeaderTexts /\ <<";">> \in HeaderTexts /\ <<",">> \in HeaderTexts /\ <<>> \in HeaderTexts
  /\ Len(<<"=">>) = 1 /\ Len(<<";">>) = 1 /\ Len(<<",">>) = 1 /\ Len(<<>>) = 0 /\ Len(<<"0">>) = 1
  /\ <<"=">>[1] = "=" /\ <<";">>[1] = ";" /\ <<",">>[1] = "," /\ <<"0">>[1] = "0"
<1>1. "=" \in HeaderChars /\ ";" \in HeaderChars /\ "," \in HeaderChars
  BY DEF HeaderChars, Chars, Escape
<1>2. /\ <<"=">> \in HeaderTexts /\ <<";">> \in HeaderTexts /\ <<",">> \in HeaderTexts
      /\ <<>> \in HeaderTexts
  <2>1. <<>> \in Seq(HeaderChars)
    OBVIOUS
  <2>2. <<"=">> \in Seq(HeaderChars) /\ <<";">> \in Seq(HeaderChars) /\ <<",">> \in Seq(HeaderChars)
    BY <1>1, OneChar, Zenon
  <2>3. QED
    BY <2>1, <2>2, Zenon DEF HeaderTexts
<1>3. Len(<<"=">>) = 1 /\ Len(<<";">>) = 1 /\ Len(<<",">>) = 1 /\ Len(<<>>) = 0 /\ Len(<<"0">>) = 1
  OBVIOUS
<1>4. <<"=">>[1] = "=" /\ <<";">>[1] = ";" /\ <<",">>[1] = "," /\ <<"0">>[1] = "0"
  OBVIOUS
<1>5. QED
  BY <1>2, <1>3, <1>4, Zenon

\* A text is not a shorter one.
LEMMA NotShorter ==
  ASSUME NEW X, NEW t \in Seq(X)
  PROVE  /\ Len(t) > 0 => t # <<>>
         /\ Len(t) > 1 => t # <<"0">>
<1>1. t = <<>> => Len(t) = 0
  OBVIOUS
<1>2. t = <<"0">> => Len(t) = 1
  OBVIOUS
<1>3. (Len(t) > 0 => ~(Len(t) = 0)) /\ (Len(t) > 1 => ~(Len(t) = 1))
  <2>1. PICK n \in Nat : n = Len(t)
    OBVIOUS
  <2>2. (n > 0 => ~(n = 0)) /\ (n > 1 => ~(n = 1))
    OBVIOUS
  <2>3. QED
    BY <2>1, <2>2, Zenon
<1>4. QED
  BY <1>1, <1>2, <1>3, Zenon

\* The text of an entry, and of a baggage.
LEMMA EntryTexts ==
  ASSUME NEW x \in Entries
  PROVE  /\ EntryText(x) \in HeaderTexts /\ EntryText(x) # <<>>
         /\ EntryText(x) # <<"0">>
<1>1. PICK k, u, eq : k = x.key /\ u = url_encode(x.value) /\ eq = <<"=">>
  OBVIOUS
<1>2. PICK m : m = (IF is_php_empty(x.metadata) THEN <<>> ELSE <<";">> \o x.metadata)
  OBVIOUS
<1>3. k \in Seq(HeaderChars) /\ u \in Seq(HeaderChars) /\ x.metadata \in Seq(HeaderChars)
  BY <1>1, CodeTexts DEF Entries, HeaderTexts
<1>4. eq \in Seq(HeaderChars) /\ Len(eq) = 1 /\ eq[1] = "="
  BY <1>1, CharTexts DEF HeaderTexts
<1>5. m \in Seq(HeaderChars)
  <2>1. <<";">> \in Seq(HeaderChars) /\ <<>> \in Seq(HeaderChars)
    BY CharTexts DEF HeaderTexts
  <2>2. <<";">> \o x.metadata \in Seq(HeaderChars)
    BY <1>3, <2>1, ConcatText
  <2>3. QED
    BY <1>2, <2>1, <2>2
<1>6. PICK a, b, w : a = k \o eq /\ b = a \o u /\ w = b \o m
  OBVIOUS
<1>7. EntryText(x) = w
  BY <1>1, <1>2, <1>6 DEF EntryText
<1>8. a \in Seq(HeaderChars) /\ Len(a) = Len(k) + 1 /\ Len(k) \in Nat /\ a[Len(k) + 1] = "="
  <2>1. /\ k \o eq \in Seq(HeaderChars) /\ Len(k) \in Nat /\ Len(k \o eq) = Len(k) + Len(eq)
        /\ \A i \in 1 .. Len(eq) : (k \o eq)[Len(k) + i] = eq[i]
    BY <1>3, <1>4, ConcatText
  <2>2. 1 \in 1 .. Len(eq)
    BY <1>4
  <2>3. QED
    BY <1>4, <1>6, <2>1, <2>2
<1>9. /\ b \in Seq(HeaderChars) /\ Len(b) = Len(a) + Len(u) /\ Len(u) \in Nat
      /\ \A i \in 1 .. Len(a) : b[i] = a[i]
  <2>1. b = a \o u /\ a \in Seq(HeaderChars) /\ u \in Seq(HeaderChars)
    BY <1>3, <1>6, <1>8, Zenon
  <2>2. QED
    BY <2>1, ConcatText, SMTT(30)
<1>10. /\ w \in Seq(HeaderChars) /\ Len(w) = Len(b) + Len(m) /\ Len(m) \in Nat
       /\ \A i \in 1 .. Len(b) : w[i] = b[i]
  BY <1>5, <1>6, <1>9, ConcatText
<1>11. Len(k) + 1 \in 1 .. Len(a) /\ Len(k) + 1 \in 1 .. Len(b) /\ Len(w) >= Len(k) + 1
  BY <1>8, <1>9, <1>10
<1>12. w[Len(k) + 1] = "="
  BY <1>8, <1>9, <1>10, <1>11
<1>13. w # <<>>
  BY <1>8, <1>10, <1>11, NotShorter
<1>14. w # <<"0">>
  <2>1. SUFFICES ASSUME w = <<"0">> PROVE FALSE
    OBVIOUS
  <2>2. Len(w) = 1 /\ w[1] = "0"
    BY <2>1, CharTexts
  <2>3. Len(k) = 0
    BY <1>8, <1>11, <2>2
  <2>4. QED
    BY <1>12, <2>2, <2>3
<1>15. QED
  BY <1>7, <1>10, <1>13, <1>14 DEF HeaderTexts

\* What one more entry does to a header.
LEMMA JoinSteps ==
  /\ <<>> \in HeaderTexts
  /\ \A t \in HeaderTexts, x \in Entries :
       /\ JoinStep(t, x) \in HeaderTexts
       /\ JoinStep(<<>>, x) = EntryText(x)
       /\ t # <<>> => /\ JoinStep(t, x) = (t \o <<",">>) \o EntryText(x)
                      /\ JoinStep(t, x) # <<>> /\ JoinStep(t, x) # <<"0">>
<1>1. <<>> \in HeaderTexts /\ <<",">> \in HeaderTexts
  BY CharTexts
<1>2. ASSUME NEW t \in HeaderTexts, NEW x \in Entries
      PROVE  /\ JoinStep(t, x) \in HeaderTexts
             /\ JoinStep(<<>>, x) = EntryText(x)
             /\ t # <<>> => /\ JoinStep(t, x) = (t \o <<",">>) \o EntryText(x)
                            /\ JoinStep(t, x) # <<>> /\ JoinStep(t, x) # <<"0">>
  <2>1. EntryText(x) \in HeaderTexts
    BY EntryTexts
  <2>2. JoinStep(<<>>, x) = EntryText(x)
    BY DEF JoinStep
  <2>3. ASSUME t # <<>>
        PROVE  /\ JoinStep(t, x) = (t \o <<",">>) \o EntryText(x) /\ JoinStep(t, x) \in HeaderTexts
               /\ JoinStep(t, x) # <<>> /\ JoinStep(t, x) # <<"0">>
    <3>1. PICK a : a = t \o <<",">>
      OBVIOUS
    <3>10. t \in Seq(HeaderChars) /\ EntryText(x) \in Seq(HeaderChars) /\ <<",">> \in Seq(HeaderChars)
      BY <1>1, <2>1 DEF HeaderTexts
    <3>2. a \in Seq(HeaderChars) /\ Len(a) = Len(t) + 1 /\ Len(t) \in Nat
      <4>1. PICK q : q = <<",">>
        OBVIOUS
      <4>2. q \in Seq(HeaderChars) /\ Len(q) = 1 /\ a = t \o q
        BY <3>10, <3>1, <4>1
      <4>3. QED
        <5>1. t \o q \in Seq(HeaderChars) /\ Len(t) \in Nat /\ Len(t \o q) = Len(t) + Len(q)
          BY <3>10, <4>2, ConcatText
        <5>2. QED
          BY <4>2, <5>1, Zenon
    <3>3. Len(t) > 0
      BY <2>3 DEF HeaderTexts
    <3>4. PICK b : b = a \o EntryText(x)
      OBVIOUS
    <3>5. b \in Seq(HeaderChars) /\ Len(b) = Len(a) + Len(EntryText(x)) /\ Len(EntryText(x)) \in Nat
      BY <3>10, <3>2, <3>4, ConcatText
    <3>6. Len(b) >= 2
      BY <3>2, <3>3, <3>5
    <3>7. b # <<>> /\ b # <<"0">>
      BY <3>5, <3>6, NotShorter
    <3>8. JoinStep(t, x) = b
      BY <2>3, <3>1, <3>4 DEF JoinStep
    <3>9. QED
      BY <3>1, <3>4, <3>5, <3>7, <3>8 DEF HeaderTexts
  <2>4. QED
    BY <2>1, <2>2, <2>3
<1>3. QED
  BY <1>1, <1>2

\* The run of the joins.
LEMMA JoinRun ==
  ASSUME NEW s \in Seq(Entries)
  PROVE  \E r : /\ r[0] = <<>>
                /\ \A i \in 1 .. Len(s) : r[i] = JoinStep(r[i - 1], s[i])
                /\ baggage_header(s) = r[Len(s)]
<1>1. PICK n : n = Len(s)
  OBVIOUS
<1>2. n \in Nat /\ DOMAIN s = 1 .. n /\ \A i \in 1 .. n : s[i] \in Entries
  BY <1>1
<1>3. PICK F : F = [p \in HeaderTexts \X Nat |->
                     IF p[2] \in 1 .. n THEN JoinStep(p[1], s[p[2]]) ELSE p[1]]
  OBVIOUS
<1>4. F \in [HeaderTexts \X Nat -> HeaderTexts]
  BY <1>2, <1>3, JoinSteps
<1>5. PICK g : Solves(g, n, HeaderTexts, <<>>, F)
  BY <1>2, <1>4, FoldExists, JoinSteps
<1> DEFINE E(h) == h = [u \in SUBSET DOMAIN s |->
                         IF u = {} THEN <<>>
                         ELSE JoinStep(h[u \ {Max(u)}], s[Max(u)])]
<1>6. E(g)
  <2>1. \A a \in HeaderTexts, i \in 1 .. n : F[<<a, i>>] = JoinStep(a, s[i])
    BY <1>2, <1>3
  <2>2. /\ g \in [SUBSET (1 .. n) -> HeaderTexts]
        /\ \A u \in SUBSET (1 .. n) :
             g[u] = IF u = {} THEN <<>> ELSE F[<<g[u \ {Max(u)}], Max(u)>>]
    BY <1>5 DEF Solves
  <2>3. \A u \in SUBSET (1 .. n) :
          g[u] = IF u = {} THEN <<>>
                 ELSE JoinStep(g[u \ {Max(u)}], s[Max(u)])
    BY <1>2, <2>1, <2>2, MaxInside
  <2>4. g = [u \in SUBSET (1 .. n) |-> g[u]]
    BY <2>2
  <2>5. QED
    BY <1>2, <2>3, <2>4
<1> HIDE DEF E
<1>7. PICK it : it = (CHOOSE h : E(h))
  OBVIOUS
<1>8. E(it)
  BY <1>6, <1>7
<1>9. baggage_header(s) = it[1 .. n]
  BY <1>2, <1>7 DEF baggage_header, FoldLeft, MapThenFoldSet, E
<1> DEFINE r == [k \in 0 .. n |-> it[1 .. k]]
<1>10. r[0] = <<>>
  BY <1>2, <1>8, PrefixSets DEF E
<1>11. ASSUME NEW i \in 1 .. n
       PROVE  r[i] = JoinStep(r[i - 1], s[i])
  <2>1. /\ 1 .. i \in SUBSET (1 .. n) /\ 1 .. i # {}
        /\ Max(1 .. i) = i /\ (1 .. i) \ {i} = 1 .. (i - 1)
    BY <1>2, PrefixSets
  <2>2. it[1 .. i] = JoinStep(it[(1 .. i) \ {Max(1 .. i)}], s[Max(1 .. i)])
    BY <1>2, <1>8, <2>1 DEF E
  <2>3. r[i] = it[1 .. i] /\ r[i - 1] = it[1 .. (i - 1)]
    BY <1>2
  <2>4. QED
    BY <2>1, <2>2, <2>3
<1>12. baggage_header(s) = r[n]
  BY <1>2, <1>9
<1> HIDE DEF r
<1>13. QED
  BY <1>1, <1>10, <1>11, <1>12

\* A baggage of one entry more.
LEMMA JoinAppend ==
  /\ baggage_header(<<>>) = <<>>
  /\ \A s \in Seq(Entries), x \in Entries : baggage_header(Append(s, x)) = JoinStep(baggage_header(s), x)
<1>1. baggage_header(<<>>) = <<>>
  <2>1. <<>> \in Seq(Entries) /\ Len(<<>>) = 0
    OBVIOUS
  <2>2. QED
    BY <2>1, JoinRun
<1>2. ASSUME NEW s \in Seq(Entries), NEW x \in Entries
      PROVE  baggage_header(Append(s, x)) = JoinStep(baggage_header(s), x)
  <2>1. PICK t : t = Append(s, x)
    OBVIOUS
  <2>2. /\ t \in Seq(Entries) /\ Len(t) = Len(s) + 1 /\ t[Len(s) + 1] = x /\ Len(s) \in Nat
        /\ \A i \in 1 .. Len(s) : t[i] = s[i] /\ i \in 1 .. Len(t)
        /\ Len(s) + 1 \in 1 .. Len(t) /\ (Len(s) + 1) - 1 = Len(s)
    BY <2>1, AppendProperties
  <2>3. PICK q : /\ q[0] = <<>>
                 /\ \A i \in 1 .. Len(s) : q[i] = JoinStep(q[i - 1], s[i])
                 /\ baggage_header(s) = q[Len(s)]
    BY JoinRun
  <2>4. PICK r : /\ r[0] = <<>>
                 /\ \A i \in 1 .. Len(t) : r[i] = JoinStep(r[i - 1], t[i])
                 /\ baggage_header(t) = r[Len(t)]
    BY <2>2, JoinRun
  <2> DEFINE T == {i \in Nat : r[i] = q[i]}
  <2>5. 0 \in T
    BY <2>3, <2>4
  <2>6. \A i \in 1 .. Len(s) : i - 1 \in T => i \in T
    BY <2>2, <2>3, <2>4
  <2>7. Len(s) \in T
    <3> HIDE DEF T
    <3>1. QED
      BY <2>2, <2>5, <2>6, UpToInduction
  <2>8. r[Len(s) + 1] = JoinStep(r[Len(s)], x)
    BY <2>2, <2>4
  <2>9. QED
    BY <2>1, <2>2, <2>3, <2>4, <2>7, <2>8
<1>3. QED
  BY <1>1, <1>2

\* The header of a baggage is a text, and no is_php_empty one when there are entries.
LEMMA HeaderOfBaggage ==
  \A s \in Seq(Entries) : /\ baggage_header(s) \in HeaderTexts
                          /\ s # <<>> => ~is_php_empty(baggage_header(s))
<1> DEFINE T == {s \in Seq(Entries) : /\ baggage_header(s) \in HeaderTexts
                                      /\ s # <<>> => ~is_php_empty(baggage_header(s))}
<1>1. <<>> \in T
  <2>1. baggage_header(<<>>) \in HeaderTexts
    BY JoinAppend, JoinSteps, Zenon
  <2>2. <<>> \in Seq(Entries)
    OBVIOUS
  <2>3. QED
    BY <2>1, <2>2
<1>2. ASSUME NEW s \in Seq(Entries), NEW x \in Entries, s \in T
      PROVE  Append(s, x) \in T
  <2>1. PICK t : t = baggage_header(s)
    OBVIOUS
  <2>2. t \in HeaderTexts /\ baggage_header(Append(s, x)) = JoinStep(t, x)
    BY <1>2, <2>1, JoinAppend
  <2>3. JoinStep(t, x) \in HeaderTexts /\ JoinStep(t, x) # <<>> /\ JoinStep(t, x) # <<"0">>
    <3>1. CASE t = <<>>
      BY <2>2, <3>1, JoinSteps, EntryTexts
    <3>2. CASE t # <<>>
      BY <2>2, <3>2, JoinSteps
    <3>3. QED
      BY <3>1, <3>2
  <2>4. Append(s, x) \in Seq(Entries)
    BY AppendProperties
  <2>5. QED
    BY <2>2, <2>3, <2>4 DEF is_php_empty
<1>3. Seq(Entries) \subseteq T
  <2> HIDE DEF T
  <2>1. QED
    BY <1>1, <1>2, SeqInductionSet
<1>4. QED
  BY <1>3

\* The recursion of FlattenSeq.
Flattens(f, seqs) ==
  f = [i \in 1 .. Len(seqs) |-> IF i = 1 THEN seqs[i] ELSE f[i - 1] \o seqs[i]]

\* FlattenSeq, one sequence after another.
LEMMA FlattenRun ==
  ASSUME NEW X, NEW seqs \in Seq(Seq(X)), Len(seqs) > 0
  PROVE  \E f : Flattens(f, seqs) /\ FlattenSeq(seqs) = f[Len(seqs)]
<1>1. PICK n : n = Len(seqs)
  OBVIOUS
<1>2. PICK A : A = Seq(X)
  OBVIOUS
<1>3. n \in Nat /\ n > 0 /\ \A i \in 1 .. n : seqs[i] \in A
  BY <1>1, <1>2
<1>4. PICK F : F = [p \in A \X Nat |->
                     IF p[2] \in 1 .. n THEN IF p[2] = 1 THEN seqs[1] ELSE p[1] \o seqs[p[2]] ELSE p[1]]
  OBVIOUS
<1>5. \A a \in A, b \in A : a \o b \in A
  BY <1>2
<1>6. F \in [A \X Nat -> A]
  <2>1. 1 \in 1 .. n
    BY <1>3
  <2>2. QED
    BY <1>3, <1>4, <1>5, <2>1
<1>7. <<>> \in A
  BY <1>2
<1>8. PICK g : Solves(g, n, A, <<>>, F)
  BY <1>3, <1>6, <1>7, FoldExists
<1>9. PICK f : f = [i \in 1 .. n |-> g[1 .. i]]
  OBVIOUS
<1>10. ASSUME NEW i \in 1 .. n
       PROVE  f[i] = IF i = 1 THEN seqs[i] ELSE f[i - 1] \o seqs[i]
  <2>1. /\ 1 .. i \in SUBSET (1 .. n) /\ 1 .. i # {}
        /\ Max(1 .. i) = i /\ (1 .. i) \ {i} = 1 .. (i - 1)
    BY <1>3, PrefixSets
  <2>2. g[1 .. i] = F[<<g[1 .. (i - 1)], i>>]
    BY <1>8, <2>1 DEF Solves
  <2>3. g[1 .. (i - 1)] \in A
    <3>1. 1 .. (i - 1) \in SUBSET (1 .. n)
      BY <2>1
    <3>2. QED
      BY <1>8, <3>1 DEF Solves
  <2>4. g[1 .. i] = IF i = 1 THEN seqs[1] ELSE g[1 .. (i - 1)] \o seqs[i]
    BY <1>3, <1>4, <2>2, <2>3
  <2>5. CASE i = 1
    BY <1>9, <2>4, <2>5
  <2>6. CASE i # 1
    <3>1. i - 1 \in 1 .. n
      BY <1>3, <2>6
    <3>2. QED
      BY <1>9, <2>4, <2>6, <3>1
  <2>7. QED
    BY <2>5, <2>6
<1>11. Flattens(f, seqs)
  BY <1>1, <1>9, <1>10 DEF Flattens
<1>12. PICK h : h = (CHOOSE f1 : Flattens(f1, seqs))
  OBVIOUS
<1>13. Flattens(h, seqs)
  BY <1>11, <1>12
<1>14. FlattenSeq(seqs) = h[Len(seqs)]
  BY <1>1, <1>3, <1>12 DEF FlattenSeq, Flattens
<1>15. QED
  BY <1>13, <1>14

\* The values of the recursion of FlattenSeq.
LEMMA FlattensIs ==
  ASSUME NEW X, NEW seqs \in Seq(Seq(X)), NEW f, Flattens(f, seqs)
  PROVE  /\ Len(seqs) > 0 => f[1] = seqs[1]
         /\ \A i \in 2 .. Len(seqs) : f[i] = f[i - 1] \o seqs[i]
<1>1. Len(seqs) \in Nat
  OBVIOUS
<1>2. \A i \in 1 .. Len(seqs) : f[i] = IF i = 1 THEN seqs[i] ELSE f[i - 1] \o seqs[i]
  BY Zenon DEF Flattens
<1>3. Len(seqs) > 0 => 1 \in 1 .. Len(seqs)
  BY <1>1
<1>4. \A i \in 2 .. Len(seqs) : i \in 1 .. Len(seqs) /\ i # 1
  BY <1>1
<1>5. QED
  BY <1>2, <1>3, <1>4

\* FlattenSeq of one more sequence.
LEMMA FlattenAppend ==
  ASSUME NEW X
  PROVE  /\ FlattenSeq(<<>>) = <<>>
         /\ \A s \in Seq(Seq(X)), t \in Seq(X) :
              Len(s) > 0 => FlattenSeq(Append(s, t)) = FlattenSeq(s) \o t
         /\ \A t \in Seq(X) : FlattenSeq(Append(<<>>, t)) = t
<1>1. FlattenSeq(<<>>) = <<>>
  <2>1. Len(<<>>) = 0
    OBVIOUS
  <2>2. QED
    BY <2>1 DEF FlattenSeq
<1>2. ASSUME NEW s \in Seq(Seq(X)), NEW t \in Seq(X), Len(s) > 0
      PROVE  FlattenSeq(Append(s, t)) = FlattenSeq(s) \o t
  <2>1. PICK a : a = Append(s, t)
    OBVIOUS
  <2>2. /\ a \in Seq(Seq(X)) /\ Len(s) \in Nat /\ Len(a) = Len(s) + 1 /\ a[Len(s) + 1] = t
        /\ \A i \in 1 .. Len(s) : a[i] = s[i]
    BY <2>1, AppendProperties
  <2>3. PICK f : Flattens(f, s) /\ FlattenSeq(s) = f[Len(s)]
    BY <1>2, FlattenRun
  <2>4. PICK g : Flattens(g, a) /\ FlattenSeq(a) = g[Len(a)]
    <3>1. Len(a) > 0
      BY <2>2
    <3>2. QED
      BY <2>2, <3>1, FlattenRun
  <2>5. f[1] = s[1] /\ \A i \in 2 .. Len(s) : f[i] = f[i - 1] \o s[i]
    BY <1>2, <2>3, FlattensIs
  <2>6. g[1] = a[1] /\ \A i \in 2 .. Len(a) : g[i] = g[i - 1] \o a[i]
    <3>1. Len(a) > 0
      BY <2>2
    <3>2. QED
      BY <2>2, <2>4, <3>1, FlattensIs
  <2> DEFINE T == {i \in Nat : i # 0 => f[i] = g[i]}
  <2>7. 0 \in T
    OBVIOUS
  <2>8. ASSUME NEW i \in 1 .. Len(s), i - 1 \in T
        PROVE  i \in T
    <3>1. CASE i = 1
      <4>1. a[1] = s[1]
        BY <1>2, <2>2
      <4>2. QED
        BY <2>5, <2>6, <3>1, <4>1
    <3>2. CASE i # 1
      <4>1. i \in 2 .. Len(s) /\ i \in 2 .. Len(a) /\ i - 1 \in Nat /\ i - 1 # 0
        BY <2>2, <3>2
      <4>2. f[i - 1] = g[i - 1] /\ a[i] = s[i]
        BY <2>2, <2>8, <4>1
      <4>3. f[i] = g[i]
        BY <2>5, <2>6, <4>1, <4>2
      <4>4. QED
        BY <4>3
    <3>3. QED
      BY <3>1, <3>2
  <2>9. Len(s) \in T
    <3> HIDE DEF T
    <3>1. QED
      BY <2>2, <2>7, <2>8, UpToInduction
  <2>10. f[Len(s)] = g[Len(s)]
    BY <1>2, <2>2, <2>9
  <2>11. Len(a) \in 2 .. Len(a) /\ Len(a) - 1 = Len(s)
    BY <1>2, <2>2
  <2>12. QED
    BY <2>1, <2>2, <2>3, <2>4, <2>6, <2>10, <2>11
<1>3. ASSUME NEW t \in Seq(X)
      PROVE  FlattenSeq(Append(<<>>, t)) = t
  <2>1. PICK a : a = Append(<<>>, t)
    OBVIOUS
  <2>2. a \in Seq(Seq(X)) /\ Len(a) = 1 /\ a[1] = t
    BY <2>1
  <2>3. PICK g : Flattens(g, a) /\ FlattenSeq(a) = g[Len(a)]
    <3>1. Len(a) > 0
      BY <2>2
    <3>2. QED
      BY <2>2, <3>1, FlattenRun
  <2>4. g[1] = a[1]
    <3>1. Len(a) > 0
      BY <2>2
    <3>2. QED
      BY <2>2, <2>3, <3>1, FlattensIs
  <2>5. QED
    BY <2>1, <2>2, <2>3, <2>4
<1>4. QED
  BY <1>1, <1>2, <1>3

\* What FlattenSeq gives is made of the members of its parts.
LEMMA FlattenTexts ==
  ASSUME NEW X
  PROVE  \A s \in Seq(Seq(X)) : FlattenSeq(s) \in Seq(X)
<1> DEFINE T == {s \in Seq(Seq(X)) : FlattenSeq(s) \in Seq(X)}
<1>1. <<>> \in T
  <2>1. <<>> \in Seq(Seq(X)) /\ <<>> \in Seq(X)
    OBVIOUS
  <2>2. QED
    BY <2>1, FlattenAppend
<1>2. ASSUME NEW s \in Seq(Seq(X)), NEW t \in Seq(X), s \in T
      PROVE  Append(s, t) \in T
  <2>1. Append(s, t) \in Seq(Seq(X)) /\ FlattenSeq(s) \in Seq(X)
    BY <1>2, AppendProperties
  <2>2. CASE s = <<>>
    BY <2>1, <2>2, FlattenAppend
  <2>3. CASE s # <<>>
    <3>1. Len(s) > 0
      BY <2>3
    <3>2. PICK u : u = FlattenSeq(s)
      OBVIOUS
    <3>3. u \o t \in Seq(X)
      BY <2>1, <3>2
    <3>4. FlattenSeq(Append(s, t)) = u \o t
      BY <3>1, <3>2, FlattenAppend
    <3>5. QED
      BY <2>1, <3>3, <3>4
  <2>4. QED
    BY <2>2, <2>3
<1>3. Seq(Seq(X)) \subseteq T
  <2> HIDE DEF T
  <2>1. QED
    BY <1>1, <1>2, SeqInductionSet
<1>4. QED
  BY <1>3

\* A member of a header stands for entries with a key.
LEMMA MemberEntries ==
  ASSUME NEW raw \in HeaderTexts
  PROVE  ParseMember(raw) \in Seq(Entries)
<1>1. PICK member : member = trim_php(raw)
  OBVIOUS
<1>2. PICK pair : pair = trim_php(TextBefore(member, ";"))
  OBVIOUS
<1>3. PICK key : key = trim_php(url_decode(trim_php(TextBefore(pair, "="))))
  OBVIOUS
<1>4. PICK value : value = trim_php(url_decode(trim_php(TextAfter(pair, "="))))
  OBVIOUS
<1>5. PICK meta : meta = trim_php(TextAfter(member, ";"))
  OBVIOUS
<1>6. member \in Seq(HeaderChars)
  BY <1>1, TrimText DEF HeaderTexts
<1>7. pair \in Seq(HeaderChars)
  BY <1>2, <1>6, CutText, TrimText
<1>8. key \in Seq(Chars)
  <2>1. PICK w : w = trim_php(TextBefore(pair, "="))
    OBVIOUS
  <2>2. w \in HeaderTexts
    BY <1>7, <2>1, CutText, TrimText DEF HeaderTexts
  <2>3. url_decode(w) \in Seq(Chars)
    BY <2>2, CodeTexts DEF Texts
  <2>4. QED
    BY <1>3, <2>1, <2>3, TrimText
<1>9. value \in Seq(Chars)
  <2>1. PICK w : w = trim_php(TextAfter(pair, "="))
    OBVIOUS
  <2>2. w \in HeaderTexts
    BY <1>7, <2>1, CutText, TrimText DEF HeaderTexts
  <2>3. url_decode(w) \in Seq(Chars)
    BY <2>2, CodeTexts DEF Texts
  <2>4. QED
    BY <1>4, <2>1, <2>3, TrimText
<1>10. meta \in Seq(HeaderChars)
  BY <1>5, <1>6, CutText, TrimText
<1>11. PICK m : m = IF is_php_empty(meta) THEN <<>> ELSE meta
  OBVIOUS
<1>12. m \in HeaderTexts
  BY <1>10, <1>11 DEF HeaderTexts
<1>13. Entry(key, value, m) \in Entries
  BY <1>8, <1>9, <1>12 DEF Entry, Entries, Texts
<1>14. ParseMember(raw) = <<>> \/ ParseMember(raw) = <<Entry(key, value, m)>>
  BY <1>1, <1>2, <1>3, <1>4, <1>5, <1>11, Zenon DEF ParseMember
<1>15. <<>> \in Seq(Entries) /\ <<Entry(key, value, m)>> \in Seq(Entries)
  BY <1>13
<1>16. QED
  BY <1>14, <1>15

Baggages == {b \in Seq(Entries) : Baggage(b)}

\* Baggages and the calls of the builder.
LEMMA BaggageSteps ==
  <<>> \in Baggages /\ \A b \in Baggages, x \in Entries : set_entry(b, x) \in Baggages
<1>1. <<>> \in Baggages
  BY EmptyBaggage DEF Baggages, Baggage
<1>2. \A b \in Baggages, x \in Entries : set_entry(b, x) \in Baggages
  BY SetEntryBaggage DEF Baggages, Baggage
<1>3. QED
  BY <1>1, <1>2

\* The run of a builder that is given entries one by one.
LEMMA SetRun ==
  ASSUME NEW s \in Seq(Entries)
  PROVE  \E r : /\ r[0] = <<>>
                /\ \A i \in 1 .. Len(s) : r[i] = set_entry(r[i - 1], s[i])
                /\ set_all(s) = r[Len(s)]
<1>1. PICK n : n = Len(s)
  OBVIOUS
<1>2. n \in Nat /\ DOMAIN s = 1 .. n /\ \A i \in 1 .. n : s[i] \in Entries
  BY <1>1
<1>3. PICK F : F = [p \in Baggages \X Nat |->
                     IF p[2] \in 1 .. n THEN set_entry(p[1], s[p[2]]) ELSE p[1]]
  OBVIOUS
<1>4. F \in [Baggages \X Nat -> Baggages]
  BY <1>2, <1>3, BaggageSteps
<1>5. PICK g : Solves(g, n, Baggages, <<>>, F)
  BY <1>2, <1>4, FoldExists, BaggageSteps
<1> DEFINE E(h) == h = [u \in SUBSET DOMAIN s |->
                         IF u = {} THEN <<>>
                         ELSE set_entry(h[u \ {Max(u)}], s[Max(u)])]
<1>6. E(g)
  <2>1. \A a \in Baggages, i \in 1 .. n : F[<<a, i>>] = set_entry(a, s[i])
    BY <1>2, <1>3
  <2>2. /\ g \in [SUBSET (1 .. n) -> Baggages]
        /\ \A u \in SUBSET (1 .. n) :
             g[u] = IF u = {} THEN <<>> ELSE F[<<g[u \ {Max(u)}], Max(u)>>]
    BY <1>5 DEF Solves
  <2>3. \A u \in SUBSET (1 .. n) :
          g[u] = IF u = {} THEN <<>>
                 ELSE set_entry(g[u \ {Max(u)}], s[Max(u)])
    BY <1>2, <2>1, <2>2, MaxInside
  <2>4. g = [u \in SUBSET (1 .. n) |-> g[u]]
    BY <2>2
  <2>5. QED
    BY <1>2, <2>3, <2>4
<1> HIDE DEF E
<1>7. PICK it : it = (CHOOSE h : E(h))
  OBVIOUS
<1>8. E(it)
  BY <1>6, <1>7
<1>9. set_all(s) = it[1 .. n]
  BY <1>2, <1>7 DEF set_all, FoldLeft, MapThenFoldSet, E
<1> DEFINE r == [k \in 0 .. n |-> it[1 .. k]]
<1>10. r[0] = <<>>
  BY <1>2, <1>8, PrefixSets DEF E
<1>11. ASSUME NEW i \in 1 .. n
       PROVE  r[i] = set_entry(r[i - 1], s[i])
  <2>1. /\ 1 .. i \in SUBSET (1 .. n) /\ 1 .. i # {}
        /\ Max(1 .. i) = i /\ (1 .. i) \ {i} = 1 .. (i - 1)
    BY <1>2, PrefixSets
  <2>2. it[1 .. i] = set_entry(it[(1 .. i) \ {Max(1 .. i)}], s[Max(1 .. i)])
    BY <1>2, <1>8, <2>1 DEF E
  <2>3. r[i] = it[1 .. i] /\ r[i - 1] = it[1 .. (i - 1)]
    BY <1>2
  <2>4. QED
    BY <2>1, <2>2, <2>3
<1>12. set_all(s) = r[n]
  BY <1>2, <1>9
<1> HIDE DEF r
<1>13. QED
  BY <1>1, <1>10, <1>11, <1>12

\* One entry more.
LEMMA SetAppend ==
  /\ set_all(<<>>) = <<>>
  /\ \A s \in Seq(Entries), x \in Entries : set_all(Append(s, x)) = set_entry(set_all(s), x)
<1>1. set_all(<<>>) = <<>>
  <2>1. <<>> \in Seq(Entries) /\ Len(<<>>) = 0
    OBVIOUS
  <2>2. QED
    BY <2>1, SetRun
<1>2. ASSUME NEW s \in Seq(Entries), NEW x \in Entries
      PROVE  set_all(Append(s, x)) = set_entry(set_all(s), x)
  <2>1. PICK t : t = Append(s, x)
    OBVIOUS
  <2>2. /\ t \in Seq(Entries) /\ Len(t) = Len(s) + 1 /\ t[Len(s) + 1] = x /\ Len(s) \in Nat
        /\ \A i \in 1 .. Len(s) : t[i] = s[i] /\ i \in 1 .. Len(t)
        /\ Len(s) + 1 \in 1 .. Len(t) /\ (Len(s) + 1) - 1 = Len(s)
    BY <2>1, AppendProperties
  <2>3. PICK q : /\ q[0] = <<>>
                 /\ \A i \in 1 .. Len(s) : q[i] = set_entry(q[i - 1], s[i])
                 /\ set_all(s) = q[Len(s)]
    BY SetRun
  <2>4. PICK r : /\ r[0] = <<>>
                 /\ \A i \in 1 .. Len(t) : r[i] = set_entry(r[i - 1], t[i])
                 /\ set_all(t) = r[Len(t)]
    BY <2>2, SetRun
  <2> DEFINE T == {i \in Nat : r[i] = q[i]}
  <2>5. 0 \in T
    BY <2>3, <2>4
  <2>6. \A i \in 1 .. Len(s) : i - 1 \in T => i \in T
    BY <2>2, <2>3, <2>4
  <2>7. Len(s) \in T
    <3> HIDE DEF T
    <3>1. QED
      BY <2>2, <2>5, <2>6, UpToInduction
  <2>8. r[Len(s) + 1] = set_entry(r[Len(s)], x)
    BY <2>2, <2>4
  <2>9. QED
    BY <2>1, <2>2, <2>3, <2>4, <2>7, <2>8
<1>3. QED
  BY <1>1, <1>2

\* Entries whose keys differ are set as they are.
LEMMA SetAllBaggage ==
  \A s \in Seq(Entries) : set_all(s) \in Baggages /\ (Baggage(s) => set_all(s) = s)
<1> DEFINE T == {s \in Seq(Entries) : set_all(s) \in Baggages /\ (Baggage(s) => set_all(s) = s)}
<1>1. <<>> \in T
  <2>1. set_all(<<>>) = <<>> /\ <<>> \in Baggages
    BY SetAppend, BaggageSteps, Zenon
  <2>2. <<>> \in Seq(Entries)
    OBVIOUS
  <2>3. QED
    BY <2>1, <2>2
<1>2. ASSUME NEW s \in Seq(Entries), NEW x \in Entries, s \in T
      PROVE  Append(s, x) \in T
  <2>1. PICK a, b : a = Append(s, x) /\ b = set_all(s)
    OBVIOUS
  <2>2. b \in Baggages /\ (Baggage(s) => b = s)
    BY <1>2, <2>1
  <2>3. set_all(a) = set_entry(b, x)
    BY <2>1, SetAppend
  <2>4. set_entry(b, x) \in Baggages /\ a \in Seq(Entries)
    BY <2>1, <2>2, BaggageSteps, AppendProperties
  <2>5. ASSUME Baggage(a)
        PROVE  set_entry(b, x) = a
    <3>1. /\ Len(s) \in Nat /\ Len(a) = Len(s) + 1 /\ a[Len(s) + 1] = x
          /\ \A i \in 1 .. Len(s) : a[i] = s[i] /\ i \in 1 .. Len(a)
          /\ Len(s) + 1 \in 1 .. Len(a)
      BY <2>1, AppendProperties
    <3>2. UniqueKeys(s) /\ \A i \in 1 .. Len(s) : s[i].key # x.key
      BY <2>1, <2>5, UniqueAppend DEF Baggage
    <3>3. x.key # <<>> /\ \A i \in 1 .. Len(s) : s[i].key # <<>>
      BY <2>5, <3>1 DEF Baggage
    <3>4. Baggage(s)
      BY <3>2, <3>3 DEF Baggage
    <3>5. set_entry(s, x) = Append(s, x)
      BY <3>2, <3>3, <3>4, SetEntryBaggage
    <3>6. QED
      BY <2>1, <2>2, <3>4, <3>5
  <2>6. QED
    BY <2>1, <2>3, <2>4, <2>5
<1>3. Seq(Entries) \subseteq T
  <2> HIDE DEF T
  <2>1. QED
    BY <1>1, <1>2, SeqInductionSet
<1>4. QED
  BY <1>3

\* The lesser of two lengths.
LEMMA MinTwo ==
  ASSUME NEW a \in Nat, NEW b \in Nat
  PROVE  Min({a, b}) \in Nat /\ Min({a, b}) <= a /\ Min({a, b}) <= b
BY DEF Min

\* Whatever the header, what the parser makes of it is a baggage.
LEMMA ParsedBaggage ==
  ASSUME NEW text \in HeaderTexts
  PROVE  parse_into_builder(text) \in Baggages
<1>1. PICK ms : ms = Split(text)
  OBVIOUS
<1>2. ms \in Seq(HeaderTexts) /\ DOMAIN ms = 1 .. Len(ms) /\ Len(ms) \in Nat
  BY <1>1, SplitPieces DEF Pieces, HeaderTexts
<1>3. PICK es : es = [i \in DOMAIN ms |-> ParseMember(ms[i])]
  OBVIOUS
<1>4. es \in Seq(Seq(Entries))
  <2>1. \A i \in 1 .. Len(ms) : ParseMember(ms[i]) \in Seq(Entries)
    BY <1>2, MemberEntries
  <2>2. PICK Z : Z = Seq(Entries)
    OBVIOUS
  <2>3. es \in [1 .. Len(ms) -> Z]
    BY <1>2, <1>3, <2>1, <2>2
  <2>4. es \in Seq(Z)
    BY <1>2, <2>3
  <2>5. QED
    BY <2>2, <2>4
<1>5. PICK found : found = FlattenSeq(es)
  OBVIOUS
<1>6. found \in Seq(Entries) /\ Len(found) \in Nat /\ MaxEntries \in Nat
  BY <1>4, <1>5, FlattenTexts, BoundsAssumption
<1>7. PICK n : n = Min({Len(found), MaxEntries})
  OBVIOUS
<1>8. n \in Nat /\ n <= Len(found)
  BY <1>6, <1>7, MinTwo
<1>9. SubSeq(found, 1, n) \in Seq(Entries)
  BY <1>6, <1>8, PartOf
<1>10. set_all(SubSeq(found, 1, n)) \in Baggages
  BY <1>9, SetAllBaggage
<1>11. <<>> \in Baggages
  BY BaggageSteps
<1>12. parse_into_builder(text) = IF Bytes(text) > MaxBytes THEN <<>> ELSE set_all(SubSeq(found, 1, n))
  BY <1>1, <1>3, <1>5, <1>7 DEF parse_into_builder
<1>13. QED
  BY <1>10, <1>11, <1>12

-----------------------------------------------------------------------------
(* The propagators.                                                         *)

\* The SDK takes its own members, and what a script is shown when it reads them
\* elsewhere is what it is shown here, unless the SDK refused that.
SeenElsewhere(php) == IF SdkTakes(php) THEN php ELSE <<>>
SpanContexts == {sc \in [id : Ids, state : SdkStates, php : Seq(Members)] :
                   Sound(sc.php) /\ php_trace_state(sc.state) = SeenElsewhere(sc.php)}

\* The span context a reader has of sc.
Arrived(sc) == [sc EXCEPT !.php = SeenElsewhere(sc.php)]

Contexts == {cx \in [sc : SpanContexts, object : {"none", "recording", "nonrecording"},
                     baggage : Baggages] : cx.object # "none" => Valid(cx.sc)}

\* The carrier holds the span context sc, and the baggage b, if there is one.
HoldsTrace(c, sc) ==
  Valid(sc) => Holds(c, "traceparent", sc.id) /\ Holds(c, "tracestate", header(sc.state))
HoldsBaggage(c, b) == b # <<>> => Holds(c, "baggage", baggage_header(b))

\* The SDK's trace state, with what a script is shown of it.
LEMMA ReadContext ==
  ASSUME NEW id \in Ids, NEW state \in SdkStates
  PROVE  LET sc == SpanContext(id, state, php_trace_state(state))
         IN  sc \in SpanContexts /\ sc.id = id /\ sc.state = state /\ sc.php = php_trace_state(state)
<1>1. PICK php : php = php_trace_state(state)
  OBVIOUS
<1>2. Sound(php) /\ SdkTakes(php)
  BY <1>1, ShownTaken
<1>3. php \in Seq(Members) /\ SeenElsewhere(php) = php
  BY <1>2 DEF Sound, SeenElsewhere
<1>4. PICK sc : sc = SpanContext(id, state, php)
  OBVIOUS
<1>5. sc \in [id : Ids, state : SdkStates, php : Seq(Members)] /\ sc.id = id /\ sc.state = state /\ sc.php = php
  BY <1>3, <1>4 DEF SpanContext
<1>6. QED
  BY <1>1, <1>2, <1>3, <1>4, <1>5 DEF SpanContexts

\* A trace state a script made, and what the SDK reads of it.
LEMMA MadeContext ==
  ASSUME NEW id \in Ids, NEW ms, Sound(ms)
  PROVE  LET sc == SpanContext(id, otel_trace_state_from_header(header(ms)), ms)
         IN  sc \in SpanContexts /\ sc.id = id
<1>1. ms \in Seq(Members) /\ header(ms) \in Seq(RawMembers)
  BY SpellsItself DEF Sound
<1>2. PICK state : state = otel_trace_state_from_header(header(ms))
  OBVIOUS
<1>3. state \in SdkStates /\ state = IF SdkTakes(ms) THEN ms ELSE <<>>
  BY <1>1, <1>2, SdkReads, SdkReadsHeader
<1>4. php_trace_state(ms) = ms /\ php_trace_state(<<>>) = <<>>
  BY SpellsItself, EmptySound DEF php_trace_state
<1>5. php_trace_state(state) = SeenElsewhere(ms)
  BY <1>3, <1>4 DEF SeenElsewhere
<1>6. PICK sc : sc = SpanContext(id, state, ms)
  OBVIOUS
<1>7. sc \in [id : Ids, state : SdkStates, php : Seq(Members)] /\ sc.id = id /\ sc.state = state /\ sc.php = ms
  BY <1>1, <1>3, <1>6 DEF SpanContext
<1>8. QED
  BY <1>2, <1>5, <1>6, <1>7 DEF SpanContexts

\* The names of headers and what may stand under each.
LEMMA NameFacts ==
  /\ {"traceparent", "tracestate", "baggage"} = Names
  /\ ValuesOf("traceparent") = Ids /\ ValuesOf("tracestate") = Seq(RawMembers)
  /\ ValuesOf("baggage") = HeaderTexts
BY DEF Names, ValuesOf, HeaderTexts

\* The SDK reads from the headers the span context they hold, and a script is
\* shown what it was shown before, if the SDK takes that.
LEMMA SdkExtracts ==
  ASSUME NEW sc \in SpanContexts, NEW c \in Seq(Headers)
  PROVE  LET got == SdkExtract(sc, get(c, "traceparent"), get(c, "tracestate"))
         IN  /\ got \in SpanContexts
             /\ \A t \in SpanContexts : Valid(t) /\ HoldsTrace(c, t) => got = Arrived(t)
<1>1. PICK p, s : p = get(c, "traceparent") /\ s = get(c, "tracestate")
  OBVIOUS
<1>2. /\ p = <<>> \/ \E v \in Ids : p = <<v>>
      /\ \A v : Holds(c, "traceparent", v) => p = <<v>>
  BY <1>1, GetIs, NameFacts
<1>3. /\ s = <<>> \/ \E v \in Seq(RawMembers) : s = <<v>>
      /\ \A v : Holds(c, "tracestate", v) => s = <<v>>
  BY <1>1, GetIs, NameFacts
<1>4. PICK got : got = SdkExtract(sc, p, s)
  OBVIOUS
<1>5. got \in SpanContexts
  <2>1. CASE p = <<>> \/ p = <<0>>
    BY <1>4, <2>1 DEF SdkExtract
  <2>2. CASE ~(p = <<>> \/ p = <<0>>)
    <3>1. PICK v \in Ids : p = <<v>>
      BY <1>2, <2>2
    <3>2. Head(p) = v
      BY <3>1
    <3>3. PICK st : st = IF s = <<>> THEN <<>> ELSE otel_trace_state_from_header(Head(s))
      OBVIOUS
    <3>4. st \in SdkStates
      <4>1. CASE s = <<>>
        BY <3>3, <4>1 DEF SdkStates, SdkTakes
      <4>2. CASE s # <<>>
        <5>1. PICK w \in Seq(RawMembers) : s = <<w>>
          BY <1>3, <4>2
        <5>2. Head(s) = w
          BY <5>1
        <5>3. QED
          BY <3>3, <4>2, <5>2, SdkReads
      <4>3. QED
        BY <4>1, <4>2
    <3>5. got = SpanContext(v, st, php_trace_state(st))
      BY <1>4, <2>2, <3>2, <3>3 DEF SdkExtract
    <3>6. QED
      BY <3>1, <3>4, <3>5, ReadContext
  <2>3. QED
    BY <2>1, <2>2
<1>6. ASSUME NEW t \in SpanContexts, Valid(t), HoldsTrace(c, t)
      PROVE  got = Arrived(t)
  <2>1. /\ t.id \in Ids /\ t.id > 0 /\ t.state \in Seq(Members) /\ SdkTakes(t.state)
        /\ t = [id |-> t.id, state |-> t.state, php |-> t.php]
        /\ php_trace_state(t.state) = SeenElsewhere(t.php)
    BY <1>6 DEF SpanContexts, SdkStates, Valid
  <2>2. PICK i, h : i = t.id /\ h = header(t.state)
    OBVIOUS
  <2>3. p = <<i>> /\ s = <<h>>
    BY <1>2, <1>3, <1>6, <2>2 DEF HoldsTrace
  <2>4. i # 0
    BY <2>1, <2>2
  <2>5. p # <<>> /\ p # <<0>> /\ s # <<>> /\ Head(p) = i /\ Head(s) = h
    BY <2>3, <2>4
  <2>6. PICK st : st = otel_trace_state_from_header(h)
    OBVIOUS
  <2>7. got = SpanContext(i, st, php_trace_state(st))
    BY <1>4, <2>5, <2>6 DEF SdkExtract
  <2>8. st = t.state
    BY <2>1, <2>2, <2>6, SdkReadsHeader
  <2>9. got = [id |-> t.id, state |-> t.state, php |-> SeenElsewhere(t.php)]
    BY <2>1, <2>2, <2>7, <2>8 DEF SpanContext
  <2>10. Arrived(t) = [id |-> t.id, state |-> t.state, php |-> SeenElsewhere(t.php)]
    BY <2>1 DEF Arrived
  <2>11. QED
    BY <2>9, <2>10
<1>7. QED
  BY <1>1, <1>4, <1>5, <1>6

\* Trace extraction gives a context, and the span context the carrier holds.
LEMMA ExtractTraces ==
  ASSUME NEW cx \in Contexts, NEW c \in Seq(Headers)
  PROVE  /\ extract_trace(c, cx) \in Contexts
         /\ \A t \in SpanContexts :
              Valid(t) /\ HoldsTrace(c, t) => extract_trace(c, cx).sc = Arrived(t)
<1>1. PICK got : got = SdkExtract(cx.sc, get(c, "traceparent"), get(c, "tracestate"))
  OBVIOUS
<1>2. cx.sc \in SpanContexts
  BY DEF Contexts
<1>3. /\ got \in SpanContexts
      /\ \A t \in SpanContexts : Valid(t) /\ HoldsTrace(c, t) => got = Arrived(t)
  BY <1>1, <1>2, SdkExtracts
<1>4. extract_trace(c, cx) = IF Valid(got) THEN [cx EXCEPT !.sc = got, !.object = "nonrecording"] ELSE cx
  BY <1>1 DEF extract_trace
<1>5. CASE Valid(got)
  <2>1. /\ [cx EXCEPT !.sc = got, !.object = "nonrecording"] \in Contexts
        /\ [cx EXCEPT !.sc = got, !.object = "nonrecording"].sc = got
    BY <1>3, <1>5 DEF Contexts
  <2>2. QED
    BY <1>3, <1>4, <1>5, <2>1
<1>6. CASE ~Valid(got)
  <2>1. \A t \in SpanContexts : Valid(Arrived(t)) <=> Valid(t)
    BY DEF SpanContexts, Arrived, Valid
  <2>2. QED
    BY <1>3, <1>4, <1>6, <2>1
<1>7. QED
  BY <1>5, <1>6

\* Baggage extraction gives a context, and what the header the carrier holds is read as.
LEMMA ExtractBaggages ==
  ASSUME NEW cx \in Contexts, NEW c \in Seq(Headers)
  PROVE  /\ extract_baggage(c, cx) \in Contexts
         /\ \A b \in Baggages : b # <<>> /\ HoldsBaggage(c, b) =>
              extract_baggage(c, cx).baggage = parse_into_builder(baggage_header(b))
<1>1. PICK text : text = get(c, "baggage")
  OBVIOUS
<1>2. /\ text = <<>> \/ \E v \in HeaderTexts : text = <<v>>
      /\ \A v : Holds(c, "baggage", v) => text = <<v>>
  BY <1>1, GetIs, NameFacts
<1>3. /\ text = <<>> \/ is_php_empty(Head(text)) => extract_baggage(c, cx) = cx
      /\ ~(text = <<>> \/ is_php_empty(Head(text))) =>
           extract_baggage(c, cx) = [cx EXCEPT !.baggage = parse_into_builder(Head(text))]
  BY <1>1 DEF extract_baggage
<1>4. extract_baggage(c, cx) \in Contexts
  <2>1. CASE text = <<>> \/ is_php_empty(Head(text))
    BY <1>3, <2>1
  <2>2. CASE ~(text = <<>> \/ is_php_empty(Head(text)))
    <3>1. PICK v \in HeaderTexts : text = <<v>>
      BY <1>2, <2>2
    <3>2. Head(text) = v
      BY <3>1
    <3>3. PICK b : b = parse_into_builder(v)
      OBVIOUS
    <3>4. b \in Baggages
      BY <3>1, <3>3, ParsedBaggage
    <3>5. [cx EXCEPT !.baggage = b] \in Contexts
      BY <3>4 DEF Contexts
    <3>6. QED
      BY <1>3, <2>2, <3>2, <3>3, <3>5
  <2>3. QED
    BY <2>1, <2>2
<1>5. ASSUME NEW b \in Baggages, b # <<>>, HoldsBaggage(c, b)
      PROVE  extract_baggage(c, cx).baggage = parse_into_builder(baggage_header(b))
  <2>1. PICK h : h = baggage_header(b)
    OBVIOUS
  <2>2. text = <<h>>
    BY <1>2, <1>5, <2>1 DEF HoldsBaggage
  <2>3. Head(text) = h /\ text # <<>>
    BY <2>2
  <2>4. ~is_php_empty(h)
    BY <1>5, <2>1, HeaderOfBaggage DEF Baggages
  <2>5. extract_baggage(c, cx) = [cx EXCEPT !.baggage = parse_into_builder(h)]
    BY <1>3, <2>3, <2>4
  <2>6. [cx EXCEPT !.baggage = parse_into_builder(h)].baggage = parse_into_builder(h)
    BY DEF Contexts
  <2>7. QED
    BY <2>1, <2>5, <2>6
<1>6. QED
  BY <1>4, <1>5

\* Trace injection leaves the carrier holding the span context and the same baggage.
LEMMA InjectTraces ==
  ASSUME NEW cx \in Contexts, NEW c \in Seq(Headers), NEW first
  PROVE  /\ inject_trace(c, cx, first) \in Seq(Headers)
         /\ ~Valid(cx.sc) => inject_trace(c, cx, first) = c
         /\ OneSpelling(c) =>
              /\ OneSpelling(inject_trace(c, cx, first))
              /\ HoldsTrace(inject_trace(c, cx, first), cx.sc)
              /\ \A b : HoldsBaggage(c, b) => HoldsBaggage(inject_trace(c, cx, first), b)
<1>1. PICK i, h : i = cx.sc.id /\ h = header(cx.sc.state)
  OBVIOUS
<1>2. i \in ValuesOf("traceparent") /\ "traceparent" \in Names
  BY <1>1, NameFacts DEF Contexts, SpanContexts
<1>3. h \in ValuesOf("tracestate") /\ "tracestate" \in Names
  <2>1. cx.sc.state \in Seq(Members)
    BY DEF Contexts, SpanContexts, SdkStates
  <2>2. QED
    BY <1>1, <2>1, HeaderRaw, NameFacts
<1>4. CASE ~Valid(cx.sc)
  <2>1. inject_trace(c, cx, first) = c
    BY <1>4 DEF inject_trace
  <2>2. QED
    BY <1>4, <2>1 DEF HoldsTrace
<1>5. CASE Valid(cx.sc) /\ first = "traceparent"
  <2>1. PICK x, y : x = set(c, "traceparent", i) /\ y = set(x, "tracestate", h)
    OBVIOUS
  <2>2. inject_trace(c, cx, first) = y
    BY <1>1, <1>5, <2>1 DEF inject_trace
  <2>3. /\ x \in Seq(Headers)
        /\ OneSpelling(c) => /\ OneSpelling(x) /\ Holds(x, "traceparent", i)
                             /\ \A n, w : n # "traceparent" /\ Holds(c, n, w) => Holds(x, n, w)
    BY <1>2, <2>1, SetHolds
  <2>4. /\ y \in Seq(Headers)
        /\ OneSpelling(x) => /\ OneSpelling(y) /\ Holds(y, "tracestate", h)
                             /\ \A n, w : n # "tracestate" /\ Holds(x, n, w) => Holds(y, n, w)
    BY <1>3, <2>1, <2>3, SetHolds
  <2>5. QED
    BY <1>1, <1>5, <2>2, <2>3, <2>4 DEF HoldsTrace, HoldsBaggage
<1>6. CASE Valid(cx.sc) /\ first # "traceparent"
  <2>1. PICK x, y : x = set(c, "tracestate", h) /\ y = set(x, "traceparent", i)
    OBVIOUS
  <2>2. inject_trace(c, cx, first) = y
    BY <1>1, <1>6, <2>1 DEF inject_trace
  <2>3. /\ x \in Seq(Headers)
        /\ OneSpelling(c) => /\ OneSpelling(x) /\ Holds(x, "tracestate", h)
                             /\ \A n, w : n # "tracestate" /\ Holds(c, n, w) => Holds(x, n, w)
    BY <1>3, <2>1, SetHolds
  <2>4. /\ y \in Seq(Headers)
        /\ OneSpelling(x) => /\ OneSpelling(y) /\ Holds(y, "traceparent", i)
                             /\ \A n, w : n # "traceparent" /\ Holds(x, n, w) => Holds(y, n, w)
    BY <1>2, <2>1, <2>3, SetHolds
  <2>5. QED
    BY <1>1, <1>6, <2>2, <2>3, <2>4 DEF HoldsTrace, HoldsBaggage
<1>7. QED
  BY <1>4, <1>5, <1>6

\* Baggage injection leaves the carrier holding the baggage and the same span context.
LEMMA InjectBaggages ==
  ASSUME NEW cx \in Contexts, NEW c \in Seq(Headers)
  PROVE  /\ inject_baggage(c, cx) \in Seq(Headers)
         /\ cx.baggage = <<>> => inject_baggage(c, cx) = c
         /\ OneSpelling(c) =>
              /\ OneSpelling(inject_baggage(c, cx))
              /\ HoldsBaggage(inject_baggage(c, cx), cx.baggage)
              /\ \A t : HoldsTrace(c, t) => HoldsTrace(inject_baggage(c, cx), t)
<1>1. PICK h : h = baggage_header(cx.baggage)
  OBVIOUS
<1>2. cx.baggage \in Seq(Entries)
  BY DEF Contexts, Baggages
<1>3. h \in HeaderTexts /\ (cx.baggage # <<>> => ~is_php_empty(h))
  BY <1>1, <1>2, HeaderOfBaggage
<1>4. inject_baggage(c, cx) = IF is_php_empty(h) THEN c ELSE set(c, "baggage", h)
  BY <1>1 DEF inject_baggage
<1>5. CASE cx.baggage = <<>>
  <2>1. h = <<>>
    BY <1>1, <1>5, JoinAppend
  <2>2. is_php_empty(h)
    BY <2>1 DEF is_php_empty
  <2>3. QED
    BY <1>4, <1>5, <2>2 DEF HoldsBaggage
<1>6. CASE cx.baggage # <<>>
  <2>1. PICK x : x = set(c, "baggage", h)
    OBVIOUS
  <2>2. inject_baggage(c, cx) = x
    BY <1>3, <1>4, <1>6, <2>1
  <2>3. /\ x \in Seq(Headers)
        /\ OneSpelling(c) => /\ OneSpelling(x) /\ Holds(x, "baggage", h)
                             /\ \A n, w : n # "baggage" /\ Holds(c, n, w) => Holds(x, n, w)
    BY <1>3, <2>1, SetHolds, NameFacts
  <2>4. QED
    BY <1>1, <1>6, <2>2, <2>3 DEF HoldsTrace, HoldsBaggage
<1>7. QED
  BY <1>5, <1>6

\* The propagators one after the other.
LEMMA InjectRun ==
  ASSUME NEW cx \in Contexts, NEW c \in Seq(Headers), NEW first, NEW ps \in Seq({"trace", "baggage"})
  PROVE  \E r : /\ r[0] = c
                /\ \A i \in 1 .. Len(ps) : r[i] = (IF ps[i] = "trace" THEN inject_trace(r[i - 1], cx, first)
                                                   ELSE inject_baggage(r[i - 1], cx))
                /\ inject(ps, c, cx, first) = r[Len(ps)]
<1>1. PICK n : n = Len(ps)
  OBVIOUS
<1>2. n \in Nat /\ DOMAIN ps = 1 .. n /\ \A i \in 1 .. n : ps[i] \in {"trace", "baggage"}
  BY <1>1
<1>3. PICK F : F = [p \in Seq(Headers) \X Nat |->
                     IF p[2] \in 1 .. n THEN (IF ps[p[2]] = "trace" THEN inject_trace(p[1], cx, first)
                                              ELSE inject_baggage(p[1], cx)) ELSE p[1]]
  OBVIOUS
<1>4. F \in [Seq(Headers) \X Nat -> Seq(Headers)]
  BY <1>2, <1>3, InjectTraces, InjectBaggages
<1>5. PICK g : Solves(g, n, Seq(Headers), c, F)
  BY <1>2, <1>4, FoldExists
<1> DEFINE E(h) == h = [u \in SUBSET DOMAIN ps |->
                         IF u = {} THEN c
                         ELSE (IF ps[Max(u)] = "trace" THEN inject_trace(h[u \ {Max(u)}], cx, first)
                               ELSE inject_baggage(h[u \ {Max(u)}], cx))]
<1>6. E(g)
  <2>1. \A a \in Seq(Headers), i \in 1 .. n : F[<<a, i>>] = (IF ps[i] = "trace" THEN inject_trace(a, cx, first)
                                                             ELSE inject_baggage(a, cx))
    BY <1>2, <1>3
  <2>2. /\ g \in [SUBSET (1 .. n) -> Seq(Headers)]
        /\ \A u \in SUBSET (1 .. n) :
             g[u] = IF u = {} THEN c ELSE F[<<g[u \ {Max(u)}], Max(u)>>]
    BY <1>5 DEF Solves
  <2>3. \A u \in SUBSET (1 .. n) :
          g[u] = IF u = {} THEN c
                 ELSE (IF ps[Max(u)] = "trace" THEN inject_trace(g[u \ {Max(u)}], cx, first)
                       ELSE inject_baggage(g[u \ {Max(u)}], cx))
    BY <1>2, <2>1, <2>2, MaxInside
  <2>4. g = [u \in SUBSET (1 .. n) |-> g[u]]
    BY <2>2
  <2>5. QED
    BY <1>2, <2>3, <2>4
<1> HIDE DEF E
<1>7. PICK it : it = (CHOOSE h : E(h))
  OBVIOUS
<1>8. E(it)
  BY <1>6, <1>7
<1>9. inject(ps, c, cx, first) = it[1 .. n]
  BY <1>2, <1>7 DEF inject, FoldLeft, MapThenFoldSet, E
<1> DEFINE r == [k \in 0 .. n |-> it[1 .. k]]
<1>10. r[0] = c
  BY <1>2, <1>8, PrefixSets DEF E
<1>11. ASSUME NEW i \in 1 .. n
       PROVE  r[i] = (IF ps[i] = "trace" THEN inject_trace(r[i - 1], cx, first) ELSE inject_baggage(r[i - 1], cx))
  <2>1. /\ 1 .. i \in SUBSET (1 .. n) /\ 1 .. i # {}
        /\ Max(1 .. i) = i /\ (1 .. i) \ {i} = 1 .. (i - 1)
    BY <1>2, PrefixSets
  <2>2. it[1 .. i] = (IF ps[Max(1 .. i)] = "trace" THEN inject_trace(it[(1 .. i) \ {Max(1 .. i)}], cx, first)
                      ELSE inject_baggage(it[(1 .. i) \ {Max(1 .. i)}], cx))
    BY <1>2, <1>8, <2>1 DEF E
  <2>3. r[i] = it[1 .. i] /\ r[i - 1] = it[1 .. (i - 1)]
    BY <1>2
  <2>4. QED
    BY <2>1, <2>2, <2>3
<1>12. inject(ps, c, cx, first) = r[n]
  BY <1>2, <1>9
<1> HIDE DEF r
<1>13. QED
  BY <1>1, <1>10, <1>11, <1>12

\* Extraction, one propagator after another.
LEMMA ExtractRun ==
  ASSUME NEW cx \in Contexts, NEW c \in Seq(Headers), NEW ps \in Seq({"trace", "baggage"})
  PROVE  \E r : /\ r[0] = cx
                /\ \A i \in 1 .. Len(ps) : r[i] = (IF ps[i] = "trace" THEN extract_trace(c, r[i - 1])
                                                   ELSE extract_baggage(c, r[i - 1]))
                /\ extract(ps, c, cx) = r[Len(ps)]
<1>1. PICK n : n = Len(ps)
  OBVIOUS
<1>2. n \in Nat /\ DOMAIN ps = 1 .. n /\ \A i \in 1 .. n : ps[i] \in {"trace", "baggage"}
  BY <1>1
<1>3. PICK F : F = [p \in Contexts \X Nat |->
                     IF p[2] \in 1 .. n THEN (IF ps[p[2]] = "trace" THEN extract_trace(c, p[1])
                                              ELSE extract_baggage(c, p[1])) ELSE p[1]]
  OBVIOUS
<1>4. F \in [Contexts \X Nat -> Contexts]
  BY <1>2, <1>3, ExtractTraces, ExtractBaggages
<1>5. PICK g : Solves(g, n, Contexts, cx, F)
  BY <1>2, <1>4, FoldExists
<1> DEFINE E(h) == h = [u \in SUBSET DOMAIN ps |->
                         IF u = {} THEN cx
                         ELSE (IF ps[Max(u)] = "trace" THEN extract_trace(c, h[u \ {Max(u)}])
                               ELSE extract_baggage(c, h[u \ {Max(u)}]))]
<1>6. E(g)
  <2>1. \A a \in Contexts, i \in 1 .. n : F[<<a, i>>] = (IF ps[i] = "trace" THEN extract_trace(c, a)
                                                         ELSE extract_baggage(c, a))
    BY <1>2, <1>3
  <2>2. /\ g \in [SUBSET (1 .. n) -> Contexts]
        /\ \A u \in SUBSET (1 .. n) :
             g[u] = IF u = {} THEN cx ELSE F[<<g[u \ {Max(u)}], Max(u)>>]
    BY <1>5 DEF Solves
  <2>3. \A u \in SUBSET (1 .. n) :
          g[u] = IF u = {} THEN cx
                 ELSE (IF ps[Max(u)] = "trace" THEN extract_trace(c, g[u \ {Max(u)}])
                       ELSE extract_baggage(c, g[u \ {Max(u)}]))
    BY <1>2, <2>1, <2>2, MaxInside
  <2>4. g = [u \in SUBSET (1 .. n) |-> g[u]]
    BY <2>2
  <2>5. QED
    BY <1>2, <2>3, <2>4
<1> HIDE DEF E
<1>7. PICK it : it = (CHOOSE h : E(h))
  OBVIOUS
<1>8. E(it)
  BY <1>6, <1>7
<1>9. extract(ps, c, cx) = it[1 .. n]
  BY <1>2, <1>7 DEF extract, FoldLeft, MapThenFoldSet, E
<1> DEFINE r == [k \in 0 .. n |-> it[1 .. k]]
<1>10. r[0] = cx
  BY <1>2, <1>8, PrefixSets DEF E
<1>11. ASSUME NEW i \in 1 .. n
       PROVE  r[i] = (IF ps[i] = "trace" THEN extract_trace(c, r[i - 1]) ELSE extract_baggage(c, r[i - 1]))
  <2>1. /\ 1 .. i \in SUBSET (1 .. n) /\ 1 .. i # {}
        /\ Max(1 .. i) = i /\ (1 .. i) \ {i} = 1 .. (i - 1)
    BY <1>2, PrefixSets
  <2>2. it[1 .. i] = (IF ps[Max(1 .. i)] = "trace" THEN extract_trace(c, it[(1 .. i) \ {Max(1 .. i)}])
                      ELSE extract_baggage(c, it[(1 .. i) \ {Max(1 .. i)}]))
    BY <1>2, <1>8, <2>1 DEF E
  <2>3. r[i] = it[1 .. i] /\ r[i - 1] = it[1 .. (i - 1)]
    BY <1>2
  <2>4. QED
    BY <2>1, <2>2, <2>3
<1>12. extract(ps, c, cx) = r[n]
  BY <1>2, <1>9
<1> HIDE DEF r
<1>13. QED
  BY <1>1, <1>10, <1>11, <1>12

\* What a MultiTextMapPropagator is made of.
LEMMA PropagatorKinds ==
  ASSUME NEW ps \in Propagators
  PROVE  /\ ps \in Seq({"trace", "baggage"})
         /\ \/ Len(ps) = 1 /\ ps[1] = "trace" /\ Range(ps) = {"trace"}
            \/ Len(ps) = 1 /\ ps[1] = "baggage" /\ Range(ps) = {"baggage"}
            \/ Len(ps) = 2 /\ ps[1] = "trace" /\ ps[2] = "baggage" /\ Range(ps) = {"trace", "baggage"}
            \/ Len(ps) = 2 /\ ps[1] = "baggage" /\ ps[2] = "trace" /\ Range(ps) = {"trace", "baggage"}
<1>1. CASE ps = <<"trace">>
  <2>1. ps \in Seq({"trace", "baggage"}) /\ Len(ps) = 1 /\ ps[1] = "trace" /\ DOMAIN ps = 1 .. 1
    BY <1>1
  <2>2. Range(ps) = {"trace"}
    BY <2>1 DEF Range
  <2>3. QED
    BY <2>1, <2>2
<1>2. CASE ps = <<"baggage">>
  <2>1. ps \in Seq({"trace", "baggage"}) /\ Len(ps) = 1 /\ ps[1] = "baggage" /\ DOMAIN ps = 1 .. 1
    BY <1>2
  <2>2. Range(ps) = {"baggage"}
    BY <2>1 DEF Range
  <2>3. QED
    BY <2>1, <2>2
<1>3. CASE ps = <<"trace", "baggage">>
  <2>1. /\ ps \in Seq({"trace", "baggage"}) /\ Len(ps) = 2 /\ ps[1] = "trace" /\ ps[2] = "baggage"
        /\ DOMAIN ps = 1 .. 2
    BY <1>3
  <2>2. Range(ps) = {"trace", "baggage"}
    BY <2>1 DEF Range
  <2>3. QED
    BY <2>1, <2>2
<1>4. CASE ps = <<"baggage", "trace">>
  <2>1. /\ ps \in Seq({"trace", "baggage"}) /\ Len(ps) = 2 /\ ps[1] = "baggage" /\ ps[2] = "trace"
        /\ DOMAIN ps = 1 .. 2
    BY <1>4
  <2>2. Range(ps) = {"trace", "baggage"}
    BY <2>1 DEF Range
  <2>3. QED
    BY <2>1, <2>2
<1>5. QED
  BY <1>1, <1>2, <1>3, <1>4 DEF Propagators

\* Injection by each of the four propagators.
LEMMA InjectIs ==
  ASSUME NEW cx \in Contexts, NEW c \in Seq(Headers), NEW first, NEW ps \in Propagators
  PROVE  \/ /\ inject(ps, c, cx, first) = inject_trace(c, cx, first)
            /\ "trace" \in Range(ps) /\ "baggage" \notin Range(ps)
         \/ /\ inject(ps, c, cx, first) = inject_baggage(c, cx)
            /\ "trace" \notin Range(ps) /\ "baggage" \in Range(ps)
         \/ /\ inject(ps, c, cx, first) = inject_baggage(inject_trace(c, cx, first), cx)
            /\ "trace" \in Range(ps) /\ "baggage" \in Range(ps)
         \/ /\ inject(ps, c, cx, first) = inject_trace(inject_baggage(c, cx), cx, first)
            /\ "trace" \in Range(ps) /\ "baggage" \in Range(ps)
<1>1. PICK r : /\ r[0] = c
               /\ \A i \in 1 .. Len(ps) :
                    r[i] = (IF ps[i] = "trace" THEN inject_trace(r[i - 1], cx, first)
                            ELSE inject_baggage(r[i - 1], cx))
               /\ inject(ps, c, cx, first) = r[Len(ps)]
  BY PropagatorKinds, InjectRun
<1>2. CASE Len(ps) = 1
  <2>1. r[1] = (IF ps[1] = "trace" THEN inject_trace(c, cx, first) ELSE inject_baggage(c, cx))
    <3>1. 1 \in 1 .. Len(ps) /\ 1 - 1 = 0
      BY <1>2
    <3>2. QED
      BY <1>1, <3>1
  <2>2. QED
    BY <1>1, <1>2, <2>1, PropagatorKinds
<1>3. CASE Len(ps) = 2
  <2>1. /\ 1 \in 1 .. Len(ps) /\ 1 - 1 = 0 /\ 2 \in 1 .. Len(ps) /\ 2 - 1 = 1
    BY <1>3
  <2>2. /\ r[1] = (IF ps[1] = "trace" THEN inject_trace(c, cx, first) ELSE inject_baggage(c, cx))
        /\ r[2] = (IF ps[2] = "trace" THEN inject_trace(r[1], cx, first) ELSE inject_baggage(r[1], cx))
    BY <1>1, <2>1
  <2>3. CASE ps[1] = "trace"
    <3>1. ps[2] # "trace" /\ "trace" \in Range(ps) /\ "baggage" \in Range(ps)
      BY <1>3, <2>3, PropagatorKinds, SMTT(30)
    <3>2. r[1] = inject_trace(c, cx, first) /\ r[2] = inject_baggage(r[1], cx)
      BY <2>2, <2>3, <3>1
    <3>3. QED
      BY <1>1, <1>3, <3>1, <3>2
  <2>4. CASE ps[1] # "trace"
    <3>1. ps[2] = "trace" /\ "trace" \in Range(ps) /\ "baggage" \in Range(ps)
      <4>1. Len(ps) # 1
        BY <1>3
      <4>2. QED
        BY <2>4, <4>1, PropagatorKinds, Zenon
    <3>2. r[1] = inject_baggage(c, cx) /\ r[2] = inject_trace(r[1], cx, first)
      BY <2>2, <2>4, <3>1
    <3>3. QED
      BY <1>1, <1>3, <3>1, <3>2
  <2>5. QED
    BY <2>3, <2>4
<1>4. QED
  BY <1>2, <1>3, PropagatorKinds

\* After injection the carrier holds what was sent, and what it still holds of before.
LEMMA InjectHolds ==
  ASSUME NEW cx \in Contexts, NEW c \in Seq(Headers), NEW first, NEW ps \in Propagators
  PROVE  LET out == inject(ps, c, cx, first)
         IN  /\ out \in Seq(Headers)
             /\ OneSpelling(c) =>
                  /\ OneSpelling(out)
                  /\ "trace" \in Range(ps) => HoldsTrace(out, cx.sc)
                  /\ "baggage" \in Range(ps) => HoldsBaggage(out, cx.baggage)
                  /\ ~("trace" \in Range(ps) /\ Valid(cx.sc)) =>
                       \A t : HoldsTrace(c, t) => HoldsTrace(out, t)
                  /\ ~("baggage" \in Range(ps) /\ cx.baggage # <<>>) =>
                       \A b : HoldsBaggage(c, b) => HoldsBaggage(out, b)
<1>1. PICK out : out = inject(ps, c, cx, first)
  OBVIOUS
<1> DEFINE AfterTrace(x, y) ==
             /\ y \in Seq(Headers)
             /\ ~Valid(cx.sc) => y = x
             /\ OneSpelling(x) =>
                  /\ OneSpelling(y) /\ HoldsTrace(y, cx.sc)
                  /\ \A b : HoldsBaggage(x, b) => HoldsBaggage(y, b)
           AfterBaggage(x, y) ==
             /\ y \in Seq(Headers)
             /\ cx.baggage = <<>> => y = x
             /\ OneSpelling(x) =>
                  /\ OneSpelling(y) /\ HoldsBaggage(y, cx.baggage)
                  /\ \A t : HoldsTrace(x, t) => HoldsTrace(y, t)
<1>2. \A x \in Seq(Headers) : AfterTrace(x, inject_trace(x, cx, first))
  BY InjectTraces
<1>3. \A x \in Seq(Headers) : AfterBaggage(x, inject_baggage(x, cx))
  BY InjectBaggages
<1>4. CASE out = inject_trace(c, cx, first) /\ "trace" \in Range(ps) /\ "baggage" \notin Range(ps)
  <2>1. AfterTrace(c, out)
    BY <1>2, <1>4
  <2>2. QED
    BY <1>1, <1>4, <2>1
<1>5. CASE out = inject_baggage(c, cx) /\ "trace" \notin Range(ps) /\ "baggage" \in Range(ps)
  <2>1. AfterBaggage(c, out)
    BY <1>3, <1>5
  <2>2. QED
    BY <1>1, <1>5, <2>1
<1>6. CASE /\ out = inject_baggage(inject_trace(c, cx, first), cx)
           /\ "trace" \in Range(ps) /\ "baggage" \in Range(ps)
  <2>1. PICK x : x = inject_trace(c, cx, first)
    OBVIOUS
  <2>2. AfterTrace(c, x) /\ AfterBaggage(x, out)
    BY <1>2, <1>3, <1>6, <2>1
  <2>3. QED
    BY <1>1, <1>6, <2>2
<1>7. CASE /\ out = inject_trace(inject_baggage(c, cx), cx, first)
           /\ "trace" \in Range(ps) /\ "baggage" \in Range(ps)
  <2>1. PICK x : x = inject_baggage(c, cx)
    OBVIOUS
  <2>2. AfterBaggage(c, x) /\ AfterTrace(x, out)
    BY <1>2, <1>3, <1>7, <2>1
  <2>3. QED
    BY <1>1, <1>7, <2>2
<1>8. QED
  BY <1>1, <1>4, <1>5, <1>6, <1>7, InjectIs

\* Extraction gives a context.
LEMMA ExtractTyped ==
  ASSUME NEW cx \in Contexts, NEW c \in Seq(Headers), NEW ps \in Propagators
  PROVE  extract(ps, c, cx) \in Contexts
<1>1. ps \in Seq({"trace", "baggage"}) /\ Len(ps) \in Nat /\ \A i \in 1 .. Len(ps) : ps[i] \in {"trace", "baggage"}
  BY PropagatorKinds
<1>2. PICK r : /\ r[0] = cx
               /\ \A i \in 1 .. Len(ps) :
                    r[i] = (IF ps[i] = "trace" THEN extract_trace(c, r[i - 1]) ELSE extract_baggage(c, r[i - 1]))
               /\ extract(ps, c, cx) = r[Len(ps)]
  BY <1>1, ExtractRun
<1> DEFINE T == {i \in Nat : r[i] \in Contexts}
<1>3. 0 \in T
  BY <1>2
<1>4. \A i \in 1 .. Len(ps) : i - 1 \in T => i \in T
  BY <1>1, <1>2, ExtractTraces, ExtractBaggages
<1>5. Len(ps) \in T
  <2> HIDE DEF T
  <2>1. QED
    BY <1>1, <1>3, <1>4, UpToInduction
<1>6. QED
  BY <1>2, <1>5

-----------------------------------------------------------------------------
(* The inductive invariant.                                                 *)

\* A script's trace states are sound and the SDK's fit them, every baggage has
\* each key once, and the carrier still holds what was last injected into it, in
\* one spelling.
PropagationInvariant ==
  /\ Sound(ts)
  /\ builder \in Baggages
  /\ ctx \in Contexts
  /\ carrier \in Seq(Headers)
  /\ sent \in [trace : SpanContexts, baggage : Baggages]
  /\ calls \in 0 .. MaxCalls
  /\ sent # NothingSent => OneSpelling(carrier)
  /\ HoldsTrace(carrier, sent.trace)
  /\ HoldsBaggage(carrier, sent.baggage)

\* The root context, and a carrier nothing was sent in.
LEMMA RootFacts ==
  /\ NoSpan \in SpanContexts /\ ~Valid(NoSpan)
  /\ RootContext \in Contexts
  /\ NothingSent \in [trace : SpanContexts, baggage : Baggages]
  /\ \A c : HoldsTrace(c, NothingSent.trace) /\ HoldsBaggage(c, NothingSent.baggage)
<1>1. NoSpan \in SpanContexts /\ ~Valid(NoSpan)
  <2>1. 0 \in Ids /\ <<>> \in SdkStates
    BY BoundsAssumption DEF Ids, SdkStates, SdkTakes
  <2>2. php_trace_state(<<>>) = <<>>
    BY EmptySound, SpellsItself DEF php_trace_state
  <2>3. NoSpan = SpanContext(0, <<>>, php_trace_state(<<>>))
    BY <2>2 DEF NoSpan
  <2>4. NoSpan \in SpanContexts /\ NoSpan.id = 0
    BY <2>1, <2>3, ReadContext
  <2>5. QED
    BY <2>4 DEF Valid
<1>2. RootContext \in Contexts
  BY <1>1, BaggageSteps DEF RootContext, Contexts
<1>3. NothingSent \in [trace : SpanContexts, baggage : Baggages]
  BY <1>1, BaggageSteps DEF NothingSent
<1>4. NothingSent.trace = NoSpan /\ NothingSent.baggage = <<>>
  BY DEF NothingSent
<1>5. QED
  BY <1>1, <1>2, <1>3, <1>4 DEF HoldsTrace, HoldsBaggage

\* The invariant holds at the start of a script.
LEMMA PropagationInit == Init => PropagationInvariant
<1>1. SUFFICES ASSUME Init PROVE PropagationInvariant
  OBVIOUS
<1>2. Sound(ts) /\ builder \in Baggages /\ ctx \in Contexts /\ carrier \in Seq(Headers)
  BY <1>1, EmptySound, BaggageSteps, RootFacts DEF Init
<1>3. sent = NothingSent
  BY <1>1 DEF Init
<1>4. calls \in 0 .. MaxCalls
  BY <1>1, BoundsAssumption DEF Init
<1>5. QED
  BY <1>2, <1>3, <1>4, RootFacts DEF PropagationInvariant

\* Every call keeps the invariant.
LEMMA PropagationStep == PropagationInvariant /\ [Next]_vars => PropagationInvariant'
<1>1. SUFFICES ASSUME PropagationInvariant, [Next]_vars
               PROVE  PropagationInvariant'
  OBVIOUS
<1>2. /\ Sound(ts) /\ builder \in Baggages /\ ctx \in Contexts /\ carrier \in Seq(Headers)
      /\ sent \in [trace : SpanContexts, baggage : Baggages]
      /\ calls \in 0 .. MaxCalls /\ (sent # NothingSent => OneSpelling(carrier))
      /\ HoldsTrace(carrier, sent.trace) /\ HoldsBaggage(carrier, sent.baggage)
  BY <1>1 DEF PropagationInvariant
<1>3. MaxCalls \in Nat /\ MaxSpanContexts \in Nat
  BY BoundsAssumption
<1>4. Call => calls' \in 0 .. MaxCalls
  BY <1>2, <1>3 DEF Call
<1>5. ASSUME NEW raw \in RawStates, TraceStateNew(raw)
      PROVE  PropagationInvariant'
  <2>1. ts' = parse(raw) /\ UNCHANGED <<builder, ctx, carrier, sent>> /\ calls' \in 0 .. MaxCalls
    BY <1>4, <1>5 DEF TraceStateNew
  <2>2. Sound(ts')
    BY <2>1, StateAssumption, ParseSound
  <2>3. QED
    BY <1>2, <2>1, <2>2 DEF PropagationInvariant
<1>6. ASSUME NEW k \in StateKeys, NEW v \in StateValues, TraceStateWith(k, v)
      PROVE  PropagationInvariant'
  <2>1. /\ ts' = IF validate_member(ts, k, v) THEN <<Member(k, v)>> \o WithoutKey(ts, k) ELSE ts
        /\ UNCHANGED <<builder, ctx, carrier, sent>> /\ calls' \in 0 .. MaxCalls
    BY <1>4, <1>6 DEF TraceStateWith
  <2>2. Sound(ts')
    BY <1>2, <2>1, WithSound
  <2>3. QED
    BY <1>2, <2>1, <2>2 DEF PropagationInvariant
<1>7. ASSUME NEW k \in StateKeys, TraceStateWithout(k)
      PROVE  PropagationInvariant'
  <2>1. /\ ts' = WithoutKey(ts, k)
        /\ UNCHANGED <<builder, ctx, carrier, sent>> /\ calls' \in 0 .. MaxCalls
    BY <1>4, <1>7 DEF TraceStateWithout
  <2>2. Sound(ts')
    BY <1>2, <2>1, WithoutKeySound
  <2>3. QED
    BY <1>2, <2>1, <2>2 DEF PropagationInvariant
<1>8. ASSUME NEW id \in 1 .. MaxSpanContexts, StoreRemote(id)
      PROVE  PropagationInvariant'
  <2>1. PICK sc : sc = SpanContext(id, otel_trace_state_from_header(header(ts)), ts)
    OBVIOUS
  <2>2. /\ ctx' = [ctx EXCEPT !.sc = sc, !.object = "nonrecording"]
        /\ UNCHANGED <<ts, builder, carrier, sent>> /\ calls' \in 0 .. MaxCalls
    BY <1>4, <1>8, <2>1 DEF StoreRemote
  <2>3. sc \in SpanContexts /\ Valid(sc)
    <3>1. id \in Ids /\ id > 0
      BY <1>3 DEF Ids
    <3>2. QED
      BY <1>2, <2>1, <3>1, MadeContext DEF Valid
  <2>4. ctx' \in Contexts
    BY <1>2, <2>2, <2>3 DEF Contexts
  <2>5. QED
    BY <1>2, <2>2, <2>4 DEF PropagationInvariant
<1>9. ASSUME NEW id \in 1 .. MaxSpanContexts, StartSpan(id)
      PROVE  PropagationInvariant'
  <2>1. PICK sc : sc = SpanContext(id, ctx.sc.state, php_trace_state(ctx.sc.state))
    OBVIOUS
  <2>2. /\ ctx' = [ctx EXCEPT !.sc = sc, !.object = "recording"]
        /\ UNCHANGED <<ts, builder, carrier, sent>> /\ calls' \in 0 .. MaxCalls
    BY <1>4, <1>9, <2>1 DEF StartSpan
  <2>3. sc \in SpanContexts /\ Valid(sc)
    <3>1. id \in Ids /\ id > 0
      BY <1>3 DEF Ids
    <3>2. ctx.sc.state \in SdkStates
      BY <1>2 DEF Contexts, SpanContexts
    <3>3. QED
      BY <2>1, <3>1, <3>2, ReadContext DEF Valid
  <2>4. ctx' \in Contexts
    BY <1>2, <2>2, <2>3 DEF Contexts
  <2>5. QED
    BY <1>2, <2>2, <2>4 DEF PropagationInvariant
<1>10. ASSUME NEW k \in BaggageKeys, NEW v \in BaggageValues, NEW m \in BaggageMetadata, BaggageSet(k, v, m)
       PROVE  PropagationInvariant'
  <2>1. /\ builder' = set_entry(builder, Entry(k, v, m))
        /\ UNCHANGED <<ts, ctx, carrier, sent>> /\ calls' \in 0 .. MaxCalls
    BY <1>4, <1>10 DEF BaggageSet
  <2>2. Entry(k, v, m) \in Entries
    BY TextAssumption DEF Entry, Entries, Texts, HeaderTexts
  <2>3. builder' \in Baggages
    BY <1>2, <2>1, <2>2, BaggageSteps
  <2>4. QED
    BY <1>2, <2>1, <2>3 DEF PropagationInvariant
<1>11. ASSUME NEW k \in BaggageKeys, BaggageRemove(k)
       PROVE  PropagationInvariant'
  <2>1. /\ builder' = remove_entry(builder, k)
        /\ UNCHANGED <<ts, ctx, carrier, sent>> /\ calls' \in 0 .. MaxCalls
    BY <1>4, <1>11 DEF BaggageRemove
  <2>2. builder' \in Baggages
    BY <1>2, <2>1, RemoveEntryBaggage DEF Baggages, Baggage
  <2>3. QED
    BY <1>2, <2>1, <2>2 DEF PropagationInvariant
<1>12. ASSUME BaggageStore
       PROVE  PropagationInvariant'
  <2>1. /\ ctx' = [ctx EXCEPT !.baggage = builder]
        /\ UNCHANGED <<ts, builder, carrier, sent>> /\ calls' \in 0 .. MaxCalls
    BY <1>4, <1>12 DEF BaggageStore
  <2>2. ctx' \in Contexts
    BY <1>2, <2>1 DEF Contexts
  <2>3. QED
    BY <1>2, <2>1, <2>2 DEF PropagationInvariant
<1>13. ASSUME ToBuilder
       PROVE  PropagationInvariant'
  <2>1. /\ builder' = ctx.baggage
        /\ UNCHANGED <<ts, ctx, carrier, sent>> /\ calls' \in 0 .. MaxCalls
    BY <1>4, <1>13 DEF ToBuilder
  <2>2. builder' \in Baggages
    BY <1>2, <2>1 DEF Contexts
  <2>3. QED
    BY <1>2, <2>1, <2>2 DEF PropagationInvariant
<1>14. ASSUME NEW ps \in Propagators, NEW first, Inject(ps, first)
       PROVE  PropagationInvariant'
  <2>1. PICK out : out = inject(ps, carrier, ctx, first)
    OBVIOUS
  <2>2. /\ carrier' = out /\ UNCHANGED <<ts, builder, ctx>> /\ calls' \in 0 .. MaxCalls
        /\ ~OneSpelling(carrier) => sent' = NothingSent
    BY <1>4, <1>14, <2>1 DEF Inject
  <2>3. /\ out \in Seq(Headers)
        /\ OneSpelling(carrier) =>
             /\ OneSpelling(out)
             /\ "trace" \in Range(ps) => HoldsTrace(out, ctx.sc)
             /\ "baggage" \in Range(ps) => HoldsBaggage(out, ctx.baggage)
             /\ ~("trace" \in Range(ps) /\ Valid(ctx.sc)) =>
                  \A t : HoldsTrace(carrier, t) => HoldsTrace(out, t)
             /\ ~("baggage" \in Range(ps) /\ ctx.baggage # <<>>) =>
                  \A b : HoldsBaggage(carrier, b) => HoldsBaggage(out, b)
    BY <1>2, <2>1, InjectHolds
  <2>4. CASE ~OneSpelling(carrier)
    BY <1>2, <2>2, <2>3, <2>4, RootFacts DEF PropagationInvariant
  <2>5. CASE OneSpelling(carrier)
    <3>1. PICK t, b : /\ t = IF "trace" \in Range(ps) /\ Valid(ctx.sc) THEN ctx.sc ELSE sent.trace
                      /\ b = IF "baggage" \in Range(ps) /\ ctx.baggage # <<>>
                               THEN ctx.baggage ELSE sent.baggage
      OBVIOUS
    <3>2. sent' = [trace |-> t, baggage |-> b]
      BY <1>14, <2>5, <3>1 DEF Inject
    <3>3. t \in SpanContexts /\ b \in Baggages
      BY <1>2, <3>1 DEF Contexts
    <3>4. HoldsTrace(out, t)
      BY <1>2, <2>3, <2>5, <3>1
    <3>5. HoldsBaggage(out, b)
      BY <1>2, <2>3, <2>5, <3>1
    <3>6. /\ sent' \in [trace : SpanContexts, baggage : Baggages]
          /\ sent'.trace = t /\ sent'.baggage = b
      BY <3>2, <3>3
    <3>7. QED
      BY <1>2, <2>2, <2>3, <2>5, <3>4, <3>5, <3>6 DEF PropagationInvariant
  <2>6. QED
    BY <2>4, <2>5
<1>15. ASSUME NEW ps \in Propagators, NEW parent \in {ctx, RootContext}, Extract(ps, parent)
       PROVE  PropagationInvariant'
  <2>1. /\ ctx' = extract(ps, carrier, parent)
        /\ UNCHANGED <<ts, builder, carrier, sent>> /\ calls' \in 0 .. MaxCalls
    BY <1>4, <1>15 DEF Extract
  <2>2. parent \in Contexts
    BY <1>2, RootFacts
  <2>3. ctx' \in Contexts
    BY <1>2, <2>1, <2>2, ExtractTyped
  <2>4. QED
    BY <1>2, <2>1, <2>3 DEF PropagationInvariant
<1>16. ASSUME NEW n \in Names, NEW s \in Spellings, NEW v \in ForeignValues(n), ForeignHeader(n, s, v)
       PROVE  PropagationInvariant'
  <2>1. PICK h : h = [name |-> n, spelling |-> s, values |-> v]
    OBVIOUS
  <2>2. /\ carrier' = Insert(carrier, h) /\ sent' = NothingSent
        /\ UNCHANGED <<ts, builder, ctx>> /\ calls' \in 0 .. MaxCalls
    BY <1>4, <1>16, <2>1 DEF ForeignHeader
  <2>3. v = <<>> \/ \E w \in ValuesOf(n) : v = <<w>>
    <3>1. CASE n = "traceparent"
      <4>1. v \in {<<>>, <<0>>} \cup {<<i>> : i \in 1 .. MaxSpanContexts}
        BY <1>16, <3>1 DEF ForeignValues
      <4>2. 0 \in Ids /\ \A i \in 1 .. MaxSpanContexts : i \in Ids
        BY <1>3 DEF Ids
      <4>3. QED
        BY <3>1, <4>1, <4>2, NameFacts
    <3>2. CASE n = "tracestate"
      <4>1. v \in {<<x>> : x \in RawStates}
        BY <1>16, <3>2 DEF ForeignValues
      <4>2. QED
        BY <3>2, <4>1, StateAssumption, NameFacts
    <3>3. CASE n = "baggage"
      <4>1. v \in {<<x>> : x \in RawBaggage}
        BY <1>16, <3>3 DEF ForeignValues
      <4>2. \A x \in RawBaggage : x \in HeaderTexts
        BY TextAssumption DEF HeaderTexts
      <4>3. QED
        BY <3>3, <4>1, <4>2, NameFacts
    <3>4. QED
      BY <3>1, <3>2, <3>3 DEF Names
  <2>4. v \in Seq(AnyValue) /\ \A i \in 1 .. Len(v) : v[i] \in ValuesOf(n)
    <3>1. CASE v = <<>>
      BY <3>1
    <3>2. CASE \E w \in ValuesOf(n) : v = <<w>>
      <4>1. PICK w \in ValuesOf(n) : v = <<w>>
        BY <3>2
      <4>2. w \in AnyValue
        BY <4>1 DEF AnyValue
      <4>3. QED
        BY <4>1, <4>2
    <3>3. QED
      BY <2>3, <3>1, <3>2
  <2>5. h \in Headers
    BY <2>1, <2>4 DEF Headers
  <2>6. carrier' \in Seq(Headers)
    BY <1>2, <2>2, <2>5, InsertIs
  <2>7. QED
    BY <1>2, <2>2, <2>6, RootFacts DEF PropagationInvariant
<1>17. ASSUME NewCarrier
       PROVE  PropagationInvariant'
  <2>1. /\ carrier' = <<>> /\ sent' = NothingSent
        /\ UNCHANGED <<ts, builder, ctx>> /\ calls' \in 0 .. MaxCalls
    BY <1>4, <1>17 DEF NewCarrier
  <2>2. carrier' \in Seq(Headers)
    BY <2>1
  <2>3. QED
    BY <1>2, <2>1, <2>2, RootFacts DEF PropagationInvariant
<1>18. ASSUME ServeRequest
       PROVE  PropagationInvariant'
  <2>1. PICK sc : sc = get_propagated_context(carrier)
    OBVIOUS
  <2>2. /\ ctx' = [RootContext EXCEPT !.sc = sc] /\ ts' = <<>> /\ builder' = <<>>
        /\ UNCHANGED <<carrier, sent>> /\ calls' \in 0 .. MaxCalls
    BY <1>4, <1>18, <2>1 DEF ServeRequest
  <2>3. sc \in SpanContexts
    <3>1. PICK hs : hs = extract_request_headers(carrier)
      OBVIOUS
    <3>2. hs \in Seq(Headers)
      BY <1>2, <3>1, RequestHolds
    <3>3. QED
      BY <2>1, <3>1, <3>2, RootFacts, SdkExtracts DEF get_propagated_context
  <2>4. ctx' \in Contexts
    BY <2>2, <2>3, RootFacts DEF Contexts, RootContext
  <2>5. QED
    BY <1>2, <2>2, <2>4, EmptySound, BaggageSteps DEF PropagationInvariant
<1>19. CASE UNCHANGED vars
  BY <1>2, <1>19 DEF PropagationInvariant, vars
<1>20. CASE TraceNext
  BY <1>5, <1>6, <1>7, <1>8, <1>9, <1>20 DEF TraceNext
<1>21. CASE BaggageNext
  BY <1>10, <1>11, <1>12, <1>13, <1>21 DEF BaggageNext
<1>22. CASE CarrierNext(Propagators, Names)
  BY <1>14, <1>15, <1>16, <1>17, <1>18, <1>22 DEF CarrierNext
<1>23. QED
  BY <1>1, <1>19, <1>20, <1>21, <1>22 DEF Next

\* Whatever a script does, the invariant holds.
THEOREM PropagationInvariantHolds == Spec => []PropagationInvariant
<1>1. QED
  BY PropagationInit, PropagationStep, PTL DEF Spec

\* TraceStateSound follows from the invariant.
LEMMA SoundStates == PropagationInvariant => TraceStateSound
<1>1. SUFFICES ASSUME PropagationInvariant PROVE TraceStateSound
  OBVIOUS
<1>2. /\ Sound(ts) /\ ctx \in Contexts /\ carrier \in Seq(Headers) /\ calls \in 0 .. MaxCalls
      /\ Sound(ctx.sc.php)
  BY <1>1 DEF PropagationInvariant, Contexts, SpanContexts
<1>3. TypeOK
  <2>1. \A i \in DOMAIN ts : ts[i].key \in StateKeys /\ ts[i].value \in StateValues
    <3>1. ts \in Seq(Members) /\ \A i \in DOMAIN ts : ts[i] \in Members
      BY <1>2 DEF Sound
    <3>2. QED
      BY <3>1 DEF Members
  <2>2. /\ ctx.sc.id \in 0 .. MaxSpanContexts
        /\ ctx.object \in {"none", "recording", "nonrecording"}
        /\ ctx.object # "none" => Valid(ctx.sc)
    BY <1>2 DEF Contexts, SpanContexts, Ids
  <2>3. \A i \in DOMAIN carrier : carrier[i].name \in Names /\ carrier[i].spelling \in Spellings
    <3>1. \A i \in DOMAIN carrier : carrier[i] \in Headers
      BY <1>2
    <3>2. QED
      BY <3>1 DEF Headers
  <2>4. QED
    BY <1>2, <2>1, <2>2, <2>3 DEF TypeOK
<1>4. StateSpellsItself
  BY <1>2, SpellsItself DEF StateSpellsItself
<1>5. LimitedHeaderFits
  <2>1. SUFFICES ASSUME NEW limit \in Limits
                 PROVE  LET out == limited_header(ts, limit)
                        IN  /\ limit >= 0 => HeaderLength(out) <= limit
                            /\ out = Keep(ts, Range(out))
                            /\ HeaderLength(ts) <= limit => out = ts
                            /\ (\E i \in DOMAIN ts : ts[i] \notin Range(out) /\ MemberLength(ts[i]) <= 128)
                                  => \A i \in DOMAIN out : MemberLength(out[i]) <= 128
    BY DEF LimitedHeaderFits
  <2>2. limit \in Int
    BY BoundsAssumption
  <2>3. QED
    BY <1>2, <2>2, LimitedFits
<1>6. QED
  BY <1>3, <1>4, <1>5 DEF TraceStateSound

\* A trace state stays valid through every edit, and so does each header made of it.
THEOREM SoundTraceStates == Spec => []TraceStateSound
<1>1. QED
  BY PropagationInvariantHolds, SoundStates, PTL

\* InjectedTraceArrives follows from the invariant.
LEMMA TraceArrives == PropagationInvariant => InjectedTraceArrives
<1>1. SUFFICES ASSUME PropagationInvariant, Valid(sent.trace)
               PROVE  LET got == extract_trace(carrier, RootContext).sc
                      IN  /\ got.id = sent.trace.id /\ got.state = sent.trace.state
                          /\ got.php = IF SdkTakes(sent.trace.php) THEN sent.trace.php ELSE <<>>
                          /\ get_propagated_context(carrier) = got
  BY DEF InjectedTraceArrives
<1>2. carrier \in Seq(Headers) /\ sent.trace \in SpanContexts /\ HoldsTrace(carrier, sent.trace)
  BY <1>1 DEF PropagationInvariant
<1>3. extract_trace(carrier, RootContext).sc = Arrived(sent.trace)
  BY <1>1, <1>2, RootFacts, ExtractTraces
<1>4. PICK hs : hs = extract_request_headers(carrier)
  OBVIOUS
<1>5. hs \in Seq(Headers) /\ HoldsTrace(hs, sent.trace)
  BY <1>2, <1>4, RequestHolds DEF HoldsTrace
<1>6. SdkExtract(NoSpan, get(hs, "traceparent"), get(hs, "tracestate")) = Arrived(sent.trace)
  BY <1>1, <1>2, <1>5, RootFacts, SdkExtracts
<1>7. /\ Arrived(sent.trace).id = sent.trace.id /\ Arrived(sent.trace).state = sent.trace.state
      /\ Arrived(sent.trace).php = SeenElsewhere(sent.trace.php)
  BY <1>2 DEF SpanContexts, Arrived
<1>8. QED
  BY <1>3, <1>4, <1>6, <1>7 DEF get_propagated_context, SeenElsewhere

\* What the trace propagator last wrote to a carrier is what a server reads from it.
THEOREM InjectedTraces == Spec => []InjectedTraceArrives
<1>1. QED
  BY PropagationInvariantHolds, TraceArrives, PTL

-----------------------------------------------------------------------------
(* Texts.                                                                   *)

\* A function on 1 .. n is a sequence of its values.
LEMMA FunctionText ==
  ASSUME NEW S, NEW n \in Nat, NEW f \in [1 .. n -> S]
  PROVE  f \in Seq(S) /\ Len(f) = n /\ DOMAIN f = 1 .. n
OBVIOUS

\* The bytes of a text.
LEMMA TextBytes ==
  ASSUME NEW S, NEW t \in Seq(S)
  PROVE  Len(t) \in Nat /\ DOMAIN t = 1 .. Len(t) /\ \A i \in 1 .. Len(t) : t[i] \in S
OBVIOUS

\* What holds of every byte of a set holds of every byte of a text over it.
LEMMA TextAvoids ==
  ASSUME NEW S, NEW B, NEW t \in Seq(S), S \cap B = {}
  PROVE  \A i \in 1 .. Len(t) : t[i] \notin B
<1>1. \A i \in 1 .. Len(t) : t[i] \in S
  BY TextBytes
<1>2. QED
  BY <1>1, Zenon

\* A text with one more byte.
LEMMA OneMore ==
  ASSUME NEW X, NEW s \in Seq(X), NEW c \in X
  PROVE  /\ s \o <<c>> \in Seq(X) /\ Len(s) \in Nat /\ Len(s \o <<c>>) = Len(s) + 1
         /\ \A i \in 1 .. Len(s) : (s \o <<c>>)[i] = s[i]
         /\ (s \o <<c>>)[Len(s) + 1] = c
<1>1. PICK q : q = s \o <<c>>
  OBVIOUS
<1>2. /\ q \in Seq(X) /\ Len(q) = Len(s) + 1 /\ Len(s) \in Nat
      /\ \A i \in 1 .. Len(s) : q[i] = s[i]
      /\ q[Len(s) + 1] = c
  BY <1>1
<1>3. QED
  BY <1>1, <1>2, Zenon

\* Concatenation is associative.
LEMMA Regroup ==
  ASSUME NEW X, NEW s \in Seq(X), NEW c \in X, NEW t \in Seq(X)
  PROVE  s \o (<<c>> \o t) = (s \o <<c>>) \o t
<1>1. <<c>> \in Seq(X)
  BY OneChar, Zenon
<1>2. QED
  BY <1>1, ConcatAssociative

-----------------------------------------------------------------------------
(* Trimming and cutting.                                                    *)

\* trim_php keeps what lies between the first and the last byte that is not white.
LEMMA TrimIs ==
  ASSUME NEW X, NEW t \in Seq(X), NEW a \in 1 .. Len(t), NEW b \in 1 .. Len(t),
         t[a] \notin White, t[b] \notin White,
         \A j \in 1 .. Len(t) : t[j] \notin White => a <= j /\ j <= b
  PROVE  trim_php(t) = SubSeq(t, a, b)
<1>1. PICK I : I = {i \in DOMAIN t : t[i] \notin White}
  OBVIOUS
<1>2. Len(t) \in Nat /\ DOMAIN t = 1 .. Len(t)
  OBVIOUS
<1>3. I \in SUBSET (1 .. Len(t)) /\ a \in I /\ b \in I /\ \A j \in I : a <= j /\ j <= b
  BY <1>1, <1>2
<1>4. Max(I) = b
  BY <1>2, <1>3, MaxIs
<1>5. Min(I) = a
  <2>1. I # {}
    BY <1>3
  <2>2. Min(I) \in I /\ \A y \in I : Min(I) <= y
    BY <1>2, <1>3, <2>1, FirstPosition
  <2>3. PICK x : x = Min(I)
    OBVIOUS
  <2>4. x \in I /\ x <= a /\ a <= x
    BY <1>3, <2>2, <2>3, Zenon
  <2>5. x = a
    BY <1>3, <2>4
  <2>6. QED
    BY <2>3, <2>5
<1>6. I # {}
  BY <1>3
<1>7. trim_php(t) = IF I = {} THEN <<>> ELSE SubSeq(t, Min(I), Max(I))
  BY <1>1 DEF trim_php
<1>8. QED
  BY <1>4, <1>5, <1>6, <1>7

\* A text that is white everywhere, and one that is white at neither end.
LEMMA TrimAllOrNone ==
  ASSUME NEW X, NEW t \in Seq(X)
  PROVE  /\ (\A j \in 1 .. Len(t) : t[j] \in White) => trim_php(t) = <<>>
         /\ t # <<>> /\ t[1] \notin White /\ t[Len(t)] \notin White => trim_php(t) = t
         /\ (\A j \in 1 .. Len(t) : t[j] \notin White) => trim_php(t) = t
<1>1. Len(t) \in Nat /\ DOMAIN t = 1 .. Len(t)
  OBVIOUS
<1>2. (\A j \in 1 .. Len(t) : t[j] \in White) => trim_php(t) = <<>>
  BY <1>1 DEF trim_php
<1>3. ASSUME t # <<>>, t[1] \notin White, t[Len(t)] \notin White
      PROVE  trim_php(t) = t
  <2>1. 1 \in 1 .. Len(t) /\ Len(t) \in 1 .. Len(t)
    BY <1>1, <1>3
  <2>2. \A j \in 1 .. Len(t) : 1 <= j /\ j <= Len(t)
    BY <1>1
  <2>3. trim_php(t) = SubSeq(t, 1, Len(t))
    BY <1>3, <2>1, <2>2, TrimIs
  <2>4. SubSeq(t, 1, Len(t)) = t
    OBVIOUS
  <2>5. QED
    BY <2>3, <2>4
<1>4. ASSUME \A j \in 1 .. Len(t) : t[j] \notin White
      PROVE  trim_php(t) = t
  <2>1. CASE t = <<>>
    <3>1. \A j \in 1 .. Len(t) : t[j] \in White
      BY <2>1
    <3>2. QED
      BY <1>2, <2>1, <3>1
  <2>2. CASE t # <<>>
    <3>1. 1 \in 1 .. Len(t) /\ Len(t) \in 1 .. Len(t)
      BY <1>1, <2>2
    <3>2. QED
      BY <1>3, <1>4, <2>2, <3>1
  <2>3. QED
    BY <2>1, <2>2
<1>5. QED
  BY <1>2, <1>3, <1>4

\* White at the end of a text that follows a solid one.
LEMMA TrimTail ==
  ASSUME NEW X, NEW q \in Seq(X), q # <<>>, q[1] \notin White, q[Len(q)] \notin White, NEW m \in Seq(X)
  PROVE  \E w \in Seq(X) : trim_php(q \o m) = q \o w /\ trim_php(w) = trim_php(m)
<1>1. PICK t : t = q \o m
  OBVIOUS
<1>2. /\ t \in Seq(X) /\ Len(q) \in Nat /\ Len(m) \in Nat /\ Len(t) = Len(q) + Len(m)
      /\ \A i \in 1 .. Len(q) : t[i] = q[i]
      /\ \A i \in 1 .. Len(m) : t[Len(q) + i] = m[i]
  BY <1>1, ConcatText
<1>3. Len(q) > 0 /\ DOMAIN m = 1 .. Len(m)
  BY <1>2
<1>4. /\ 1 \in 1 .. Len(t) /\ 1 \in 1 .. Len(q) /\ Len(q) \in 1 .. Len(q) /\ Len(q) \in 1 .. Len(t)
      /\ \A j \in 1 .. Len(t) : j \in 1 .. Len(q) \/ \E i \in 1 .. Len(m) : j = Len(q) + i
  <2>1. /\ 1 \in 1 .. Len(t) /\ 1 \in 1 .. Len(q) /\ Len(q) \in 1 .. Len(q) /\ Len(q) \in 1 .. Len(t)
    BY <1>2, <1>3
  <2>2. ASSUME NEW j \in 1 .. Len(t), j \notin 1 .. Len(q)
        PROVE  \E i \in 1 .. Len(m) : j = Len(q) + i
    <3>1. j - Len(q) \in 1 .. Len(m) /\ j = Len(q) + (j - Len(q))
      BY <1>2, <1>3, <2>2
    <3>2. QED
      BY <3>1
  <2>3. QED
    BY <2>1, <2>2
<1>5. CASE \A j \in 1 .. Len(m) : m[j] \in White
  <2>1. \A j \in 1 .. Len(t) : t[j] \notin White => 1 <= j /\ j <= Len(q)
    <3>1. TAKE j \in 1 .. Len(t)
    <3>2. HAVE t[j] \notin White
    <3>3. ASSUME NEW k \in 1 .. Len(m), j = Len(q) + k
          PROVE  FALSE
      <4>1. t[Len(q) + k] \in White
        BY <1>2, <1>5
      <4>2. QED
        BY <3>2, <3>3, <4>1
    <3>4. j \in 1 .. Len(q)
      BY <1>4, <3>3
    <3>5. QED
      BY <1>2, <3>4
  <2>2. trim_php(t) = SubSeq(t, 1, Len(q))
    BY <1>2, <1>4, <2>1, TrimIs
  <2>3. SubSeq(t, 1, Len(q)) = q
    <3>1. PICK z : z = SubSeq(t, 1, Len(q))
      OBVIOUS
    <3>2. z \in Seq(X) /\ Len(z) = Len(q) /\ \A i \in 1 .. Len(q) : z[i] = t[i]
      <4>1. Len(q) <= Len(t) /\ 1 <= Len(q) /\ Len(q) - 1 + 1 = Len(q)
        BY <1>2, <1>3
      <4>2. /\ SubSeq(t, 1, Len(q)) \in Seq(X) /\ Len(SubSeq(t, 1, Len(q))) = Len(q) - 1 + 1
            /\ \A i \in 1 .. (Len(q) - 1 + 1) : SubSeq(t, 1, Len(q))[i] = t[1 + i - 1]
        BY <1>2, <4>1, PartOf
      <4>3. \A i \in 1 .. Len(q) : 1 + i - 1 = i
        BY <1>2
      <4>4. QED
        BY <3>1, <4>1, <4>2, <4>3
    <3>3. z = q
      BY <1>2, <3>2, SeqEqual
    <3>4. QED
      BY <3>1, <3>3
  <2>4. q \o <<>> = q /\ <<>> \in Seq(X)
    OBVIOUS
  <2>5. trim_php(<<>>) = <<>>
    <3>1. <<>> \in Seq(X) /\ \A j \in 1 .. Len(<<>>) : <<>>[j] \in White
      OBVIOUS
    <3>2. QED
      BY <3>1, TrimAllOrNone
  <2>6. trim_php(m) = <<>>
    BY <1>5, TrimAllOrNone
  <2>7. QED
    BY <1>1, <2>2, <2>3, <2>4, <2>5, <2>6
<1>6. CASE ~(\A j \in 1 .. Len(m) : m[j] \in White)
  <2>1. PICK I : I = {i \in 1 .. Len(m) : m[i] \notin White}
    OBVIOUS
  <2>2. I \in SUBSET (1 .. Len(m)) /\ I # {}
    BY <1>6, <2>1
  <2>3. PICK a, b : a = Min(I) /\ b = Max(I)
    OBVIOUS
  <2>4. a \in I /\ b \in I /\ \A j \in I : a <= j /\ j <= b
    <3>1. Min(I) \in I /\ \A y \in I : Min(I) <= y
      BY <1>2, <2>2, FirstPosition
    <3>2. Max(I) \in I /\ \A y \in I : y <= Max(I)
      BY <1>2, <2>2, LastPosition
    <3>3. QED
      BY <2>3, <3>1, <3>2, Zenon
  <2>5. /\ a \in 1 .. Len(m) /\ b \in 1 .. Len(m) /\ m[a] \notin White /\ m[b] \notin White /\ a <= b
        /\ \A j \in 1 .. Len(m) : m[j] \notin White => a <= j /\ j <= b
    BY <2>1, <2>4
  <2>6. trim_php(m) = SubSeq(m, a, b)
    BY <2>5, TrimIs
  <2>7. PICK w : w = SubSeq(m, 1, b)
    OBVIOUS
  <2>8. w \in Seq(X) /\ Len(w) = b /\ \A i \in 1 .. b : w[i] = m[i]
    <3>1. b \in Nat /\ b <= Len(m) /\ 1 <= b /\ b - 1 + 1 = b
      BY <1>2, <2>5
    <3>2. /\ SubSeq(m, 1, b) \in Seq(X) /\ Len(SubSeq(m, 1, b)) = b - 1 + 1
          /\ \A i \in 1 .. (b - 1 + 1) : SubSeq(m, 1, b)[i] = m[1 + i - 1]
      BY <3>1, PartOf
    <3>3. \A i \in 1 .. b : 1 + i - 1 = i
      BY <3>1
    <3>4. QED
      BY <2>7, <3>1, <3>2, <3>3
  <2>9. a \in 1 .. b /\ b \in 1 .. b /\ \A j \in 1 .. b : j \in 1 .. Len(m)
    BY <1>2, <2>5
  <2>10. trim_php(w) = SubSeq(w, a, b)
    <3>1. /\ a \in 1 .. Len(w) /\ b \in 1 .. Len(w) /\ w[a] \notin White /\ w[b] \notin White
          /\ \A j \in 1 .. Len(w) : w[j] \notin White => a <= j /\ j <= b
      BY <2>5, <2>8, <2>9
    <3>2. QED
      BY <2>8, <3>1, TrimIs
  <2>11. SubSeq(w, a, b) = SubSeq(m, a, b)
    <3>1. PICK y, z : y = SubSeq(w, a, b) /\ z = SubSeq(m, a, b)
      OBVIOUS
    <3>2. a \in Nat \ {0} /\ b \in Nat /\ b <= Len(m) /\ b <= Len(w) /\ a <= b
      BY <1>2, <2>5, <2>8
    <3>3. y \in Seq(X) /\ Len(y) = b - a + 1 /\ \A i \in 1 .. (b - a + 1) : y[i] = w[a + i - 1]
      <4>1. /\ SubSeq(w, a, b) \in Seq(X) /\ Len(SubSeq(w, a, b)) = b - a + 1
            /\ \A i \in 1 .. (b - a + 1) : SubSeq(w, a, b)[i] = w[a + i - 1]
        BY <2>8, <3>2, PartOf
      <4>2. QED
        BY <3>1, <4>1, Zenon
    <3>4. z \in Seq(X) /\ Len(z) = b - a + 1 /\ \A i \in 1 .. (b - a + 1) : z[i] = m[a + i - 1]
      <4>1. /\ SubSeq(m, a, b) \in Seq(X) /\ Len(SubSeq(m, a, b)) = b - a + 1
            /\ \A i \in 1 .. (b - a + 1) : SubSeq(m, a, b)[i] = m[a + i - 1]
        BY <3>2, PartOf
      <4>2. QED
        BY <3>1, <4>1, Zenon
    <3>5. \A i \in 1 .. (b - a + 1) : a + i - 1 \in 1 .. b
      BY <3>2
    <3>6. \A i \in 1 .. Len(y) : y[i] = z[i]
      BY <2>8, <3>3, <3>4, <3>5
    <3>7. y = z
      BY <3>3, <3>4, <3>6, SeqEqual
    <3>8. QED
      BY <3>1, <3>7
  <2>12. PICK e : e = Len(q) + b
    OBVIOUS
  <2>13. e \in 1 .. Len(t) /\ e \in Nat /\ e <= Len(t) /\ 1 <= e
    BY <1>2, <1>3, <2>5, <2>12
  <2>14. t[e] \notin White /\ \A j \in 1 .. Len(t) : t[j] \notin White => 1 <= j /\ j <= e
    <3>1. t[e] = m[b]
      BY <1>2, <2>5, <2>12
    <3>2. ASSUME NEW j \in 1 .. Len(t), t[j] \notin White
          PROVE  1 <= j /\ j <= e
      <4>1. CASE j \in 1 .. Len(q)
        BY <1>2, <2>5, <2>12, <4>1
      <4>2. CASE \E i \in 1 .. Len(m) : j = Len(q) + i
        <5>1. PICK i \in 1 .. Len(m) : j = Len(q) + i
          BY <4>2
        <5>2. m[i] \notin White
          BY <1>2, <3>2, <5>1
        <5>3. i <= b
          BY <2>5, <5>2
        <5>4. QED
          BY <1>2, <2>5, <2>12, <5>1, <5>3
      <4>3. QED
        BY <1>4, <4>1, <4>2
    <3>3. QED
      BY <2>5, <3>1, <3>2
  <2>15. trim_php(t) = SubSeq(t, 1, e)
    BY <1>2, <1>4, <2>13, <2>14, TrimIs
  <2>16. SubSeq(t, 1, e) = q \o w
    <3>1. PICK y, z : y = SubSeq(t, 1, e) /\ z = q \o w
      OBVIOUS
    <3>2. y \in Seq(X) /\ Len(y) = e /\ \A i \in 1 .. e : y[i] = t[i]
      <4>1. e - 1 + 1 = e /\ \A i \in 1 .. e : 1 + i - 1 = i
        BY <2>13
      <4>2. /\ SubSeq(t, 1, e) \in Seq(X) /\ Len(SubSeq(t, 1, e)) = e - 1 + 1
            /\ \A i \in 1 .. (e - 1 + 1) : SubSeq(t, 1, e)[i] = t[1 + i - 1]
        BY <1>2, <2>13, PartOf
      <4>3. QED
        BY <3>1, <4>1, <4>2
    <3>3. /\ z \in Seq(X) /\ Len(z) = Len(q) + Len(w)
          /\ \A i \in 1 .. Len(q) : z[i] = q[i]
          /\ \A i \in 1 .. Len(w) : z[Len(q) + i] = w[i]
      <4>1. z = q \o w /\ w \in Seq(X)
        BY <2>8, <3>1
      <4>2. QED
        BY <4>1, ConcatText
    <3>4. \A j \in 1 .. e : y[j] = z[j]
      <4>1. TAKE j \in 1 .. e
      <4>2. j \in 1 .. Len(t) /\ y[j] = t[j]
        BY <2>13, <3>2
      <4>3. CASE j \in 1 .. Len(q)
        BY <1>2, <3>3, <4>2, <4>3
      <4>4. CASE \E i \in 1 .. Len(m) : j = Len(q) + i
        <5>1. PICK i \in 1 .. Len(m) : j = Len(q) + i
          BY <4>4
        <5>2. i \in 1 .. b
          BY <1>2, <2>5, <2>12, <5>1
        <5>3. z[Len(q) + i] = w[i] /\ w[i] = m[i] /\ t[Len(q) + i] = m[i]
          BY <1>2, <2>8, <3>3, <5>1, <5>2
        <5>4. QED
          BY <4>2, <5>1, <5>3
      <4>5. QED
        BY <1>4, <4>2, <4>3, <4>4
    <3>5. Len(z) = Len(y)
      BY <2>8, <2>12, <3>2, <3>3
    <3>6. y = z
      BY <3>2, <3>3, <3>4, <3>5, SeqEqual
    <3>7. QED
      BY <3>1, <3>6
  <2>17. QED
    BY <1>1, <2>6, <2>8, <2>10, <2>11, <2>15, <2>16
<1>7. QED
  BY <1>5, <1>6

\* A text without the separator, and one cut at its first separator.
LEMMA CutIs ==
  ASSUME NEW X, NEW a \in Seq(X), NEW b \in Seq(X), NEW c \in X,
         \A i \in 1 .. Len(a) : a[i] # c
  PROVE  /\ TextBefore(a, c) = a /\ TextAfter(a, c) = <<>>
         /\ TextBefore((a \o <<c>>) \o b, c) = a /\ TextAfter((a \o <<c>>) \o b, c) = b
<1> DEFINE At(t) == LET I == {i \in 1 .. Len(t) : t[i] = c} IN IF I # {} THEN Min(I) ELSE 0
<1>1. \A t : /\ TextBefore(t, c) = IF At(t) = 0 THEN t ELSE SubSeq(t, 1, At(t) - 1)
             /\ TextAfter(t, c) = IF At(t) = 0 THEN <<>> ELSE SubSeq(t, At(t) + 1, Len(t))
  BY DEF TextBefore, TextAfter, SelectInSeq
<1>2. At(a) = 0
  OBVIOUS
<1>3. PICK q, t : q = a \o <<c>> /\ t = q \o b
  OBVIOUS
<1>4. /\ q \in Seq(X) /\ Len(q) = Len(a) + 1 /\ Len(a) \in Nat
      /\ \A i \in 1 .. Len(a) : q[i] = a[i]
      /\ q[Len(a) + 1] = c
  BY <1>3
<1>5. /\ t \in Seq(X) /\ Len(b) \in Nat /\ Len(t) = Len(q) + Len(b)
      /\ \A i \in 1 .. Len(q) : t[i] = q[i]
      /\ \A i \in 1 .. Len(b) : t[Len(q) + i] = b[i]
  BY <1>3, <1>4, ConcatText
<1>6. At(t) = Len(a) + 1
  <2>1. PICK I : I = {i \in 1 .. Len(t) : t[i] = c}
    OBVIOUS
  <2>2. Len(a) + 1 \in 1 .. Len(q) /\ Len(a) + 1 \in 1 .. Len(t) /\ Len(t) \in Nat
    BY <1>4, <1>5
  <2>3. Len(a) + 1 \in I /\ I \in SUBSET (1 .. Len(t))
    BY <1>4, <1>5, <2>1, <2>2
  <2>4. PICK x : x = IF I # {} THEN Min(I) ELSE 0
    OBVIOUS
  <2>5. x \in I /\ \A j \in I : x <= j
    BY <2>2, <2>3, <2>4, FirstOf
  <2>6. \A j \in 1 .. Len(a) : j \notin I
    <3>1. TAKE j \in 1 .. Len(a)
    <3>2. j \in 1 .. Len(q)
      BY <1>4
    <3>3. QED
      BY <1>4, <1>5, <2>1, <3>2
  <2>7. x = Len(a) + 1
    <3>1. x \in 1 .. Len(t) /\ x <= Len(a) + 1 /\ x \notin 1 .. Len(a)
      BY <2>3, <2>5, <2>6
    <3>2. QED
      BY <1>4, <2>2, <3>1
  <2>8. QED
    BY <2>1, <2>4, <2>7
<1> HIDE DEF At
<1>7. TextBefore(t, c) = SubSeq(t, 1, Len(a)) /\ TextAfter(t, c) = SubSeq(t, Len(a) + 2, Len(t))
  <2>1. At(t) # 0 /\ At(t) - 1 = Len(a) /\ At(t) + 1 = Len(a) + 2
    BY <1>4, <1>6
  <2>2. QED
    BY <1>1, <2>1
<1>8. SubSeq(t, 1, Len(a)) = a
  <2>1. PICK y : y = SubSeq(t, 1, Len(a))
    OBVIOUS
  <2>2. Len(a) + 1 \in 1 .. Len(t) /\ (Len(a) + 1) - 1 = Len(a)
    BY <1>4, <1>5
  <2>3. /\ SubSeq(t, 1, (Len(a) + 1) - 1) \in Seq(X) /\ Len(SubSeq(t, 1, (Len(a) + 1) - 1)) = (Len(a) + 1) - 1
        /\ \A j \in 1 .. ((Len(a) + 1) - 1) : SubSeq(t, 1, (Len(a) + 1) - 1)[j] = t[j]
    BY <1>5, <2>2, PrefixOf
  <2>4. y \in Seq(X) /\ Len(y) = Len(a) /\ \A j \in 1 .. Len(a) : y[j] = t[j]
    BY <2>1, <2>2, <2>3, Zenon
  <2>5. \A j \in 1 .. Len(a) : y[j] = a[j]
    <3>1. \A j \in 1 .. Len(a) : j \in 1 .. Len(q)
      BY <1>4
    <3>2. QED
      BY <1>4, <1>5, <2>4, <3>1
  <2>6. QED
    BY <2>1, <2>4, <2>5, SeqEqual
<1>9. SubSeq(t, Len(a) + 2, Len(t)) = b
  <2>1. PICK y : y = SubSeq(t, Len(a) + 2, Len(t))
    OBVIOUS
  <2>2. Len(a) + 2 \in Nat \ {0} /\ Len(t) \in Nat /\ Len(t) <= Len(t)
    BY <1>4, <1>5
  <2>3. /\ SubSeq(t, Len(a) + 2, Len(t)) \in Seq(X)
        /\ Len(a) + 2 <= Len(t) => Len(SubSeq(t, Len(a) + 2, Len(t))) = Len(t) - (Len(a) + 2) + 1
        /\ Len(a) + 2 > Len(t) => SubSeq(t, Len(a) + 2, Len(t)) = <<>>
        /\ \A i \in 1 .. (Len(t) - (Len(a) + 2) + 1) :
             SubSeq(t, Len(a) + 2, Len(t))[i] = t[(Len(a) + 2) + i - 1]
    BY <1>5, <2>2, PartOf
  <2>4. y \in Seq(X) /\ Len(y) = Len(b) /\ \A i \in 1 .. Len(b) : y[i] = t[Len(q) + i]
    <3>1. Len(t) - (Len(a) + 2) + 1 = Len(b)
      BY <1>4, <1>5
    <3>2. \A i \in 1 .. Len(b) : (Len(a) + 2) + i - 1 = Len(q) + i
      BY <1>4, <1>5
    <3>3. CASE Len(b) = 0
      <4>1. Len(a) + 2 > Len(t)
        BY <1>4, <1>5, <3>3
      <4>2. y = <<>>
        BY <2>1, <2>3, <4>1
      <4>3. QED
        BY <3>3, <4>2
    <3>4. CASE Len(b) > 0
      <4>1. Len(a) + 2 <= Len(t)
        BY <1>4, <1>5, <3>4
      <4>2. QED
        BY <2>1, <2>3, <3>1, <3>2, <4>1
    <3>5. QED
      BY <1>5, <3>3, <3>4
  <2>5. \A i \in 1 .. Len(b) : y[i] = b[i]
    BY <1>5, <2>4
  <2>6. QED
    BY <2>1, <2>4, <2>5, SeqEqual
<1>10. TextBefore(a, c) = a /\ TextAfter(a, c) = <<>>
  BY <1>1, <1>2
<1>11. QED
  BY <1>3, <1>7, <1>8, <1>9, <1>10

\* A text without the separator is not cut.
LEMMA Uncut ==
  ASSUME NEW X, NEW p \in Seq(X), NEW c \in X, \A i \in 1 .. Len(p) : p[i] # c
  PROVE  TextBefore(p, c) = p /\ TextAfter(p, c) = <<>>
BY CutIs

-----------------------------------------------------------------------------
(* An entry's way through a header.                                         *)

\* What url_encode writes, and the entries whose text needs no escaping elsewhere.
Safe == Unreserved \cup {"+"} \cup DOMAIN Unescape
PlainEntries == {x \in Entries : Written(x.key) /\ x.key # <<>> /\ "," \notin Range(x.metadata)}

\* The entry a reader sees, if it accepts it.
Seen(x) == Entry(x.key, trim_php(x.value),
                 IF is_php_empty(trim_php(x.metadata)) THEN <<>> ELSE trim_php(x.metadata))
Accepted == {x \in Entries : /\ ~is_php_empty(x.key) /\ ~is_php_empty(x.value)
                             /\ ~value_has_excluded_character(x.value)}

\* What url_encode leaves in a text.
LEMMA SafeChars ==
  /\ Safe \cap {" ", "tab", ",", ";", "=", "/"} = {}
  /\ Safe \subseteq HeaderChars /\ Unreserved \subseteq Safe /\ Unreserved \subseteq Chars
  /\ \A c \in Chars : c \notin {",", ";", "=", "+", "%61", " ", "tab", "/"} => c \in Unreserved
<1>1. Safe \cap {" ", "tab", ",", ";", "=", "/"} = {}
  BY CharFacts DEF Safe
<1>2. Safe \subseteq HeaderChars /\ Unreserved \subseteq Safe /\ Unreserved \subseteq Chars
  <2>1. Unreserved \subseteq Chars
    BY DEF Chars
  <2>2. Chars \subseteq HeaderChars /\ "+" \in Chars /\ DOMAIN Unescape \subseteq HeaderChars
    BY CharFacts
  <2>3. QED
    BY <2>1, <2>2, Zenon DEF Safe
<1>3. DOMAIN Escape = {",", ";", "=", "/", "tab", "+", "%61"}
  BY DEF Escape
<1>4. QED
  BY <1>1, <1>2, <1>3 DEF Chars

\* Encoding leaves only safe bytes, and decoding undoes it.
LEMMA Encoded ==
  ASSUME NEW v \in Texts
  PROVE  url_encode(v) \in Seq(Safe) /\ url_decode(url_encode(v)) = v
<1>1. PICK u : u = url_encode(v)
  OBVIOUS
<1>2. v \in Seq(Chars) /\ Len(v) \in Nat /\ DOMAIN v = 1 .. Len(v) /\ \A i \in 1 .. Len(v) : v[i] \in Chars
  BY DEF Texts
<1>3. u = [i \in 1 .. Len(v) |-> IF v[i] \in Unreserved THEN v[i]
                                  ELSE IF v[i] = " " THEN "+" ELSE Escape[v[i]]]
  BY <1>1, <1>2 DEF url_encode
<1>4. \A i \in 1 .. Len(v) : u[i] \in Safe
  BY <1>2, <1>3, CharFacts DEF Safe
<1>5. u \in Seq(Safe) /\ Len(u) = Len(v) /\ DOMAIN u = 1 .. Len(v)
  <2>1. u \in [1 .. Len(v) -> Safe]
    BY <1>3, <1>4
  <2>2. QED
    BY <1>2, <2>1, FunctionText
<1>6. PICK w : w = url_decode(u)
  OBVIOUS
<1>7. w = [i \in 1 .. Len(v) |-> IF u[i] = "+" THEN " "
                                  ELSE IF u[i] \in DOMAIN Unescape THEN Unescape[u[i]] ELSE u[i]]
  BY <1>5, <1>6 DEF url_decode
<1>8. ASSUME NEW i \in 1 .. Len(v)
      PROVE  w[i] = v[i]
  <2>1. CASE v[i] \in Unreserved
    BY <1>3, <1>7, <2>1, CharFacts
  <2>2. CASE v[i] \notin Unreserved /\ v[i] = " "
    BY <1>3, <1>7, <2>2
  <2>3. CASE v[i] \notin Unreserved /\ v[i] # " "
    <3>1. v[i] \in DOMAIN Escape
      BY <1>2, <2>3, CharFacts
    <3>2. u[i] = Escape[v[i]] /\ u[i] \in DOMAIN Unescape /\ u[i] # "+" /\ Unescape[Escape[v[i]]] = v[i]
      <4>1. /\ \A c \in DOMAIN Escape : Escape[c] \in DOMAIN Unescape /\ Unescape[Escape[c]] = c
            /\ "+" \notin DOMAIN Unescape
        BY CharFacts
      <4>2. u[i] = Escape[v[i]]
        BY <1>3, <2>3
      <4>3. QED
        BY <3>1, <4>1, <4>2, Zenon
    <3>3. QED
      BY <1>7, <3>2
  <2>4. QED
    BY <2>1, <2>2, <2>3
<1>9. w \in Seq(Chars) /\ Len(w) = Len(v)
  <2>1. w \in [1 .. Len(v) -> Chars]
    BY <1>2, <1>7, <1>8
  <2>2. QED
    BY <1>2, <2>1, FunctionText
<1>10. w = v
  BY <1>2, <1>8, <1>9, SeqEqual
<1>11. QED
  BY <1>1, <1>5, <1>6, <1>10

\* A key that needs no escaping is what a reader decodes.
LEMMA PlainKey ==
  ASSUME NEW x \in PlainEntries
  PROVE  /\ x.key \in Seq(Unreserved) /\ x.key # <<>>
         /\ url_decode(x.key) = x.key
         /\ ~key_has_excluded_character(x.key)
<1>1. PICK k : k = x.key
  OBVIOUS
<1>2. k \in Seq(Chars) /\ Written(k) /\ k # <<>> /\ Len(k) \in Nat /\ DOMAIN k = 1 .. Len(k)
  <2>1. x.key \in Seq(Chars) /\ Written(x.key) /\ x.key # <<>>
    BY DEF PlainEntries, Entries, Texts
  <2>2. QED
    BY <1>1, <2>1, TextBytes
<1>3. \A i \in 1 .. Len(k) : k[i] \in Unreserved
  <2>1. \A i \in 1 .. Len(k) : k[i] \in Chars /\ k[i] \in Range(k)
    BY <1>2 DEF Range
  <2>2. \A i \in 1 .. Len(k) : k[i] \notin {",", ";", "=", "+", "%61", " ", "tab", "/"}
    BY <1>2, <2>1 DEF Written
  <2>3. QED
    BY <2>1, <2>2, SafeChars
<1>4. k \in Seq(Unreserved)
  BY <1>2, <1>3
<1>5. PICK w : w = url_decode(k)
  OBVIOUS
<1>6. w = [i \in 1 .. Len(k) |-> IF k[i] = "+" THEN " "
                                  ELSE IF k[i] \in DOMAIN Unescape THEN Unescape[k[i]] ELSE k[i]]
  BY <1>2, <1>5 DEF url_decode
<1>7. \A i \in 1 .. Len(k) : w[i] = k[i]
  BY <1>3, <1>6, CharFacts
<1>8. w \in Seq(Unreserved) /\ Len(w) = Len(k)
  <2>1. w \in [1 .. Len(k) -> Unreserved]
    BY <1>3, <1>6, <1>7
  <2>2. QED
    BY <1>2, <2>1, FunctionText
<1>9. w = k
  BY <1>4, <1>7, <1>8, SeqEqual
<1>10. ~key_has_excluded_character(k)
  BY <1>2 DEF Written, key_has_excluded_character
<1>11. QED
  BY <1>1, <1>2, <1>4, <1>5, <1>9, <1>10

\* The text of the pair: the key, the separator and the encoded value.
PairText(x) == (x.key \o <<"=">>) \o url_encode(x.value)

\* The parts of an entry's text.
LEMMA PairTexts ==
  ASSUME NEW x \in PlainEntries
  PROVE  /\ PairText(x) \in Seq(Safe \cup {"="}) /\ PairText(x) # <<>> /\ ~is_php_empty(PairText(x))
         /\ "=" \in Range(PairText(x))
         /\ TextBefore(PairText(x), "=") = x.key
         /\ TextAfter(PairText(x), "=") = url_encode(x.value)
<1>1. PICK k, u, p, X : /\ k = x.key /\ u = url_encode(x.value) /\ p = PairText(x)
                        /\ X = Safe \cup {"="}
  OBVIOUS
<1>2. k \in Seq(Unreserved) /\ k # <<>> /\ u \in Seq(Safe)
  BY <1>1, PlainKey, Encoded DEF PlainEntries, Entries
<1>3. k \in Seq(X) /\ u \in Seq(X) /\ "=" \in X
  <2>1. Unreserved \subseteq X /\ Safe \subseteq X
    BY <1>1, SafeChars
  <2>2. QED
    BY <1>1, <1>2, <2>1, SeqMonotonic
<1>4. PICK eq : eq = <<"=">>
  OBVIOUS
<1>5. eq \in Seq(X) /\ Len(eq) = 1 /\ eq[1] = "="
  BY <1>3, <1>4
<1>6. PICK q : q = k \o eq
  OBVIOUS
<1>7. p = q \o u
  BY <1>1, <1>4, <1>6 DEF PairText
<1>8. q \in Seq(X) /\ Len(q) = Len(k) + 1 /\ Len(k) \in Nat /\ Len(k) > 0 /\ q[Len(k) + 1] = "="
  <2>1. /\ k \o <<"=">> \in Seq(X) /\ Len(k) \in Nat /\ Len(k \o <<"=">>) = Len(k) + 1
        /\ (k \o <<"=">>)[Len(k) + 1] = "="
    BY <1>3, OneMore
  <2>2. Len(k) > 0
    BY <1>2
  <2>3. QED
    BY <1>4, <1>6, <2>1, <2>2, Zenon
<1>9. /\ p \in Seq(X) /\ Len(p) = Len(q) + Len(u) /\ Len(u) \in Nat
      /\ \A i \in 1 .. Len(q) : p[i] = q[i]
  <2>1. /\ q \o u \in Seq(X) /\ Len(u) \in Nat /\ Len(q \o u) = Len(q) + Len(u)
        /\ \A i \in 1 .. Len(q) : (q \o u)[i] = q[i]
    BY <1>3, <1>8, ConcatText
  <2>2. QED
    BY <1>7, <2>1, Zenon
<1>10. Len(p) > 1 /\ Len(p) > 0
  BY <1>8, <1>9
<1>11. p # <<>> /\ ~is_php_empty(p)
  BY <1>9, <1>10, NotShorter DEF is_php_empty
<1>12. "=" \in Range(p)
  <2>1. Len(k) + 1 \in 1 .. Len(q) /\ Len(k) + 1 \in 1 .. Len(p) /\ DOMAIN p = 1 .. Len(p)
    BY <1>8, <1>9
  <2>2. p[Len(k) + 1] = "="
    BY <1>8, <1>9, <2>1
  <2>3. QED
    BY <2>1, <2>2 DEF Range
<1>13. \A i \in 1 .. Len(k) : k[i] # "="
  <2>1. Unreserved \cap {"="} = {}
    BY CharFacts
  <2>2. QED
    BY <1>2, <2>1, TextAvoids
<1>14. TextBefore(p, "=") = k /\ TextAfter(p, "=") = u
  <2>1. TextBefore((k \o <<"=">>) \o u, "=") = k /\ TextAfter((k \o <<"=">>) \o u, "=") = u
    BY <1>3, <1>13, CutIs
  <2>2. QED
    BY <1>4, <1>6, <1>7, <2>1, Zenon
<1>15. QED
  BY <1>1, <1>9, <1>11, <1>12, <1>14

\* The bytes of a pair are neither white nor a separator of members.
LEMMA PairChars ==
  ASSUME NEW x \in PlainEntries
  PROVE  /\ \A i \in 1 .. Len(PairText(x)) : PairText(x)[i] \notin White \cup {",", ";"}
         /\ PairText(x) \in Seq(HeaderChars)
         /\ trim_php(PairText(x)) = PairText(x)
<1>1. PICK p : p = PairText(x)
  OBVIOUS
<1>2. p \in Seq(Safe \cup {"="})
  BY <1>1, PairTexts
<1>3. /\ \A c \in Safe \cup {"="} : c \notin White \cup {",", ";"}
      /\ Safe \cup {"="} \subseteq HeaderChars
  BY SafeChars DEF White, HeaderChars, Chars, Escape
<1>4. \A i \in 1 .. Len(p) : p[i] \notin White \cup {",", ";"}
  <2>1. (Safe \cup {"="}) \cap (White \cup {",", ";"}) = {}
    BY <1>3, Zenon
  <2>2. QED
    BY <1>2, <2>1, TextAvoids
<1>5. p \in Seq(HeaderChars)
  BY <1>2, <1>3, SeqMonotonic
<1>6. trim_php(p) = p
  BY <1>4, <1>5, TrimAllOrNone
<1>7. QED
  BY <1>1, <1>4, <1>5, <1>6

\* What a reader makes of a member whose pair and metadata are these.
LEMMA ReadPair ==
  ASSUME NEW x \in PlainEntries, NEW raw, NEW member, NEW meta,
         member = trim_php(raw), ~is_php_empty(member),
         TextBefore(member, ";") = PairText(x), trim_php(TextAfter(member, ";")) = trim_php(meta)
  PROVE  LET seen == Entry(x.key, trim_php(x.value),
                           IF is_php_empty(trim_php(meta)) THEN <<>> ELSE trim_php(meta))
         IN  ParseMember(raw) = IF /\ ~is_php_empty(x.key) /\ ~is_php_empty(trim_php(x.value))
                                   /\ ~value_has_excluded_character(trim_php(x.value))
                                THEN <<seen>> ELSE <<>>
<1>1. PICK pair : pair = PairText(x)
  OBVIOUS
<1>2. trim_php(TextBefore(member, ";")) = pair /\ ~is_php_empty(pair) /\ "=" \in Range(pair)
  BY <1>1, PairChars, PairTexts
<1>3. PICK k, u : k = x.key /\ u = url_encode(x.value)
  OBVIOUS
<1>4. TextBefore(pair, "=") = k /\ TextAfter(pair, "=") = u
  BY <1>1, <1>3, PairTexts
<1>5. trim_php(k) = k /\ url_decode(k) = k /\ ~key_has_excluded_character(k)
  <2>1. k \in Seq(Unreserved) /\ url_decode(k) = k /\ ~key_has_excluded_character(k)
    BY <1>3, PlainKey
  <2>2. \A i \in 1 .. Len(k) : k[i] \notin White
    <3>1. Unreserved \cap White = {}
      BY CharFacts DEF White
    <3>2. QED
      BY <2>1, <3>1, TextAvoids
  <2>3. QED
    BY <2>1, <2>2, TrimAllOrNone
<1>6. trim_php(u) = u /\ url_decode(u) = x.value
  <2>1. u \in Seq(Safe) /\ url_decode(u) = x.value
    BY <1>3, Encoded DEF PlainEntries, Entries
  <2>2. \A i \in 1 .. Len(u) : u[i] \notin White
    <3>1. Safe \cap White = {}
      BY SafeChars DEF White
    <3>2. QED
      BY <2>1, <3>1, TextAvoids
  <2>3. QED
    BY <2>1, <2>2, TrimAllOrNone
<1>7. PICK key, value, mt : /\ key = trim_php(url_decode(trim_php(TextBefore(pair, "="))))
                            /\ value = trim_php(url_decode(trim_php(TextAfter(pair, "="))))
                            /\ mt = trim_php(TextAfter(member, ";"))
  OBVIOUS
<1>8. key = x.key /\ value = trim_php(x.value) /\ mt = trim_php(meta)
  BY <1>3, <1>4, <1>5, <1>6, <1>7
<1>9. ParseMember(raw) =
        IF \/ is_php_empty(member) \/ is_php_empty(pair)
           \/ "=" \notin Range(pair)
           \/ is_php_empty(key) \/ key_has_excluded_character(key)
           \/ is_php_empty(value) \/ value_has_excluded_character(value)
          THEN <<>>
          ELSE <<Entry(key, value, IF is_php_empty(mt) THEN <<>> ELSE mt)>>
  BY <1>2, <1>7 DEF ParseMember
<1>10. ~key_has_excluded_character(key)
  BY <1>3, <1>5, <1>8
<1>11. QED
  BY <1>2, <1>8, <1>9, <1>10

\* A pair with its metadata behind the separator.
LEMMA WithMetadata ==
  ASSUME NEW X, NEW p \in Seq(X), NEW c \in X, \A i \in 1 .. Len(p) : p[i] # c
  PROVE  /\ p \o <<c>> \in Seq(X) /\ Len(p) \in Nat /\ Len(p \o <<c>>) = Len(p) + 1
         /\ \A i \in 1 .. Len(p) : (p \o <<c>>)[i] = p[i]
         /\ (p \o <<c>>)[Len(p) + 1] = c
         /\ \A m \in Seq(X) : /\ p \o (<<c>> \o m) = (p \o <<c>>) \o m
                              /\ TextBefore((p \o <<c>>) \o m, c) = p
                              /\ TextAfter((p \o <<c>>) \o m, c) = m
<1>1. /\ p \o <<c>> \in Seq(X) /\ Len(p) \in Nat /\ Len(p \o <<c>>) = Len(p) + 1
      /\ \A i \in 1 .. Len(p) : (p \o <<c>>)[i] = p[i]
      /\ (p \o <<c>>)[Len(p) + 1] = c
  BY OneMore
<1>2. ASSUME NEW m \in Seq(X)
      PROVE  /\ p \o (<<c>> \o m) = (p \o <<c>>) \o m
             /\ TextBefore((p \o <<c>>) \o m, c) = p
             /\ TextAfter((p \o <<c>>) \o m, c) = m
  <2>1. p \o (<<c>> \o m) = (p \o <<c>>) \o m
    BY Regroup
  <2>2. TextBefore((p \o <<c>>) \o m, c) = p /\ TextAfter((p \o <<c>>) \o m, c) = m
    BY CutIs
  <2>3. QED
    BY <2>1, <2>2
<1>3. QED
  BY <1>1, <1>2, Zenon

\* An entry arrives as the one a reader should see, or not at all.
LEMMA ReadEntry ==
  ASSUME NEW x \in PlainEntries
  PROVE  ParseMember(EntryText(x)) = IF Seen(x) \in Accepted THEN <<Seen(x)>> ELSE <<>>
<1>1. PICK p, m : p = PairText(x) /\ m = x.metadata
  OBVIOUS
<1>2. /\ p \in Seq(HeaderChars) /\ trim_php(p) = p /\ ~is_php_empty(p) /\ p # <<>>
      /\ \A i \in 1 .. Len(p) : p[i] \notin White \cup {",", ";"}
  BY <1>1, PairChars, PairTexts
<1>3. m \in Seq(HeaderChars) /\ ";" \in HeaderChars
  BY <1>1 DEF PlainEntries, Entries, HeaderTexts, HeaderChars, Chars, Escape
<1>4. \A i \in 1 .. Len(p) : p[i] # ";"
  BY <1>2
<1>9. /\ p \o <<";">> \in Seq(HeaderChars) /\ Len(p) \in Nat /\ Len(p \o <<";">>) = Len(p) + 1
      /\ \A i \in 1 .. Len(p) : (p \o <<";">>)[i] = p[i]
      /\ (p \o <<";">>)[Len(p) + 1] = ";"
      /\ \A y \in Seq(HeaderChars) : /\ p \o (<<";">> \o y) = (p \o <<";">>) \o y
                                     /\ TextBefore((p \o <<";">>) \o y, ";") = p
                                     /\ TextAfter((p \o <<";">>) \o y, ";") = y
  <2>1. PICK c, X : c = ";" /\ X = HeaderChars
    OBVIOUS
  <2>2. p \in Seq(X) /\ c \in X /\ \A i \in 1 .. Len(p) : p[i] # c
    BY <1>2, <1>3, <1>4, <2>1, Zenon
  <2>3. /\ p \o <<c>> \in Seq(X) /\ Len(p) \in Nat /\ Len(p \o <<c>>) = Len(p) + 1
        /\ \A i \in 1 .. Len(p) : (p \o <<c>>)[i] = p[i]
        /\ (p \o <<c>>)[Len(p) + 1] = c
        /\ \A y \in Seq(X) : /\ p \o (<<c>> \o y) = (p \o <<c>>) \o y
                             /\ TextBefore((p \o <<c>>) \o y, c) = p
                             /\ TextAfter((p \o <<c>>) \o y, c) = y
    BY <2>2, WithMetadata
  <2>4. QED
    BY <2>1, <2>3, Zenon
<1> DEFINE Ok == /\ ~is_php_empty(x.key) /\ ~is_php_empty(trim_php(x.value))
                 /\ ~value_has_excluded_character(trim_php(x.value))
<1>5. Seen(x) \in Accepted <=> Ok
  <2>1. Seen(x).key = x.key /\ Seen(x).value = trim_php(x.value)
    BY DEF Seen, Entry
  <2>2. Seen(x) \in Entries
    <3>1. x.key \in Texts /\ trim_php(x.value) \in Texts /\ trim_php(x.metadata) \in HeaderTexts
      BY TrimText DEF PlainEntries, Entries, Texts, HeaderTexts
    <3>2. <<>> \in HeaderTexts
      BY CharTexts
    <3>3. QED
      BY <3>1, <3>2 DEF Seen, Entry, Entries
  <2>3. QED
    BY <2>1, <2>2 DEF Accepted
<1>6. CASE is_php_empty(m)
  <2>1. EntryText(x) = p \o <<>>
    BY <1>1, <1>6 DEF EntryText, PairText
  <2>2. p \o <<>> = p
    BY <1>2, ConcatEmptySeq, Zenon
  <2>3. TextBefore(p, ";") = p /\ TextAfter(p, ";") = <<>>
    <3>1. PICK c, X : c = ";" /\ X = HeaderChars
      OBVIOUS
    <3>2. p \in Seq(X) /\ c \in X /\ \A i \in 1 .. Len(p) : p[i] # c
      BY <1>2, <1>3, <1>4, <3>1, Zenon
    <3>3. TextBefore(p, c) = p /\ TextAfter(p, c) = <<>>
      BY <3>2, Uncut
    <3>4. QED
      BY <3>1, <3>3, Zenon
  <2>4. trim_php(<<>>) = <<>>
    <3>1. <<>> \in Seq(HeaderChars) /\ \A j \in 1 .. Len(<<>>) : <<>>[j] \in White
      OBVIOUS
    <3>2. QED
      BY <3>1, TrimAllOrNone
  <2>5. PICK seen : seen = Entry(x.key, trim_php(x.value),
                                 IF is_php_empty(trim_php(<<>>)) THEN <<>> ELSE trim_php(<<>>))
    OBVIOUS
  <2>6. ParseMember(p) = IF Ok THEN <<seen>> ELSE <<>>
    <3>1. p = trim_php(p) /\ ~is_php_empty(p) /\ TextBefore(p, ";") = PairText(x)
      BY <1>1, <1>2, <2>3, Zenon
    <3>2. trim_php(TextAfter(p, ";")) = trim_php(<<>>)
      BY <2>3, Zenon
    <3>3. ParseMember(p) = IF Ok THEN <<Entry(x.key, trim_php(x.value),
                                 IF is_php_empty(trim_php(<<>>)) THEN <<>> ELSE trim_php(<<>>))>> ELSE <<>>
      BY <3>1, <3>2, ReadPair, Zenon
    <3>4. QED
      BY <2>5, <3>3, Zenon
  <2>7. seen = Seen(x)
    <3>1. is_php_empty(trim_php(m))
      <4>1. CASE m = <<>>
        BY <2>4, <4>1 DEF is_php_empty
      <4>2. CASE m = <<"0">>
        <5>1. \A j \in 1 .. Len(m) : m[j] \notin White
          <6>1. Len(m) = 1 /\ m[1] = "0"
            BY <4>2, CharTexts, Zenon
          <6>2. "0" \notin White
            BY DEF White
          <6>3. QED
            BY <6>1, <6>2
        <5>2. trim_php(m) = m
          BY <1>3, <5>1, TrimAllOrNone
        <5>3. QED
          BY <1>6, <5>2
      <4>3. QED
        BY <1>6, <4>1, <4>2 DEF is_php_empty
    <3>2. is_php_empty(<<>>)
      BY DEF is_php_empty
    <3>3. seen = Entry(x.key, trim_php(x.value), <<>>)
      BY <2>4, <2>5, <3>2
    <3>4. QED
      BY <1>1, <3>1, <3>3 DEF Seen
  <2>8. QED
    BY <1>5, <2>1, <2>2, <2>6, <2>7
<1>7. CASE ~is_php_empty(m)
  <2>1. PICK q : q = p \o <<";">>
    OBVIOUS
  <2>2. /\ q \in Seq(HeaderChars) /\ Len(q) = Len(p) + 1 /\ Len(p) \in Nat /\ Len(p) > 0
        /\ \A i \in 1 .. Len(p) : q[i] = p[i]
        /\ q[Len(p) + 1] = ";"
    <3>1. /\ p \o <<";">> \in Seq(HeaderChars) /\ Len(p) \in Nat /\ Len(p \o <<";">>) = Len(p) + 1
          /\ \A i \in 1 .. Len(p) : (p \o <<";">>)[i] = p[i]
          /\ (p \o <<";">>)[Len(p) + 1] = ";"
      BY <1>9
    <3>2. Len(p) # 0
      BY <1>2, EmptySeq
    <3>3. PICK n \in Nat : n = Len(p)
      BY <3>1
    <3>4. n > 0
      BY <3>2, <3>3
    <3>5. QED
      BY <2>1, <3>1, <3>3, <3>4, Zenon
  <2>3. EntryText(x) = q \o m
    <3>1. EntryText(x) = p \o (<<";">> \o m)
      BY <1>1, <1>7 DEF EntryText, PairText
    <3>2. p \o (<<";">> \o m) = (p \o <<";">>) \o m
      BY <1>3, <1>9, Zenon
    <3>3. QED
      BY <2>1, <3>1, <3>2, Zenon
  <2>4. q # <<>> /\ q[1] \notin White /\ q[Len(q)] \notin White
    <3>1. 1 \in 1 .. Len(p) /\ Len(q) > 0
      <4>1. PICK n \in Nat : n = Len(p) /\ n > 0
        BY <2>2
      <4>2. 1 \in 1 .. n /\ n + 1 > 0
        BY <4>1
      <4>3. QED
        BY <2>2, <4>1, <4>2, Zenon
    <3>2. q # <<>>
      BY <2>2, <3>1, NotShorter
    <3>3. q[1] \notin White
      BY <1>2, <2>2, <3>1
    <3>4. q[Len(q)] \notin White
      BY <2>2 DEF White
    <3>5. QED
      BY <3>2, <3>3, <3>4
  <2>5. PICK w \in Seq(HeaderChars) : trim_php(q \o m) = q \o w /\ trim_php(w) = trim_php(m)
    BY <1>3, <2>2, <2>4, TrimTail
  <2>6. PICK member : member = q \o w
    OBVIOUS
  <2>7. TextBefore(member, ";") = p /\ TextAfter(member, ";") = w
    <3>1. TextBefore((p \o <<";">>) \o w, ";") = p /\ TextAfter((p \o <<";">>) \o w, ";") = w
      BY <1>9, <2>5, Zenon
    <3>2. QED
      BY <2>1, <2>6, <3>1, Zenon
  <2>8. ~is_php_empty(member)
    <3>1. q \o w \in Seq(HeaderChars) /\ Len(q \o w) = Len(q) + Len(w) /\ Len(w) \in Nat
      BY <2>2, ConcatText
    <3>2. Len(member) > 1 /\ Len(member) > 0 /\ member \in Seq(HeaderChars)
      <4>1. PICK n \in Nat : n = Len(p) /\ n > 0
        BY <2>2
      <4>2. PICK l \in Nat : l = Len(w)
        BY <3>1
      <4>3. (n + 1) + l > 1 /\ (n + 1) + l > 0
        BY <4>1
      <4>4. Len(member) = (n + 1) + l
        BY <2>2, <2>6, <3>1, <4>1, <4>2, Zenon
      <4>5. QED
        BY <2>6, <3>1, <4>3, <4>4, Zenon
    <3>3. QED
      BY <3>2, NotShorter DEF is_php_empty
  <2>9. PICK seen : seen = Entry(x.key, trim_php(x.value),
                                 IF is_php_empty(trim_php(m)) THEN <<>> ELSE trim_php(m))
    OBVIOUS
  <2>10. ParseMember(EntryText(x)) = IF Ok THEN <<seen>> ELSE <<>>
    <3>1. /\ member = trim_php(EntryText(x)) /\ TextBefore(member, ";") = PairText(x)
          /\ trim_php(TextAfter(member, ";")) = trim_php(m)
      BY <1>1, <2>3, <2>5, <2>6, <2>7
    <3>2. QED
      BY <2>8, <2>9, <3>1, ReadPair
  <2>11. seen = Seen(x)
    BY <1>1, <2>9 DEF Seen
  <2>12. QED
    BY <1>5, <2>10, <2>11
<1>8. QED
  BY <1>6, <1>7


-----------------------------------------------------------------------------
(* A header of plain entries, split into its members again.                 *)

PlainChars == HeaderChars \ {","}

\* A text is a text over any set its bytes are in.
LEMMA NarrowText ==
  ASSUME NEW S, NEW W, NEW t \in Seq(S), \A i \in 1 .. Len(t) : t[i] \in W
  PROVE  t \in Seq(W)
<1>1. Len(t) \in Nat /\ t \in [1 .. Len(t) -> W]
  OBVIOUS
<1>2. QED
  BY <1>1, FunctionText

\* What follows a sequence does not change it.
LEMMA AppendBehind ==
  ASSUME NEW X, NEW t \in Seq(X), NEW u \in Seq(X), NEW x \in X
  PROVE  t \o Append(u, x) = Append(t \o u, x)
<1>1. PICK v : v = <<x>>
  OBVIOUS
<1>2. v \in Seq(X)
  BY <1>1, OneChar, Zenon
<1>3. PICK w : w = t \o u
  OBVIOUS
<1>4. w \in Seq(X)
  BY <1>3, ConcatText
<1>5. Append(u, x) = u \o v /\ Append(w, x) = w \o v
  BY <1>1, <1>4, AppendIsConcat
<1>6. (t \o u) \o v = t \o (u \o v)
  BY <1>2, ConcatAssociative
<1>7. QED
  BY <1>3, <1>5, <1>6, Zenon

\* The last element of a sequence replaced.
WithLast(q, v) == [q EXCEPT ![Len(q)] = v]

\* Writing over the last member.
LEMMA ReplaceLast ==
  ASSUME NEW X, NEW p \in Seq(X), NEW u \in X, NEW v \in X
  PROVE  \A q : q = Append(p, u) => q[Len(q)] = u /\ WithLast(q, v) = Append(p, v)
<1> SUFFICES ASSUME NEW q, q = Append(p, u)
             PROVE  q[Len(q)] = u /\ [q EXCEPT ![Len(q)] = v] = Append(p, v)
  BY DEF WithLast
<1>1. /\ q \in Seq(X) /\ Len(q) = Len(p) + 1 /\ Len(p) \in Nat
      /\ \A i \in 1 .. Len(p) : q[i] = p[i]
      /\ q[Len(p) + 1] = u
  BY AppendProperties
<1>2. PICK a, b : a = [q EXCEPT ![Len(q)] = v] /\ b = Append(p, v)
  OBVIOUS
<1>3. /\ b \in Seq(X) /\ Len(b) = Len(p) + 1
      /\ \A i \in 1 .. Len(p) : b[i] = p[i]
      /\ b[Len(p) + 1] = v
  BY <1>2, AppendProperties
<1>4. /\ a \in Seq(X) /\ Len(a) = Len(p) + 1
      /\ \A i \in 1 .. Len(q) : a[i] = IF i = Len(q) THEN v ELSE q[i]
  <2>1. Len(q) \in Nat /\ Len(q) \in 1 .. Len(q) /\ DOMAIN q = 1 .. Len(q)
        /\ \A i \in 1 .. Len(q) : q[i] \in X
    BY <1>1
  <2>2. \A i \in 1 .. Len(q) : a[i] = IF i = Len(q) THEN v ELSE q[i]
    BY <1>2, <2>1
  <2>3. a \in [1 .. Len(q) -> X]
    BY <1>2, <2>1, <2>2
  <2>4. QED
    BY <1>1, <2>1, <2>2, <2>3, FunctionText
<1>5. \A i \in 1 .. Len(a) : a[i] = b[i]
  <2>1. \A i \in 1 .. Len(a) : i \in 1 .. Len(q) /\ (i = Len(q) \/ i \in 1 .. Len(p))
    BY <1>1, <1>4
  <2>2. \A i \in 1 .. Len(p) : i # Len(q)
    BY <1>1
  <2>3. QED
    BY <1>1, <1>3, <1>4, <2>1, <2>2
<1>6. a = b
  BY <1>3, <1>4, <1>5, SeqEqual
<1>7. QED
  BY <1>1, <1>2, <1>6

\* A text without a comma goes to the last piece as it is.
LEMMA SplitPlain ==
  ASSUME NEW t \in Seq(HeaderChars), NEW p \in Seq(HeaderTexts)
  PROVE  Split(t) = Append(p, <<>>) => \A u \in Seq(PlainChars) : Split(t \o u) = Append(p, u)
<1>0. SUFFICES ASSUME Split(t) = Append(p, <<>>)
               PROVE  \A u \in Seq(PlainChars) : Split(t \o u) = Append(p, u)
  OBVIOUS
<1>a. \A s, y \in Seq(HeaderChars), c \in HeaderChars : s \o Append(y, c) = Append(s \o y, c)
  BY AppendBehind
<1>b. \A s \in Seq(HeaderTexts), y, z \in HeaderTexts : \A q :
        q = Append(s, y) => q[Len(q)] = y /\ WithLast(q, z) = Append(s, z)
  BY ReplaceLast
<1> DEFINE T == {u \in Seq(PlainChars) : Split(t \o u) = Append(p, u)}
<1>1. <<>> \in T
  <2>1. t \o <<>> = t
    BY ConcatEmptySeq, Zenon
  <2>2. <<>> \in Seq(PlainChars)
    OBVIOUS
  <2>3. QED
    BY <1>0, <2>1, <2>2, Zenon
<1>2. ASSUME NEW u \in Seq(PlainChars), NEW x \in PlainChars, u \in T
      PROVE  Append(u, x) \in T
  <2>1. PICK v : v = Append(u, x)
    OBVIOUS
  <2>2. v \in Seq(PlainChars)
    BY <2>1, AppendProperties
  <2>3. PlainChars \subseteq HeaderChars /\ x \in HeaderChars /\ x # ","
    BY DEF PlainChars
  <2>4. u \in Seq(HeaderChars) /\ v \in Seq(HeaderChars)
    BY <2>2, <2>3, SeqMonotonic
  <2>5. PICK w : w = t \o u
    OBVIOUS
  <2>6. w \in Seq(HeaderChars)
    BY <2>4, <2>5, ConcatText
  <2>7. t \o v = Append(w, x)
    <3>1. t \o Append(u, x) = Append(t \o u, x)
      BY <1>a, <2>3, <2>4, Zenon
    <3>2. QED
      BY <2>1, <2>5, <3>1, Zenon
  <2>8. Split(Append(w, x)) = SplitStep(Split(w), x)
    BY <2>3, <2>6, SplitAppend
  <2>9. PICK q : q = Split(w)
    OBVIOUS
  <2>10. q = Append(p, u)
    BY <1>2, <2>5, <2>9
  <2>11. q \in Pieces
    BY <2>6, <2>9, SplitPieces
  <2>12. SplitStep(q, x) = [q EXCEPT ![Len(q)] = Append(@, x)]
    BY <2>3, <2>11, SplitSteps
  <2>13. u \in HeaderTexts /\ v \in HeaderTexts
    BY <2>4 DEF HeaderTexts
  <2>14. q[Len(q)] = u /\ WithLast(q, v) = Append(p, v)
    <3>1. \A y : y = Append(p, u) => y[Len(y)] = u /\ WithLast(y, v) = Append(p, v)
      BY <1>b, <2>13, Zenon
    <3>2. QED
      BY <2>10, <3>1, Zenon
  <2>15. [q EXCEPT ![Len(q)] = Append(@, x)] = WithLast(q, v)
    BY <2>1, <2>14 DEF WithLast
  <2>16. Split(t \o v) = Append(p, v)
    BY <2>7, <2>8, <2>9, <2>12, <2>14, <2>15, Zenon
  <2>17. QED
    BY <2>1, <2>2, <2>16
<1>3. Seq(PlainChars) \subseteq T
  <2> HIDE DEF T
  <2>1. QED
    BY <1>1, <1>2, SeqInductionSet
<1>4. QED
  BY <1>3

\* The text of a plain entry has no comma.
LEMMA PlainText ==
  ASSUME NEW x \in PlainEntries
  PROVE  EntryText(x) \in Seq(PlainChars) /\ EntryText(x) \in HeaderTexts
<1>1. PICK p, m, X : p = PairText(x) /\ m = x.metadata /\ X = PlainChars
  OBVIOUS
<1>2. X \subseteq HeaderChars /\ ";" \in X /\ \A c \in HeaderChars : c # "," => c \in X
  BY <1>1 DEF PlainChars, HeaderChars, Chars, Escape
<1>3. p \in Seq(X)
  <2>1. p \in Seq(HeaderChars) /\ \A i \in 1 .. Len(p) : p[i] \notin White \cup {",", ";"}
    BY <1>1, PairChars
  <2>2. Len(p) \in Nat /\ DOMAIN p = 1 .. Len(p) /\ \A i \in 1 .. Len(p) : p[i] \in HeaderChars
    BY <2>1, TextBytes
  <2>3. \A i \in 1 .. Len(p) : p[i] \in X
    BY <1>2, <2>1, <2>2
  <2>4. QED
    BY <2>1, <2>3, NarrowText
<1>4. m \in Seq(X)
  <2>1. m \in Seq(HeaderChars) /\ "," \notin Range(m)
    BY <1>1 DEF PlainEntries, Entries, HeaderTexts
  <2>2. Len(m) \in Nat /\ DOMAIN m = 1 .. Len(m) /\ \A i \in 1 .. Len(m) : m[i] \in HeaderChars
    BY <2>1, TextBytes
  <2>3. \A i \in 1 .. Len(m) : m[i] \in X
    BY <1>2, <2>1, <2>2 DEF Range
  <2>4. QED
    BY <2>1, <2>3, NarrowText
<1>5. PICK sc : sc = <<";">>
  OBVIOUS
<1>6. sc \in Seq(X) /\ <<>> \in Seq(X)
  BY <1>2, <1>5, OneChar, EmptySeq, Zenon
<1>7. PICK r : r = (IF is_php_empty(m) THEN <<>> ELSE sc \o m)
  OBVIOUS
<1>8. r \in Seq(X)
  <2>1. sc \o m \in Seq(X)
    BY <1>4, <1>6, ConcatText
  <2>2. QED
    BY <1>6, <1>7, <2>1
<1>9. p \o r \in Seq(X)
  BY <1>3, <1>8, ConcatText
<1>10. EntryText(x) = p \o r
  BY <1>1, <1>5, <1>7 DEF EntryText, PairText
<1>11. EntryText(x) \in Seq(X)
  BY <1>9, <1>10, Zenon
<1>12. EntryText(x) \in Seq(HeaderChars)
  BY <1>2, <1>11, SeqMonotonic
<1>13. QED
  BY <1>1, <1>11, <1>12 DEF HeaderTexts

\* The members a reader splits the header into.
MembersOf(s) == IF s = <<>> THEN <<>> ELSE Split(baggage_header(s))

\* The members of a header of one more entry.
LEMMA MembersAppend ==
  ASSUME NEW s \in Seq(PlainEntries), NEW x \in PlainEntries, MembersOf(s) \in Seq(HeaderTexts)
  PROVE  MembersOf(Append(s, x)) = Append(MembersOf(s), EntryText(x))
<1>1. PlainEntries \subseteq Entries
  BY DEF PlainEntries
<1>2. s \in Seq(Entries) /\ x \in Entries
  BY <1>1, SeqMonotonic
<1>3. Append(s, x) # <<>>
  BY <1>2, AppendProperties
<1>4. PICK t, e : t = baggage_header(s) /\ e = EntryText(x)
  OBVIOUS
<1>5. t \in HeaderTexts /\ t \in Seq(HeaderChars) /\ e \in Seq(PlainChars)
  BY <1>2, <1>4, HeaderOfBaggage, PlainText DEF HeaderTexts
<1>6. MembersOf(Append(s, x)) = Split(JoinStep(t, x))
  BY <1>2, <1>3, <1>4, JoinAppend DEF MembersOf
<1>7. CASE s = <<>>
  <2>1. JoinStep(t, x) = e
    <3>1. t = <<>>
      BY <1>4, <1>7, JoinAppend, Zenon
    <3>2. JoinStep(<<>>, x) = EntryText(x)
      BY <1>2, <1>5, JoinSteps, Zenon
    <3>3. QED
      BY <1>4, <3>1, <3>2, Zenon
  <2>2. Split(<<>>) = Append(<<>>, <<>>)
    <3>1. Split(<<>>) = EmptyPiece
      BY SplitAppend, Zenon
    <3>2. Append(<<>>, <<>>) = <<(<<>>)>>
      OBVIOUS
    <3>3. QED
      BY <3>1, <3>2 DEF EmptyPiece
  <2>3. <<>> \in Seq(HeaderChars) /\ <<>> \in Seq(HeaderTexts)
    BY EmptySeq, Zenon
  <2>4. Split(<<>> \o e) = Append(<<>>, e)
    BY <1>5, <2>2, <2>3, SplitPlain, Zenon
  <2>5. <<>> \o e = e
    BY <1>5, ConcatEmptySeq, Zenon
  <2>6. MembersOf(s) = <<>>
    BY <1>7 DEF MembersOf
  <2>7. QED
    BY <1>4, <1>6, <2>1, <2>4, <2>5, <2>6, Zenon
<1>8. CASE s # <<>>
  <2>1. t # <<>>
    BY <1>2, <1>4, <1>8, HeaderOfBaggage DEF is_php_empty
  <2>2. JoinStep(t, x) = (t \o <<",">>) \o e
    BY <1>2, <1>4, <1>5, <2>1, JoinSteps, Zenon
  <2>3. "," \in HeaderChars
    BY DEF HeaderChars, Chars, Escape
  <2>4. Append(t, ",") = t \o <<",">>
    BY <1>5, <2>3, AppendIsConcat
  <2>5. PICK p, a : p = MembersOf(s) /\ a = Append(t, ",")
    OBVIOUS
  <2>6. p = Split(t)
    BY <1>4, <1>8, <2>5 DEF MembersOf
  <2>7. p \in Pieces /\ a \in Seq(HeaderChars)
    BY <1>5, <2>3, <2>5, <2>6, SplitPieces, AppendProperties
  <2>8. Split(a) = Append(p, <<>>)
    <3>1. Split(Append(t, ",")) = SplitStep(Split(t), ",")
      BY <1>5, <2>3, SplitAppend, Zenon
    <3>2. SplitStep(p, ",") = Append(p, <<>>)
      BY <2>3, <2>7, SplitSteps, Zenon
    <3>3. QED
      BY <2>5, <2>6, <3>1, <3>2, Zenon
  <2>9. Split(a \o e) = Append(p, e)
    BY <1>5, <2>5, <2>7, <2>8, SplitPlain
  <2>10. QED
    BY <1>4, <1>6, <2>2, <2>4, <2>5, <2>9, Zenon
<1>9. QED
  BY <1>7, <1>8

\* The entries a reader finds in the members.
Parsed(ms) == FlattenSeq([i \in DOMAIN ms |-> ParseMember(ms[i])])

\* What the parser finds in one more member.
LEMMA ParsedAppend ==
  /\ Parsed(<<>>) = <<>>
  /\ \A ms \in Seq(HeaderTexts), t \in HeaderTexts : Parsed(Append(ms, t)) = Parsed(ms) \o ParseMember(t)
<1>1. PICK Z : Z = Seq(Entries)
  OBVIOUS
<1>2. \A t \in HeaderTexts : ParseMember(t) \in Z
  BY <1>1, MemberEntries
<1>3. /\ FlattenSeq(<<>>) = <<>>
      /\ \A s \in Seq(Z), t \in Z : Len(s) > 0 => FlattenSeq(Append(s, t)) = FlattenSeq(s) \o t
      /\ \A t \in Z : FlattenSeq(Append(<<>>, t)) = t
  <2>1. /\ FlattenSeq(<<>>) = <<>>
        /\ \A s \in Seq(Seq(Entries)), t \in Seq(Entries) :
             Len(s) > 0 => FlattenSeq(Append(s, t)) = FlattenSeq(s) \o t
        /\ \A t \in Seq(Entries) : FlattenSeq(Append(<<>>, t)) = t
    BY FlattenAppend
  <2>2. QED
    BY <1>1, <2>1, Zenon
<1>4. Parsed(<<>>) = <<>>
  <2>1. [i \in DOMAIN <<>> |-> ParseMember(<<>>[i])] = <<>>
    OBVIOUS
  <2>2. QED
    BY <1>3, <2>1, Zenon DEF Parsed
<1>5. ASSUME NEW ms \in Seq(HeaderTexts), NEW t \in HeaderTexts
      PROVE  Parsed(Append(ms, t)) = Parsed(ms) \o ParseMember(t)
  <2>1. PICK ns : ns = Append(ms, t)
    OBVIOUS
  <2>2. /\ ns \in Seq(HeaderTexts) /\ Len(ns) = Len(ms) + 1 /\ ns[Len(ms) + 1] = t /\ Len(ms) \in Nat
        /\ \A i \in 1 .. Len(ms) : ns[i] = ms[i]
        /\ DOMAIN ms = 1 .. Len(ms) /\ DOMAIN ns = 1 .. Len(ns)
    BY <2>1, AppendProperties
  <2>3. PICK f, g, v : /\ f = [i \in DOMAIN ms |-> ParseMember(ms[i])]
                       /\ g = [i \in DOMAIN ns |-> ParseMember(ns[i])]
                       /\ v = ParseMember(t)
    OBVIOUS
  <2>4. v \in Z
    BY <1>2, <2>3
  <2>5. f \in Seq(Z) /\ Len(f) = Len(ms) /\ \A i \in 1 .. Len(ms) : f[i] = ParseMember(ms[i])
    <3>1. \A i \in 1 .. Len(ms) : ms[i] \in HeaderTexts
      BY TextBytes
    <3>2. f \in [1 .. Len(ms) -> Z]
      BY <1>2, <2>2, <2>3, <3>1
    <3>3. \A i \in 1 .. Len(ms) : f[i] = ParseMember(ms[i])
      BY <2>2, <2>3
    <3>4. QED
      BY <2>2, <3>2, <3>3, FunctionText
  <2>6. g \in Seq(Z) /\ Len(g) = Len(ns) /\ \A i \in 1 .. Len(ns) : g[i] = ParseMember(ns[i])
    <3>1. \A i \in 1 .. Len(ns) : ns[i] \in HeaderTexts
      BY <2>2, TextBytes
    <3>2. g \in [1 .. Len(ns) -> Z]
      BY <1>2, <2>2, <2>3, <3>1
    <3>3. \A i \in 1 .. Len(ns) : g[i] = ParseMember(ns[i])
      BY <2>2, <2>3
    <3>4. Len(ns) \in Nat
      BY <2>2
    <3>5. QED
      BY <3>2, <3>3, <3>4, FunctionText
  <2>7. PICK h : h = Append(f, v)
    OBVIOUS
  <2>8. /\ h \in Seq(Z) /\ Len(h) = Len(f) + 1 /\ h[Len(f) + 1] = v
        /\ \A i \in 1 .. Len(f) : h[i] = f[i]
    BY <2>4, <2>5, <2>7, AppendProperties
  <2>9. g = h
    <3>1. \A i \in 1 .. Len(ms) : g[i] = h[i]
      <4>1. TAKE i \in 1 .. Len(ms)
      <4>2. i \in 1 .. Len(ns) /\ i \in 1 .. Len(f)
        BY <2>2, <2>5
      <4>3. QED
        BY <2>2, <2>5, <2>6, <2>8, <4>2
    <3>2. g[Len(ms) + 1] = h[Len(ms) + 1]
      <4>1. Len(ms) + 1 \in 1 .. Len(ns)
        BY <2>2
      <4>2. g[Len(ms) + 1] = ParseMember(t)
        BY <2>2, <2>6, <4>1
      <4>3. QED
        BY <2>3, <2>5, <2>8, <4>2
    <3>3. \A i \in 1 .. Len(g) : i \in 1 .. Len(ms) \/ i = Len(ms) + 1
      BY <2>2, <2>6
    <3>4. \A i \in 1 .. Len(g) : g[i] = h[i]
      BY <3>1, <3>2, <3>3
    <3>5. Len(g) = Len(h)
      BY <2>2, <2>5, <2>6, <2>8
    <3>6. QED
      BY <2>6, <2>8, <3>4, <3>5, SeqEqual
  <2>10. Parsed(ns) = FlattenSeq(Append(f, v)) /\ Parsed(ms) = FlattenSeq(f)
    BY <2>3, <2>7, <2>9 DEF Parsed
  <2>11. CASE Len(f) > 0
    BY <1>3, <2>1, <2>3, <2>4, <2>5, <2>10, <2>11
  <2>12. CASE ~(Len(f) > 0)
    <3>1. f = <<>>
      BY <2>2, <2>5, <2>12, EmptySeq
    <3>2. Parsed(ns) = v /\ Parsed(ms) = <<>>
      BY <1>3, <2>4, <2>10, <3>1, Zenon
    <3>3. <<>> \o v = v
      BY <1>1, <2>4, ConcatEmptySeq, Zenon
    <3>4. QED
      BY <2>1, <2>3, <3>2, <3>3, Zenon
  <2>13. QED
    BY <2>11, <2>12
<1>6. QED
  BY <1>4, <1>5


-----------------------------------------------------------------------------
(* What a reader makes of a header of plain entries.                        *)

SeenAll(s) == [i \in DOMAIN s |-> Seen(s[i])]

\* A reader's view of an entry is an entry.
LEMMA SeenEntry ==
  ASSUME NEW x \in Entries
  PROVE  Seen(x) \in Entries /\ Seen(x).key = x.key
<1>1. x.key \in Texts /\ trim_php(x.value) \in Texts /\ trim_php(x.metadata) \in HeaderTexts
  BY TrimText DEF Entries, Texts, HeaderTexts
<1>2. <<>> \in HeaderTexts
  BY CharTexts
<1>3. QED
  BY <1>1, <1>2 DEF Seen, Entry, Entries

\* A reader's view of a baggage, entry by entry.
LEMMA SeenAllIs ==
  ASSUME NEW s \in Seq(Entries)
  PROVE  /\ SeenAll(s) \in Seq(Entries) /\ Len(SeenAll(s)) = Len(s) /\ Len(s) \in Nat
         /\ \A i \in 1 .. Len(s) : SeenAll(s)[i] = Seen(s[i])
<1>1. PICK f : f = SeenAll(s)
  OBVIOUS
<1>2. Len(s) \in Nat /\ DOMAIN s = 1 .. Len(s) /\ \A i \in 1 .. Len(s) : s[i] \in Entries
  BY TextBytes
<1>3. f = [i \in 1 .. Len(s) |-> Seen(s[i])]
  BY <1>1, <1>2 DEF SeenAll
<1>4. \A i \in 1 .. Len(s) : f[i] = Seen(s[i]) /\ Seen(s[i]) \in Entries
  BY <1>2, <1>3, SeenEntry
<1>5. f \in [1 .. Len(s) -> Entries]
  BY <1>3, <1>4
<1>6. QED
  BY <1>1, <1>2, <1>4, <1>5, FunctionText

\* A reader's view of one more entry.
LEMMA SeenAppend ==
  ASSUME NEW s \in Seq(Entries), NEW x \in Entries
  PROVE  SeenAll(<<>>) = <<>> /\ SeenAll(Append(s, x)) = Append(SeenAll(s), Seen(x))
<1>1. SeenAll(<<>>) = <<>>
  BY DEF SeenAll
<1>2. PICK t, f, g, h, y : /\ t = Append(s, x) /\ f = SeenAll(s) /\ g = SeenAll(t)
                           /\ y = Seen(x) /\ h = Append(f, y)
  OBVIOUS
<1>3. /\ t \in Seq(Entries) /\ Len(t) = Len(s) + 1 /\ t[Len(s) + 1] = x
      /\ \A i \in 1 .. Len(s) : t[i] = s[i]
  BY <1>2, AppendProperties
<1>4. /\ f \in Seq(Entries) /\ Len(f) = Len(s) /\ Len(s) \in Nat
      /\ \A i \in 1 .. Len(s) : f[i] = Seen(s[i])
  BY <1>2, SeenAllIs
<1>5. g \in Seq(Entries) /\ Len(g) = Len(t) /\ \A i \in 1 .. Len(t) : g[i] = Seen(t[i])
  BY <1>2, <1>3, SeenAllIs
<1>6. y \in Entries
  BY <1>2, SeenEntry
<1>7. /\ h \in Seq(Entries) /\ Len(h) = Len(f) + 1 /\ h[Len(f) + 1] = y
      /\ \A i \in 1 .. Len(f) : h[i] = f[i]
  BY <1>2, <1>4, <1>6, AppendProperties
<1>8. \A i \in 1 .. Len(g) : g[i] = h[i]
  <2>1. \A i \in 1 .. Len(g) : i \in 1 .. Len(t) /\ (i \in 1 .. Len(s) \/ i = Len(s) + 1)
    BY <1>3, <1>4, <1>5
  <2>2. \A i \in 1 .. Len(s) : i \in 1 .. Len(t) /\ g[i] = h[i]
    <3>1. \A i \in 1 .. Len(s) : i \in 1 .. Len(t) /\ i \in 1 .. Len(f)
      BY <1>3, <1>4
    <3>2. QED
      BY <1>3, <1>4, <1>5, <1>7, <3>1
  <2>3. g[Len(s) + 1] = h[Len(s) + 1]
    <3>1. Len(s) + 1 \in 1 .. Len(t)
      BY <1>3, <1>4
    <3>2. QED
      BY <1>2, <1>3, <1>4, <1>5, <1>7, <3>1
  <2>4. QED
    BY <2>1, <2>2, <2>3
<1>9. g = h
  <2>1. Len(g) = Len(h)
    BY <1>3, <1>4, <1>5, <1>7
  <2>2. QED
    BY <1>5, <1>7, <1>8, <2>1, SeqEqual
<1>10. QED
  BY <1>1, <1>2, <1>9

\* The reader finds the entries it accepts, as it sees them, in their order.
LEMMA FoundEntries ==
  \A s \in Seq(PlainEntries) : /\ MembersOf(s) \in Seq(HeaderTexts)
                               /\ Parsed(MembersOf(s)) = Keep(SeenAll(s), Accepted)
<1> DEFINE T == {s \in Seq(PlainEntries) : /\ MembersOf(s) \in Seq(HeaderTexts)
                                           /\ Parsed(MembersOf(s)) = Keep(SeenAll(s), Accepted)}
<1>1. PlainEntries \subseteq Entries
  BY DEF PlainEntries
<1>2. <<>> \in T
  <2>1. MembersOf(<<>>) = <<>>
    BY DEF MembersOf
  <2>2. <<>> \in Seq(HeaderTexts) /\ <<>> \in Seq(PlainEntries)
    BY EmptySeq, Zenon
  <2>3. Parsed(<<>>) = <<>>
    BY ParsedAppend, Zenon
  <2>4. SeenAll(<<>>) = <<>>
    BY DEF SeenAll
  <2>5. Keep(<<>>, Accepted) = <<>>
    BY KeepEmpty, Zenon
  <2>6. QED
    BY <2>1, <2>2, <2>3, <2>4, <2>5, Zenon
<1>3. ASSUME NEW s \in Seq(PlainEntries), NEW x \in PlainEntries, s \in T
      PROVE  Append(s, x) \in T
  <2>1. s \in Seq(Entries) /\ x \in Entries
    BY <1>1, SeqMonotonic
  <2>2. PICK p, e, k, y, a, b : /\ p = MembersOf(s) /\ e = EntryText(x)
                                /\ k = SeenAll(s) /\ y = Seen(x)
                                /\ a = Parsed(p) /\ b = ParseMember(e)
    OBVIOUS
  <2>3. p \in Seq(HeaderTexts) /\ a = Keep(k, Accepted)
    BY <1>3, <2>2
  <2>4. e \in HeaderTexts /\ b = IF y \in Accepted THEN <<y>> ELSE <<>>
    BY <2>2, PlainText, ReadEntry
  <2>5. MembersOf(Append(s, x)) = Append(p, e)
    BY <2>2, <2>3, MembersAppend
  <2>6. Append(p, e) \in Seq(HeaderTexts)
    BY <2>3, <2>4, AppendProperties
  <2>7. Parsed(Append(p, e)) = a \o b
    BY <2>2, <2>3, <2>4, ParsedAppend
  <2>8. SeenAll(Append(s, x)) = Append(k, y)
    BY <2>1, <2>2, SeenAppend
  <2>9. k \in Seq(Entries) /\ y \in Entries
    BY <2>1, <2>2, SeenAllIs, SeenEntry
  <2>10. Keep(Append(k, y), Accepted) = IF y \in Accepted THEN Append(a, y) ELSE a
    BY <2>3, <2>9, KeepAppend
  <2>11. a \in Seq(Entries)
    BY <2>3, <2>9, KeepRange
  <2>12. a \o b = IF y \in Accepted THEN Append(a, y) ELSE a
    <3>1. Append(a, y) = a \o <<y>>
      BY <2>9, <2>11, AppendIsConcat
    <3>2. a \o <<>> = a
      BY <2>11, ConcatEmptySeq, Zenon
    <3>3. CASE y \in Accepted
      BY <2>4, <3>1, <3>3, Zenon
    <3>4. CASE y \notin Accepted
      BY <2>4, <3>2, <3>4, Zenon
    <3>5. QED
      BY <3>3, <3>4
  <2>13. PICK t : t = Append(s, x)
    OBVIOUS
  <2>14. t \in Seq(PlainEntries)
    BY <2>13, AppendProperties
  <2>15. MembersOf(t) \in Seq(HeaderTexts) /\ Parsed(MembersOf(t)) = Keep(SeenAll(t), Accepted)
    BY <2>5, <2>6, <2>7, <2>8, <2>10, <2>12, <2>13, Zenon
  <2>16. QED
    BY <2>13, <2>14, <2>15
<1>4. Seq(PlainEntries) \subseteq T
  <2> HIDE DEF T
  <2>1. QED
    BY <1>2, <1>3, SeqInductionSet
<1>5. QED
  BY <1>4

\* A prefix of what is kept of the seen entries of a baggage is a baggage.
LEMMA KeptBaggage ==
  ASSUME NEW s, Baggage(s), NEW S, NEW n \in Nat, n <= Len(Keep(SeenAll(s), S))
  PROVE  Baggage(SubSeq(Keep(SeenAll(s), S), 1, n))
<1>1. PICK f, k, q : f = SeenAll(s) /\ k = Keep(f, S) /\ q = SubSeq(k, 1, n)
  OBVIOUS
<1>2. s \in Seq(Entries) /\ UniqueKeys(s) /\ \A i \in 1 .. Len(s) : s[i].key # <<>>
  BY DEF Baggage
<1>3. /\ f \in Seq(Entries) /\ Len(f) = Len(s) /\ Len(s) \in Nat
      /\ \A i \in 1 .. Len(s) : f[i] = Seen(s[i])
  BY <1>1, <1>2, SeenAllIs
<1>4. \A i \in 1 .. Len(f) : f[i].key = s[i].key
  <2>1. \A i \in 1 .. Len(s) : s[i] \in Entries
    BY <1>2, TextBytes
  <2>2. \A i \in 1 .. Len(s) : Seen(s[i]).key = s[i].key
    BY <2>1, SeenEntry
  <2>3. QED
    BY <1>3, <2>2
<1>5. UniqueKeys(f) /\ \A i \in 1 .. Len(f) : f[i].key # <<>>
  BY <1>2, <1>3, <1>4 DEF UniqueKeys
<1>6. /\ k \in Seq(Entries) /\ Len(k) \in Nat /\ UniqueKeys(k)
      /\ \A i \in 1 .. Len(k) : \E j \in 1 .. Len(f) : k[i] = f[j]
  <2>1. k \in Seq(Entries)
    BY <1>1, <1>3, KeepRange
  <2>2. /\ \A i \in 1 .. Len(Keep(f, S)) : \E j \in 1 .. Len(f) : Keep(f, S)[i] = f[j] /\ f[j] \in S
        /\ Len(Keep(f, S)) \in Nat
        /\ UniqueKeys(f) => UniqueKeys(Keep(f, S))
    BY <1>3, KeepUnique
  <2>3. QED
    BY <1>1, <1>5, <2>1, <2>2, Zenon
<1>7. \A i \in 1 .. Len(k) : k[i].key # <<>>
  BY <1>5, <1>6
<1>8. n <= Len(k)
  BY <1>1
<1>9. /\ q \in Seq(Entries) /\ Len(q) = n
      /\ \A i \in 1 .. n : q[i] = k[i] /\ i \in 1 .. Len(k)
  <2>1. /\ SubSeq(k, 1, n) \in Seq(Entries)
        /\ 1 <= n => Len(SubSeq(k, 1, n)) = n - 1 + 1
        /\ 1 > n => SubSeq(k, 1, n) = <<>>
        /\ \A i \in 1 .. (n - 1 + 1) : SubSeq(k, 1, n)[i] = k[1 + i - 1]
    BY <1>6, <1>8, PartOf
  <2>2. n - 1 + 1 = n /\ (1 <= n \/ n = 0) /\ \A i \in 1 .. n : 1 + i - 1 = i /\ i \in 1 .. Len(k)
    BY <1>6, <1>8
  <2>3. Len(q) = n
    <3>1. CASE 1 <= n
      BY <1>1, <2>1, <2>2, <3>1, Zenon
    <3>2. CASE n = 0
      <4>1. 1 > n
        BY <3>2
      <4>2. q = <<>>
        BY <1>1, <2>1, <4>1, Zenon
      <4>3. QED
        BY <3>2, <4>2
    <3>3. QED
      BY <2>2, <3>1, <3>2
  <2>4. q \in Seq(Entries) /\ \A i \in 1 .. n : q[i] = k[1 + i - 1]
    BY <1>1, <2>1, <2>2, Zenon
  <2>5. QED
    BY <2>2, <2>3, <2>4
<1>10. UniqueKeys(q)
  BY <1>6, <1>9 DEF UniqueKeys
<1>11. \A i \in 1 .. Len(q) : q[i].key # <<>>
  BY <1>7, <1>9
<1>12. QED
  BY <1>1, <1>9, <1>10, <1>11 DEF Baggage

\* Readable is stated on the entries seen; it keeps the accepted ones.
LEMMA ReadableIs ==
  ASSUME NEW s \in Seq(Entries)
  PROVE  LET ok == Keep(SeenAll(s), Accepted)
         IN  Readable(s) = SubSeq(ok, 1, Min({Len(ok), MaxEntries}))
<1>1. PICK f : f = SeenAll(s)
  OBVIOUS
<1>2. PICK A : A = {e \in Range(f) : /\ ~is_php_empty(e.key) /\ ~is_php_empty(e.value)
                                     /\ ~value_has_excluded_character(e.value)}
  OBVIOUS
<1>3. PICK k, g : k = Keep(f, Accepted) /\ g = Keep(f, A)
  OBVIOUS
<1>4. f \in Seq(Entries) /\ \A e \in Range(f) : e \in Entries
  <2>1. f \in Seq(Entries)
    BY <1>1, SeenAllIs
  <2>2. DOMAIN f = 1 .. Len(f) /\ \A i \in 1 .. Len(f) : f[i] \in Entries
    BY <2>1, TextBytes
  <2>3. QED
    BY <2>1, <2>2 DEF Range
<1>5. A = Range(f) \cap Accepted /\ A \subseteq Accepted
  BY <1>2, <1>4 DEF Accepted
<1>6. g = k
  <2>1. Keep(Keep(f, Accepted), A) = Keep(f, A)
    BY <1>4, <1>5, KeepNarrower
  <2>2. k \in Seq(Entries) /\ Range(k) = A
    BY <1>3, <1>4, <1>5, KeepRange
  <2>3. k \in Seq(A)
    <3>1. DOMAIN k = 1 .. Len(k)
      BY <2>2, TextBytes
    <3>2. \A i \in 1 .. Len(k) : k[i] \in A
      BY <2>2, <3>1 DEF Range
    <3>3. QED
      BY <2>2, <3>2, NarrowText
  <2>4. Keep(k, A) = k
    BY <2>3, KeepAllOrNone
  <2>5. QED
    BY <1>3, <2>1, <2>4, Zenon
<1>7. Readable(s) = SubSeq(g, 1, Min({Len(g), MaxEntries}))
  <2>1. f = [i \in DOMAIN s |->
              Entry(s[i].key, trim_php(s[i].value),
                    IF is_php_empty(trim_php(s[i].metadata)) THEN <<>> ELSE trim_php(s[i].metadata))]
    BY <1>1 DEF SeenAll, Seen
  <2>2. QED
    BY <1>2, <1>3, <2>1, Zenon DEF Readable
<1>8. QED
  BY <1>1, <1>3, <1>6, <1>7, Zenon

\* A header of plain entries is read as their readable ones.
LEMMA ReadPlain ==
  ASSUME NEW s \in Seq(PlainEntries), Baggage(s), s # <<>>
  PROVE  parse_into_builder(baggage_header(s)) =
           IF Bytes(baggage_header(s)) > MaxBytes THEN <<>> ELSE Readable(s)
<1>1. PICK h, ms, k, n : /\ h = baggage_header(s) /\ ms = Split(h) /\ k = Keep(SeenAll(s), Accepted)
                         /\ n = Min({Len(k), MaxEntries})
  OBVIOUS
<1>2. s \in Seq(Entries)
  BY DEF Baggage
<1>3. MembersOf(s) = ms
  BY <1>1 DEF MembersOf
<1>4. Parsed(ms) = k
  BY <1>1, <1>3, FoundEntries
<1>5. k \in Seq(Entries) /\ Len(k) \in Nat /\ MaxEntries \in Nat
  <2>1. SeenAll(s) \in Seq(Entries)
    BY <1>2, SeenAllIs
  <2>2. k \in Seq(Entries)
    BY <1>1, <2>1, KeepRange
  <2>3. QED
    BY <2>2, BoundsAssumption
<1>6. n \in Nat /\ n <= Len(k)
  BY <1>1, <1>5, MinTwo
<1>7. PICK q : q = SubSeq(k, 1, n)
  OBVIOUS
<1>8. Baggage(q)
  BY <1>1, <1>6, <1>7, KeptBaggage
<1>9. set_all(q) = q
  <2>1. q \in Seq(Entries)
    BY <1>8 DEF Baggage
  <2>2. QED
    BY <1>8, <2>1, SetAllBaggage
<1>10. Readable(s) = q
  BY <1>1, <1>2, <1>7, ReadableIs, Zenon
<1>11. parse_into_builder(h) = IF Bytes(h) > MaxBytes THEN <<>>
                               ELSE set_all(SubSeq(Parsed(ms), 1, Min({Len(Parsed(ms)), MaxEntries})))
  BY <1>1, Zenon DEF parse_into_builder, Parsed
<1>12. QED
  BY <1>1, <1>4, <1>7, <1>9, <1>10, <1>11, Zenon

\* InjectedBaggageArrives follows from the invariant.
LEMMA BaggageArrives == PropagationInvariant => InjectedBaggageArrives
<1>1. SUFFICES ASSUME PropagationInvariant, sent.baggage # <<>>,
                      \A i \in DOMAIN sent.baggage : /\ Written(sent.baggage[i].key)
                                                     /\ "," \notin Range(sent.baggage[i].metadata)
               PROVE  extract_baggage(carrier, ctx).baggage =
                        IF Bytes(baggage_header(sent.baggage)) > MaxBytes THEN <<>>
                        ELSE Readable(sent.baggage)
  BY DEF InjectedBaggageArrives
<1>2. PICK b : b = sent.baggage
  OBVIOUS
<1>3. /\ carrier \in Seq(Headers) /\ ctx \in Contexts /\ b \in Baggages /\ b # <<>>
      /\ HoldsBaggage(carrier, b)
  BY <1>1, <1>2 DEF PropagationInvariant
<1>4. Baggage(b) /\ b \in Seq(Entries)
  BY <1>3 DEF Baggages
<1>5. b \in Seq(PlainEntries)
  <2>1. DOMAIN b = 1 .. Len(b) /\ \A i \in 1 .. Len(b) : b[i] \in Entries
    BY <1>4, TextBytes
  <2>2. \A i \in 1 .. Len(b) : b[i].key # <<>>
    BY <1>4 DEF Baggage
  <2>3. \A i \in 1 .. Len(b) : b[i] \in PlainEntries
    BY <1>1, <1>2, <2>1, <2>2 DEF PlainEntries
  <2>4. QED
    BY <1>4, <2>3, NarrowText
<1>6. extract_baggage(carrier, ctx).baggage = parse_into_builder(baggage_header(b))
  BY <1>3, ExtractBaggages
<1>7. QED
  BY <1>2, <1>3, <1>4, <1>5, <1>6, ReadPlain

\* A baggage whose keys and metadata need no escaping arrives entry for entry
\* and replaces the reader's.
THEOREM InjectedBaggages == Spec => []InjectedBaggageArrives
<1>1. QED
  BY PropagationInvariantHolds, BaggageArrives, PTL
=============================================================================
