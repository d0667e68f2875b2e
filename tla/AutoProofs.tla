----------------------------- MODULE AutoProofs -----------------------------
(***************************************************************************)
(* Theorems about AutoInstrumentation, for any depth of calls, any number  *)
(* of spans, objects, panics and requests, and any choice of applications. *)
(*                                                                         *)
(* A hook is followed by the word it runs and the number n of its steps    *)
(* that are done.  The facts about the handlers are those of the tables    *)
(* Pre and Post, word by word (PreWords, PostWords); the rest of the proof *)
(* does not look at a single handler.                                      *)
(***************************************************************************)
EXTENDS AutoInstrumentation, FilterProofs, TLAPS

\* Step x is among the first n of the word.
Done(w, n, x) == \E j \in 1 .. n : w[j] = x

\* What is left of the word after n steps.
RestOf(w, n) == SubSeq(w, n + 1, Len(w))

Words(h, f) == IF h = "pre" THEN Pre(f.fn) ELSE Post(f.fn, f.sub)

\* Functions whose hooks mark the call with a flag.
Marked == {"_connect", "Command::run"}

\* Functions whose pre hook may start a span.
Starters ==
  {"sendRequest", "Application::run", "connect", "prepare", "execute", "Connection::execute",
   "_connect", "Adapter::prepare", "Statement::execute", "Command::run", "Command::execute"}

MarkOf(f) == IF f.span # 0 THEN "true" ELSE "false"

AllFrames ==
  [fn : AllFunctions, this : Addrs \cup {0}, sub : BOOLEAN, span : 0 .. MaxSpans, cut : BOOLEAN]

\* A call of this application, with a span only if its hooks start one.
Fits(f) ==
  /\ f.fn \in functions
  /\ f.sub => f.fn = "HttpKernel::handle"
  /\ f.fn \in StatementFunctions => f.this \in Addrs
  /\ f.span # 0 => f.fn \in Starters
  /\ f.span <= spans

\* The span of an inner call is younger.
Younger ==
  \A i, j \in 1 .. Here :
    j < i /\ frames[i].span # 0 /\ frames[j].span # 0 => frames[j].span < frames[i].span

\* Calls in progress are of this application, and hooks run for the innermost.
FrameTypes ==
  /\ functions \in Applications /\ functions \subseteq AllFunctions
  /\ frames \in Seq(AllFrames) /\ Here <= MaxDepth
  /\ \A i \in 1 .. Here : Fits(frames[i])
  /\ Younger
  /\ hook \in {"none", "pre", "post"}
  /\ hook # "none" => frames # <<>> /\ phase = "running"
  /\ phase = "idle" => frames = <<>>
  /\ spans \in 0 .. MaxSpans
  /\ ctx \in Seq([by : {"hook", "user"}, span : Nat \ {0}])

\* The other variables.
ValueTypes ==
  /\ observer_api \in BOOLEAN
  /\ held \in 0 .. MaxSpans
  /\ guard_map \in [Depths -> 0 .. MaxSpans]
  /\ flags \in [Depths -> {"true", "false", "none"}]
  /\ objects \in Nat /\ panics \in Nat
  /\ connection_attrs \in [{"laminas", "zf1"} -> [Addrs -> 0 .. objects]]
  /\ statement_attrs \in [{"laminas", "zf1"} -> [Addrs -> 0 .. objects]]
  /\ heap \in [Addrs -> [id : 0 .. objects, described : BOOLEAN]]
  /\ ignored \subseteq functions
  /\ phase \in {"idle", "running"}
  /\ bailed \in {"no", "now", "before"} /\ unwound \in BOOLEAN

\* The pre hook has done n steps of w.
PreAt(w, n) ==
  /\ held = 0 /\ ~Me.cut
  /\ Me.span # 0 <=> Done(w, n, "start")
  /\ Done(w, n, "mark") => flags[Here] = "true"
  /\ Done(w, n, "unmarked") => flags[Here] = "false"
  /\ panics = 0 /\ bailed = "no" /\ ~Done(w, n, "mark") /\ ~Done(w, n, "unmarked") =>
       flags[Here] = "none"

Taken(w, n) == Done(w, n, "take") \/ Done(w, n, "takemarked")

Unmarked(w, n) == Done(w, n, "unmark") \/ Done(w, n, "unmarkstop")

\* The post hook has done n steps of w.
PostAt(w, n) ==
  /\ Undisturbed => IF Taken(w, n) THEN held = Me.span /\ guard_map[Here] = 0
                                   ELSE held = 0 /\ guard_map[Here] = Me.span
  /\ panics = 0 /\ Me.fn \in Marked =>
       flags[Here] = IF Unmarked(w, n) THEN "none" ELSE MarkOf(Me)
  /\ panics = 0 /\ bailed = "no" /\ Me.fn \notin Marked => flags[Here] = "none"

\* A hook runs one of its handler's words, and has done what the steps so far do.
ProgramInv ==
  hook # "none" =>
    \E w \in Words(hook, Me) : \E n \in 0 .. Len(w) :
      /\ program = RestOf(w, n)
      /\ hook = "pre" => PreAt(w, n)
      /\ hook = "post" => PostAt(w, n)

\* Between hooks, guards and flags are those of the calls in progress.
TableInv ==
  /\ Undisturbed => \A i \in 1 .. Here : i < Here \/ hook # "post" => guard_map[i] = frames[i].span
  /\ Undisturbed => \A d \in Depths : d > Here => guard_map[d] = 0
  /\ panics = 0 => \A i \in 1 .. Here : i < Here \/ hook = "none" =>
                     IF frames[i].fn \in Marked THEN flags[i] = MarkOf(frames[i])
                     ELSE bailed = "no" => flags[i] = "none"
  /\ panics = 0 /\ bailed = "no" => \A d \in Depths : d > Here => flags[d] = "none"
  /\ hook = "none" => held = 0

Inv == FrameTypes /\ ValueTypes /\ ProgramInv /\ TableInv

-----------------------------------------------------------------------------
(* The words of the handlers.                                               *)

StepNames ==
  {"start", "take", "takemarked", "mark", "unmarked", "unmark", "unmarkstop", "outcome",
   "enclosing", "onroot", "connection", "statement", "describe"}

\* What every word of a pre hook has in common.
PreWord(fn, w) ==
  /\ \A i \in 1 .. Len(w) :
       /\ w[i] \notin {"take", "takemarked", "unmark", "unmarkstop", "statement"}
       /\ w[i] = "start" => fn \in Starters
       /\ w[i] \in {"mark", "unmarked"} => fn \in Marked
       /\ \A j \in 1 .. Len(w) :
            /\ w[i] = "start" /\ w[j] = "start" => i = j
            /\ ~(w[i] = "unmarked" /\ w[j] \in {"start", "mark"})
  /\ fn \in Marked => \E i \in 1 .. Len(w) : w[i] \in {"mark", "unmarked"}
  /\ fn \in Marked /\ (\E i \in 1 .. Len(w) : w[i] = "mark") =>
       \E i \in 1 .. Len(w) : w[i] = "start"

\* What every word of a post hook has in common.
PostWord(fn, w) ==
  /\ \A i \in 1 .. Len(w) :
       /\ w[i] \notin {"start", "mark", "unmarked"}
       /\ w[i] = "statement" => fn \in {"prepare", "Adapter::prepare"}
       /\ w[i] \in {"unmark", "unmarkstop", "takemarked"} => fn \in Marked
       /\ \A j \in 1 .. Len(w) :
            /\ w[i] \in {"take", "takemarked"} /\ w[j] \in {"take", "takemarked"} => i = j
            /\ w[i] \in {"unmark", "unmarkstop"} /\ w[j] = "takemarked" => j < i
            /\ w[i] \in {"unmark", "unmarkstop"} /\ w[j] \in {"unmark", "unmarkstop"} => i = j
  /\ fn \in Marked => \E i \in 1 .. Len(w) : w[i] \in {"unmark", "unmarkstop"}
  /\ fn \in Starters => \E i \in 1 .. Len(w) : w[i] \in {"take", "takemarked"}

\* Words of at most two steps.
LEMMA ShortWords ==
  /\ <<>> \in Seq(StepNames)
  /\ \A x \in StepNames : <<x>> \in Seq(StepNames)
  /\ \A x, y \in StepNames : <<x, y>> \in Seq(StepNames)
OBVIOUS

\* The words of the pre hooks, one by one.
LEMMA PreWords ==
  ASSUME NEW fn \in AllFunctions, NEW w \in Pre(fn)
  PROVE  w \in Seq(StepNames) /\ PreWord(fn, w)
<1>1. CASE fn = "sendRequest"
  <2>1. w = <<"start", "outcome">>
    BY <1>1 DEF Pre, Psr18SendRequestPre
  <2>2. w \in Seq(StepNames) /\ Len(w) = 2 /\ w[1] = "start" /\ w[2] = "outcome"
    BY <2>1 DEF StepNames
  <2>3. QED
    BY <1>1, <2>2 DEF PreWord, Marked, Starters
<1>2. CASE fn = "Application::run"
  <2>1. w = <<"onroot", "start">>
    BY <1>2 DEF Pre, LaminasApplicationRunPre
  <2>2. w \in Seq(StepNames) /\ Len(w) = 2 /\ w[1] = "onroot" /\ w[2] = "start"
    BY <2>1 DEF StepNames
  <2>3. QED
    BY <1>2, <2>2 DEF PreWord, Marked, Starters
<1>3. CASE fn = "completeRequest"
  <2>1. w \in Seq(StepNames)
    BY <1>3, ShortWords DEF Pre, LaminasCompleteRequestPre, StepNames
  <2>2. PreWord(fn, w)
    BY <1>3 DEF Pre, LaminasCompleteRequestPre, PreWord, Marked, Starters
  <2>3. QED
    BY <2>1, <2>2
<1>4. CASE fn = "setRouteMatch"
  <2>1. w \in Seq(StepNames)
    BY <1>4, ShortWords DEF Pre, LaminasRoutePre, StepNames
  <2>2. PreWord(fn, w)
    BY <1>4 DEF Pre, LaminasRoutePre, PreWord, Marked, Starters
  <2>3. QED
    BY <2>1, <2>2
<1>5. CASE fn = "connect"
  <2>1. w = <<"start", "outcome", "connection">>
    BY <1>5 DEF Pre, LaminasDbConnectPre
  <2>2. w \in Seq(StepNames) /\ Len(w) = 3 /\ w[1] = "start" /\ w[2] = "outcome" /\ w[3] = "connection"
    BY <2>1 DEF StepNames
  <2>3. QED
    BY <1>5, <2>2 DEF PreWord, Marked, Starters
<1>6. CASE fn = "prepare"
  <2>1. w = <<"start">>
    BY <1>6 DEF Pre, LaminasStatementPreparePre
  <2>2. w \in Seq(StepNames) /\ Len(w) = 1 /\ w[1] = "start"
    BY <2>1 DEF StepNames
  <2>3. QED
    BY <1>6, <2>2 DEF PreWord, Marked, Starters
<1>7. CASE fn = "execute"
  <2>1. w = <<"start">>
    BY <1>7 DEF Pre, LaminasStatementExecutePre
  <2>2. w \in Seq(StepNames) /\ Len(w) = 1 /\ w[1] = "start"
    BY <2>1 DEF StepNames
  <2>3. QED
    BY <1>7, <2>2 DEF PreWord, Marked, Starters
<1>8. CASE fn = "Connection::execute"
  <2>1. w = <<"start">>
    BY <1>8 DEF Pre, LaminasConnectionExecutePre
  <2>2. w \in Seq(StepNames) /\ Len(w) = 1 /\ w[1] = "start"
    BY <2>1 DEF StepNames
  <2>3. QED
    BY <1>8, <2>2 DEF PreWord, Marked, Starters
<1>9. CASE fn = "_connect"
  <2>1. w = <<"unmarked">> \/ w = <<"start", "connection", "mark">>
    BY <1>9 DEF Pre, Zf1AdapterConnectPre
  <2>2. CASE w = <<"unmarked">>
    <3>1. w \in Seq(StepNames) /\ Len(w) = 1 /\ w[1] = "unmarked"
      BY <2>2 DEF StepNames
    <3>2. QED
      BY <1>9, <3>1 DEF PreWord, Marked, Starters
  <2>3. CASE w = <<"start", "connection", "mark">>
    <3>1. w \in Seq(StepNames) /\ Len(w) = 3 /\ w[1] = "start" /\ w[2] = "connection" /\ w[3] = "mark"
      BY <2>3 DEF StepNames
    <3>2. QED
      BY <1>9, <3>1 DEF PreWord, Marked, Starters
  <2>4. QED
    BY <2>1, <2>2, <2>3
<1>10. CASE fn = "Adapter::prepare"
  <2>1. w = <<"start">>
    BY <1>10 DEF Pre, Zf1AdapterPreparePre
  <2>2. w \in Seq(StepNames) /\ Len(w) = 1 /\ w[1] = "start"
    BY <2>1 DEF StepNames
  <2>3. QED
    BY <1>10, <2>2 DEF PreWord, Marked, Starters
<1>11. CASE fn = "Statement::execute"
  <2>1. w = <<"describe", "start", "outcome">>
    BY <1>11 DEF Pre, Zf1StatementExecutePre
  <2>2. w \in Seq(StepNames) /\ Len(w) = 3 /\ w[1] = "describe" /\ w[2] = "start" /\ w[3] = "outcome"
    BY <2>1 DEF StepNames
  <2>3. QED
    BY <1>11, <2>2 DEF PreWord, Marked, Starters
<1>12. CASE fn = "Command::run"
  <2>1. w = <<"unmarked">> \/ w = <<"mark", "start">>
    BY <1>12 DEF Pre, SymfonyConsoleCommandPre
  <2>2. CASE w = <<"unmarked">>
    <3>1. w \in Seq(StepNames) /\ Len(w) = 1 /\ w[1] = "unmarked"
      BY <2>2 DEF StepNames
    <3>2. QED
      BY <1>12, <3>1 DEF PreWord, Marked, Starters
  <2>3. CASE w = <<"mark", "start">>
    <3>1. w \in Seq(StepNames) /\ Len(w) = 2 /\ w[1] = "mark" /\ w[2] = "start"
      BY <2>3 DEF StepNames
    <3>2. QED
      BY <1>12, <3>1 DEF PreWord, Marked, Starters
  <2>4. QED
    BY <2>1, <2>2, <2>3
<1>13. CASE fn = "Command::execute"
  <2>1. w = <<"start">>
    BY <1>13 DEF Pre, LaravelConsoleCommandPre
  <2>2. w \in Seq(StepNames) /\ Len(w) = 1 /\ w[1] = "start"
    BY <2>1 DEF StepNames
  <2>3. QED
    BY <1>13, <2>2 DEF PreWord, Marked, Starters
<1>14. CASE fn = "Kernel::handle"
  <2>1. w \in Seq(StepNames)
    BY <1>14, ShortWords DEF Pre, LaravelHttpKernelPre, StepNames
  <2>2. PreWord(fn, w)
    BY <1>14 DEF Pre, LaravelHttpKernelPre, PreWord, Marked, Starters
  <2>3. QED
    BY <2>1, <2>2
<1>15. CASE fn \in {"route", "sendResponse", "HttpKernel::handle"}
  <2>1. w = <<>>
    BY <1>15 DEF Pre
  <2>2. QED
    BY <1>15, <2>1 DEF PreWord, Marked, Starters, StepNames
<1>16. QED
  BY <1>1, <1>2, <1>3, <1>4, <1>5, <1>6, <1>7, <1>8, <1>9,
     <1>10, <1>11, <1>12, <1>13, <1>14, <1>15
     DEF AllFunctions, LaminasFunctions, Zf1Functions, SymfonyFunctions, LaravelFunctions

\* The words of the post hooks, one by one.
LEMMA PostWords ==
  ASSUME NEW fn \in AllFunctions, NEW sub \in BOOLEAN, NEW w \in Post(fn, sub)
  PROVE  w \in Seq(StepNames) /\ PostWord(fn, w)
<1>1. CASE fn = "sendRequest"
  <2>1. w = <<"take", "outcome">>
    BY <1>1 DEF Post, Psr18SendRequestPost
  <2>2. w \in Seq(StepNames) /\ Len(w) = 2 /\ w[1] = "take" /\ w[2] = "outcome"
    BY <2>1 DEF StepNames
  <2>3. QED
    BY <1>1, <2>2 DEF PostWord, Marked, Starters
<1>2. CASE fn = "Application::run"
  <2>1. w = <<"take">>
    BY <1>2 DEF Post, LaminasApplicationRunPost
  <2>2. w \in Seq(StepNames) /\ Len(w) = 1 /\ w[1] = "take"
    BY <2>1 DEF StepNames
  <2>3. QED
    BY <1>2, <2>2 DEF PostWord, Marked, Starters
<1>3. CASE fn = "connect"
  <2>1. w = <<"take", "outcome">>
    BY <1>3 DEF Post, LaminasDbConnectPost
  <2>2. w \in Seq(StepNames) /\ Len(w) = 2 /\ w[1] = "take" /\ w[2] = "outcome"
    BY <2>1 DEF StepNames
  <2>3. QED
    BY <1>3, <2>2 DEF PostWord, Marked, Starters
<1>4. CASE fn = "prepare"
  <2>1. w = <<"take", "outcome", "statement", "outcome">>
    BY <1>4 DEF Post, LaminasStatementPreparePost
  <2>2. w \in Seq(StepNames) /\ Len(w) = 4 /\ w[1] = "take" /\ w[2] = "outcome" /\ w[3] = "statement" /\ w[4] = "outcome"
    BY <2>1 DEF StepNames
  <2>3. QED
    BY <1>4, <2>2 DEF PostWord, Marked, Starters
<1>5. CASE fn = "execute"
  <2>1. w = <<"take", "outcome", "describe">>
    BY <1>5 DEF Post, LaminasStatementExecutePost
  <2>2. w \in Seq(StepNames) /\ Len(w) = 3 /\ w[1] = "take" /\ w[2] = "outcome" /\ w[3] = "describe"
    BY <2>1 DEF StepNames
  <2>3. QED
    BY <1>5, <2>2 DEF PostWord, Marked, Starters
<1>6. CASE fn = "Connection::execute"
  <2>1. w = <<"take", "outcome">>
    BY <1>6 DEF Post, LaminasConnectionExecutePost
  <2>2. w \in Seq(StepNames) /\ Len(w) = 2 /\ w[1] = "take" /\ w[2] = "outcome"
    BY <2>1 DEF StepNames
  <2>3. QED
    BY <1>6, <2>2 DEF PostWord, Marked, Starters
<1>7. CASE fn = "route"
  <2>1. w = <<"onroot">>
    BY <1>7 DEF Post, Zf1RoutePost
  <2>2. w \in Seq(StepNames) /\ Len(w) = 1 /\ w[1] = "onroot"
    BY <2>1 DEF StepNames
  <2>3. QED
    BY <1>7, <2>2 DEF PostWord, Marked, Starters
<1>8. CASE fn = "sendResponse"
  <2>1. w \in Seq(StepNames)
    BY <1>8, ShortWords DEF Post, Zf1SendResponsePost, StepNames
  <2>2. PostWord(fn, w)
    BY <1>8 DEF Post, Zf1SendResponsePost, PostWord, Marked, Starters
  <2>3. QED
    BY <2>1, <2>2
<1>9. CASE fn = "_connect"
  <2>1. w = <<"takemarked", "outcome", "unmark">>
    BY <1>9 DEF Post, Zf1AdapterConnectPost
  <2>2. w \in Seq(StepNames) /\ Len(w) = 3 /\ w[1] = "takemarked" /\ w[2] = "outcome" /\ w[3] = "unmark"
    BY <2>1 DEF StepNames
  <2>3. QED
    BY <1>9, <2>2 DEF PostWord, Marked, Starters
<1>10. CASE fn = "Adapter::prepare"
  <2>1. w = <<"take", "outcome">> \/ w = <<"take", "outcome", "statement">>
    BY <1>10 DEF Post, Zf1AdapterPreparePost
  <2>2. CASE w = <<"take", "outcome">>
    <3>1. w \in Seq(StepNames) /\ Len(w) = 2 /\ w[1] = "take" /\ w[2] = "outcome"
      BY <2>2 DEF StepNames
    <3>2. QED
      BY <1>10, <3>1 DEF PostWord, Marked, Starters
  <2>3. CASE w = <<"take", "outcome", "statement">>
    <3>1. w \in Seq(StepNames) /\ Len(w) = 3 /\ w[1] = "take" /\ w[2] = "outcome" /\ w[3] = "statement"
      BY <2>3 DEF StepNames
    <3>2. QED
      BY <1>10, <3>1 DEF PostWord, Marked, Starters
  <2>4. QED
    BY <2>1, <2>2, <2>3
<1>11. CASE fn = "Statement::execute"
  <2>1. w = <<"take", "outcome">>
    BY <1>11 DEF Post, Zf1StatementExecutePost
  <2>2. w \in Seq(StepNames) /\ Len(w) = 2 /\ w[1] = "take" /\ w[2] = "outcome"
    BY <2>1 DEF StepNames
  <2>3. QED
    BY <1>11, <2>2 DEF PostWord, Marked, Starters
<1>12. CASE fn = "Command::run"
  <2>1. w = <<"unmarkstop", "take", "outcome">>
    BY <1>12 DEF Post, SymfonyConsoleCommandPost
  <2>2. w \in Seq(StepNames) /\ Len(w) = 3 /\ w[1] = "unmarkstop" /\ w[2] = "take" /\ w[3] = "outcome"
    BY <2>1 DEF StepNames
  <2>3. QED
    BY <1>12, <2>2 DEF PostWord, Marked, Starters
<1>13. CASE fn = "HttpKernel::handle"
  <2>1. w \in Seq(StepNames)
    BY <1>13, ShortWords DEF Post, SymfonyHttpKernelPost, StepNames
  <2>2. PostWord(fn, w)
    BY <1>13 DEF Post, SymfonyHttpKernelPost, PostWord, Marked, Starters
  <2>3. QED
    BY <2>1, <2>2
<1>14. CASE fn = "Command::execute"
  <2>1. w = <<"take", "outcome">>
    BY <1>14 DEF Post, LaravelConsoleCommandPost
  <2>2. w \in Seq(StepNames) /\ Len(w) = 2 /\ w[1] = "take" /\ w[2] = "outcome"
    BY <2>1 DEF StepNames
  <2>3. QED
    BY <1>14, <2>2 DEF PostWord, Marked, Starters
<1>15. CASE fn = "Kernel::handle"
  <2>1. w \in Seq(StepNames)
    BY <1>15, ShortWords DEF Post, LaravelHttpKernelPost, StepNames
  <2>2. PostWord(fn, w)
    BY <1>15 DEF Post, LaravelHttpKernelPost, PostWord, Marked, Starters
  <2>3. QED
    BY <2>1, <2>2
<1>16. CASE fn \in {"completeRequest", "setRouteMatch"}
  <2>1. w = <<>>
    BY <1>16 DEF Post
  <2>2. QED
    BY <1>16, <2>1 DEF PostWord, Marked, Starters, StepNames
<1>17. QED
  BY <1>1, <1>2, <1>3, <1>4, <1>5, <1>6, <1>7, <1>8, <1>9,
     <1>10, <1>11, <1>12, <1>13, <1>14, <1>15, <1>16
     DEF AllFunctions, LaminasFunctions, Zf1Functions, SymfonyFunctions, LaravelFunctions

-----------------------------------------------------------------------------
(* Following a word.                                                        *)

\* A word is left step by step.
LEMMA RestFacts ==
  ASSUME NEW w \in Seq(StepNames), NEW n \in 0 .. Len(w)
  PROVE  /\ Len(w) \in Nat
         /\ RestOf(w, 0) = w
         /\ RestOf(w, n) = <<>> <=> n = Len(w)
         /\ n < Len(w) => /\ Head(RestOf(w, n)) = w[n + 1]
                          /\ Tail(RestOf(w, n)) = RestOf(w, n + 1)
                          /\ n + 1 \in 0 .. Len(w) /\ n + 1 \in 1 .. Len(w)
<1>1. Len(w) \in Nat
  BY LenProperties
<1>2. RestOf(w, 0) = w
  BY <1>1, SubSeqFull DEF RestOf
<1>3. n = Len(w) => RestOf(w, n) = <<>>
  BY <1>1, SubSeqEmpty DEF RestOf
<1>4. ASSUME n < Len(w)
      PROVE  /\ RestOf(w, n) # <<>>
             /\ Head(RestOf(w, n)) = w[n + 1]
             /\ Tail(RestOf(w, n)) = RestOf(w, n + 1)
  <2>1. n + 1 \in 1 .. Len(w) /\ Len(w) \in n + 1 .. Len(w)
    BY <1>1, <1>4
  <2>2. Len(RestOf(w, n)) = Len(w) - n
    BY <1>1, <1>4, <2>1, SubSeqProperties DEF RestOf
  <2>3. RestOf(w, n) # <<>>
    BY <1>1, <1>4, <2>2, EmptySeq
  <2>4. QED
    BY <2>1, <2>3, HeadTailOfSubSeq DEF RestOf
<1>5. QED
  BY <1>1, <1>2, <1>3, <1>4

\* One step more has been done.
LEMMA DoneFacts ==
  ASSUME NEW w, NEW n \in Nat, NEW x
  PROVE  /\ ~Done(w, 0, x)
         /\ Done(w, n + 1, x) <=> Done(w, n, x) \/ w[n + 1] = x
BY DEF Done

-----------------------------------------------------------------------------
(* Frames.                                                                  *)

\* The innermost call, and the calls around it.
LEMMA FrameFacts ==
  ASSUME frames \in Seq(AllFrames), frames # <<>>
  PROVE  /\ Here \in Nat \ {0} /\ Here \in 1 .. Here
         /\ Me = frames[Here] /\ Me \in AllFrames
         /\ \A i \in 1 .. Here : frames[i] \in AllFrames
<1>1. Here \in Nat /\ \A i \in 1 .. Here : frames[i] \in AllFrames
  BY LenProperties, ElementOfSeq DEF Here
<1>2. Here # 0
  BY <1>1, EmptySeq DEF Here
<1>3. QED
  BY <1>1, <1>2 DEF Me, Here, Last

\* A word of the hook that runs.
LEMMA HookWord ==
  ASSUME FrameTypes, hook # "none", NEW w \in Words(hook, Me)
  PROVE  /\ w \in Seq(StepNames)
         /\ hook = "pre" => PreWord(Me.fn, w)
         /\ hook = "post" => PostWord(Me.fn, w)
<1>1. Me \in AllFrames
  BY FrameFacts DEF FrameTypes
<1>2. Me.fn \in AllFunctions /\ Me.sub \in BOOLEAN
  BY <1>1 DEF AllFrames
<1>3. CASE hook = "pre"
  BY <1>2, <1>3, PreWords DEF Words
<1>4. CASE hook = "post"
  BY <1>2, <1>4, PostWords DEF Words
<1>5. QED
  BY <1>3, <1>4 DEF FrameTypes

\* The next step of the hook that runs is the next of its word.
LEMMA StepFacts ==
  ASSUME NEW w \in Seq(StepNames), NEW n \in 0 .. Len(w), program = RestOf(w, n), NEW x, Step(x)
  PROVE  /\ n + 1 \in 1 .. Len(w) /\ n + 1 \in 0 .. Len(w) /\ n \in Nat /\ Len(w) \in Nat
         /\ w[n + 1] = x /\ Tail(program) = RestOf(w, n + 1)
         /\ \A y : (Step(y) <=> y = x) /\ (Done(w, n + 1, y) <=> Done(w, n, y) \/ y = x)
<1>1. n # Len(w) /\ Len(w) \in Nat /\ n \in Nat
  BY RestFacts DEF Step
<1>2. n + 1 \in 1 .. Len(w) /\ n + 1 \in 0 .. Len(w) /\ n < Len(w)
  BY <1>1
<1>3. w[n + 1] = x /\ Tail(program) = RestOf(w, n + 1)
  BY <1>2, RestFacts DEF Step
<1>4. QED
  BY <1>1, <1>2, <1>3, DoneFacts DEF Step

-----------------------------------------------------------------------------
(* Types.                                                                   *)

\* Steps of hooks that change neither calls nor contexts.
QuietSteps ==
  \/ TakeGuard \/ SetFlag \/ RemoveFlag \/ RecordOutcome
  \/ StoreConnection \/ StoreStatement \/ DescribeExecution

\* Steps of PHP code that leave calls, guards, flags and contexts alone.
QuietPhp ==
  \/ RequestInit
  \/ \E fn \in functions : CallUnselected(fn)
  \/ \E a \in Addrs : Allocate(a) \/ Free(a)

Calls ==
  \E fn \in functions, this \in Addrs \cup {0}, sub \in BOOLEAN :
    \E pre \in Pre(fn) : Call(fn, this, sub, pre)

Returns == frames # <<>> /\ \E post \in Post(Me.fn, Me.sub) : Return(post)

\* The steps, by what they do to calls.
LEMMA NextCases ==
  ASSUME Next
  PROVE  \/ QuietPhp \/ Calls \/ Returns \/ Bailout \/ UserAttach \/ UserDetach
         \/ StartSpan \/ QuietSteps \/ HookReturns \/ HookPanics
         \/ RequestShutdown \/ RequestShutdownPanics
BY DEF Next, QuietPhp, QuietSteps, Calls, Returns

\* What those that leave the calls alone do not change.
LEMMA QuietFacts ==
  /\ QuietSteps => UNCHANGED <<fixedVars, functions, bailed, unwound, frames, hook, spans, ctx, phase>>
  /\ QuietPhp => UNCHANGED <<functions, frames, program, hook, held, spans, ctx, tableVars, bailed,
                             unwound>>
<1>1. QuietSteps => UNCHANGED <<fixedVars, frames, hook, spans, ctx, phase>>
  BY DEF QuietSteps, TakeGuard, SetFlag, RemoveFlag, RecordOutcome, StoreConnection,
         StoreStatement, DescribeExecution, Rest, fixedVars, tableVars, countVars
<1>2. QuietPhp => UNCHANGED <<functions, frames, program, hook, held, spans, ctx, tableVars, bailed,
                              unwound>>
  BY DEF QuietPhp, RequestInit, CallUnselected, Allocate, Free, fixedVars, tableVars, countVars
<1>3. QED
  BY <1>1, <1>2 DEF fixedVars

\* The hook that runs has done n steps of w.
RunsAt(w, n) ==
  /\ w \in Seq(StepNames) /\ n \in 0 .. Len(w)
  /\ w \in Words(hook, Me) /\ program = RestOf(w, n)
  /\ hook = "pre" => PreAt(w, n) /\ PreWord(Me.fn, w)
  /\ hook = "post" => PostAt(w, n) /\ PostWord(Me.fn, w)
  /\ hook \in {"pre", "post"} /\ frames # <<>> /\ phase = "running"

\* A hook that runs is somewhere in one of its words.
LEMMA Running ==
  ASSUME Inv, hook # "none"
  PROVE  \E w, n : RunsAt(w, n)
<1>1. PICK w \in Words(hook, Me) : \E n \in 0 .. Len(w) :
        /\ program = RestOf(w, n)
        /\ hook = "pre" => PreAt(w, n)
        /\ hook = "post" => PostAt(w, n)
  BY DEF Inv, ProgramInv
<1>2. /\ w \in Seq(StepNames)
      /\ hook = "pre" => PreWord(Me.fn, w)
      /\ hook = "post" => PostWord(Me.fn, w)
  BY HookWord DEF Inv
<1>3. hook \in {"pre", "post"} /\ frames # <<>> /\ phase = "running"
  BY DEF Inv, FrameTypes
<1>4. QED
  BY <1>1, <1>2, <1>3 DEF RunsAt

\* A span is started by a pre hook that may start one, and has not yet.
LEMMA StartFacts ==
  ASSUME Inv, Step("start")
  PROVE  hook = "pre" /\ frames # <<>> /\ Me.fn \in Starters /\ Me.span = 0 /\ held = 0
<1>1. PICK w, n : RunsAt(w, n)
  BY Running DEF Step
<1>2. n + 1 \in 1 .. Len(w) /\ w[n + 1] = "start" /\ n \in Nat /\ Len(w) \in Nat
  BY <1>1, StepFacts DEF RunsAt
<1>3. hook = "pre"
  BY <1>1, <1>2 DEF RunsAt, PostWord
<1>4. Me.fn \in Starters /\ ~Done(w, n, "start")
  BY <1>1, <1>2, <1>3 DEF RunsAt, PreWord, Done
<1>5. QED
  BY <1>1, <1>3, <1>4 DEF RunsAt, PreAt

\* Dropping a guard leaves a stack of contexts.
LEMMA WithoutType ==
  ASSUME NEW X, NEW s \in Seq(X), NEW h
  PROVE  Without(s, h) \in Seq(X)
<1>1. Without(s, h) \in Seq(X \cap (SdkContexts \ {[by |-> "hook", span |-> h]}))
  BY KeepIsSeq DEF Without
<1>2. QED
  BY <1>1, SeqMonotonic

\* PHP code detaches one of its own contexts.
LEMMA DetachFacts ==
  ASSUME NEW X, ctx \in Seq(X), UserDetach
  PROVE  \E i \in 1 .. Len(ctx) : ctx[i].by = "user" /\ ctx' = RemoveAt(ctx, i)
<1> DEFINE I == {i \in 1 .. Len(ctx) : ctx[i].by = "user"}
<1>1. I # {} /\ ctx' = RemoveAt(ctx, Max(I))
  BY DEF UserDetach, SelectLastInSeq
<1>2. Len(ctx) \in Nat /\ I \in SUBSET (1 .. Len(ctx))
  BY LenProperties
<1>3. Max(I) \in I
  BY <1>1, <1>2, LastPosition
<1>4. QED
  BY <1>1, <1>3

Contexts == [by : {"hook", "user"}, span : Nat \ {0}]

\* The types of calls and contexts are kept.
LEMMA FrameTypesStep ==
  ASSUME AutoAssumption, Inv, [Next]_vars
  PROVE  FrameTypes'
<1>0. /\ FrameTypes /\ ValueTypes
      /\ MaxSpans \in Nat /\ MaxDepth \in Nat
      /\ Here \in Nat /\ \A i \in 1 .. Here : frames[i] \in AllFrames
      /\ ctx \in Seq(Contexts)
  BY LenProperties, ElementOfSeq DEF AutoAssumption, Inv, FrameTypes, Here, Contexts
<1>1. CASE UNCHANGED vars
  BY <1>0, <1>1 DEF FrameTypes, Fits, Younger, vars, Here
<1>2. CASE QuietPhp
  <2>1. phase' \in {phase, "running"}
    BY <1>2 DEF QuietPhp, RequestInit, CallUnselected, Allocate, Free
  <2>2. QED
    BY <1>0, <1>2, <2>1, QuietFacts DEF FrameTypes, Fits, Younger, Here
<1>3. CASE Calls
  <2>1. PICK fn \in functions, this \in Addrs \cup {0}, sub \in BOOLEAN :
          \E pre \in Pre(fn) : Call(fn, this, sub, pre)
    BY <1>3 DEF Calls
  <2>2. PICK f : f = [fn |-> fn, this |-> this, sub |-> sub, span |-> 0, cut |-> FALSE]
    OBVIOUS
  <2>3. /\ frames' = Append(frames, f) /\ Here < MaxDepth /\ hook' = "pre" /\ phase = "running"
        /\ UNCHANGED <<functions, ctx, phase, spans>>
        /\ f.sub => f.fn = "HttpKernel::handle"
        /\ f.fn \in StatementFunctions => f.this \in Addrs
        /\ f.fn \in functions /\ f.span = 0
    BY <2>1, <2>2 DEF Call, Callable, PhpRuns, fixedVars
  <2>4. f \in AllFrames
    BY <1>0, <2>1, <2>2 DEF FrameTypes, AllFrames
  <2>5. /\ frames' \in Seq(AllFrames) /\ frames' # <<>> /\ Here' = Here + 1
        /\ \A i \in 1 .. Here : frames'[i] = frames[i]
        /\ frames'[Here + 1] = f
    BY <1>0, <2>3, <2>4, AppendProperties DEF FrameTypes, Here
  <2>6. Fits(f)'
    BY <1>0, <2>3 DEF FrameTypes, Fits
  <2>7. \A i \in 1 .. Here' : Fits(frames[i])'
    <3>1. TAKE i \in 1 .. Here'
    <3>2. CASE i = Here + 1
      BY <2>3, <2>5, <2>6, <3>2 DEF Fits
    <3>3. CASE i # Here + 1
      <4>1. i \in 1 .. Here /\ frames'[i] = frames[i]
        BY <1>0, <2>5, <3>3
      <4>2. QED
        BY <1>0, <2>3, <4>1 DEF FrameTypes, Fits
    <3>4. QED
      BY <3>2, <3>3
  <2>8. Younger'
    <3>1. \A i \in 1 .. Here' : frames'[i].span # 0 => i \in 1 .. Here /\ frames'[i] = frames[i]
      <4>1. TAKE i \in 1 .. Here'
      <4>2. i = Here + 1 \/ i \in 1 .. Here
        BY <1>0, <2>5
      <4>3. QED
        BY <2>3, <2>5, <4>2
    <3>2. QED
      BY <1>0, <3>1 DEF FrameTypes, Younger
  <2>9. Here' <= MaxDepth
    BY <1>0, <2>3, <2>5
  <2>10. QED
    BY <1>0, <2>3, <2>5, <2>7, <2>8, <2>9 DEF FrameTypes
<1>4. CASE Returns
  BY <1>0, <1>4 DEF Returns, Return, PhpRuns, fixedVars, FrameTypes, Fits, Younger, Here
<1>5. CASE Bailout
  <2>1. /\ frames' = <<>> /\ UNCHANGED <<functions, hook, ctx, spans, phase>> /\ hook = "none"
    BY <1>5 DEF Bailout, PhpRuns
  <2>2. Here' = 0 /\ frames' \in Seq(AllFrames)
    BY <2>1, EmptySeq DEF Here
  <2>3. QED
    BY <1>0, <2>1, <2>2 DEF FrameTypes, Younger
<1>6. CASE UserAttach
  <2>1. /\ spans < MaxSpans /\ spans' = spans + 1
        /\ ctx' = Append(ctx, [by |-> "user", span |-> spans + 1])
        /\ UNCHANGED <<functions, frames, hook, phase>>
    BY <1>6 DEF UserAttach, fixedVars
  <2>2. ctx' \in Seq(Contexts)
    BY <1>0, <2>1, AppendProperties DEF FrameTypes, Contexts
  <2>3. spans \in Nat /\ \A i \in 1 .. Here : frames[i].span \in Nat
    BY <1>0 DEF FrameTypes, AllFrames
  <2>4. \A i \in 1 .. Here : Fits(frames[i])'
    BY <1>0, <2>1, <2>3 DEF FrameTypes, Fits
  <2>5. Here' = Here /\ Younger'
    BY <1>0, <2>1 DEF FrameTypes, Younger, Here
  <2>6. QED
    BY <1>0, <2>1, <2>2, <2>3, <2>4, <2>5 DEF FrameTypes, Contexts
<1>7. CASE UserDetach
  <2>1. PICK i \in 1 .. Len(ctx) : ctx[i].by = "user" /\ ctx' = RemoveAt(ctx, i)
    BY <1>0, <1>7, DetachFacts
  <2>2. ctx' \in Seq(Contexts)
    BY <1>0, <2>1, RemoveIsSeq
  <2>3. QED
    BY <1>0, <1>7, <2>2 DEF UserDetach, fixedVars, FrameTypes, Fits, Younger, Here, Contexts
<1>8. CASE StartSpan
  <2>1. hook = "pre" /\ frames # <<>> /\ Me.fn \in Starters /\ Me.span = 0
    BY <1>8, StartFacts DEF StartSpan
  <2> DEFINE e == [by |-> "hook", span |-> spans + 1]
  <2>2. /\ spans < MaxSpans /\ spans' = spans + 1
        /\ frames' = [frames EXCEPT ![Here].span = spans + 1]
        /\ ctx' = Without(Append(ctx, e), guard_map[Here])
        /\ UNCHANGED <<functions, hook, phase>>
    BY <1>8 DEF StartSpan, Rest, fixedVars
  <2>3. spans \in Nat /\ spans + 1 \in 0 .. MaxSpans /\ spans + 1 \in Nat \ {0}
    BY <1>0, <2>2 DEF FrameTypes
  <2>4. ctx' \in Seq(Contexts)
    <3>1. Append(ctx, e) \in Seq(Contexts)
      BY <1>0, <2>3, AppendProperties DEF Contexts
    <3>2. QED
      BY <2>2, <3>1, WithoutType
  <2>5. /\ Here \in 1 .. Here /\ Here \in Nat /\ Me = frames[Here] /\ Me \in AllFrames
    BY <1>0, <2>1, FrameFacts DEF FrameTypes
  <2> DEFINE f == [Me EXCEPT !.span = spans + 1]
  <2>6. /\ f \in AllFrames /\ f.fn = Me.fn /\ f.this = Me.this /\ f.sub = Me.sub /\ f.span = spans + 1
    BY <2>3, <2>5 DEF AllFrames
  <2>7. frames' = [frames EXCEPT ![Here] = f]
    BY <2>2, <2>5
  <2> HIDE DEF f
  <2>8. /\ frames' \in Seq(AllFrames) /\ Here' = Here
        /\ \A i \in 1 .. Here : frames'[i] = IF i = Here THEN f ELSE frames[i]
    BY <1>0, <2>5, <2>6, <2>7, ExceptSeq DEF FrameTypes, Here
  <2>9. frames' # <<>>
    BY <2>5, <2>8, EmptySeq DEF Here
  <2>10. \A i \in 1 .. Here : frames[i].span \in Nat /\ frames[i].span <= spans
    BY <1>0 DEF FrameTypes, Fits, AllFrames
  <2>11. \A i \in 1 .. Here' : Fits(frames[i])'
    <3>1. TAKE i \in 1 .. Here'
    <3>2. Fits(frames[i]) /\ Fits(Me)
      BY <1>0, <2>5, <2>8 DEF FrameTypes
    <3>3. frames[i].span <= spans + 1
      BY <2>3, <2>8, <2>10
    <3>4. QED
      BY <2>1, <2>2, <2>3, <2>5, <2>6, <2>8, <3>2, <3>3 DEF Fits
  <2>12. Younger'
    <3>1. \A i \in 1 .. Here : i # Here => frames'[i] = frames[i] /\ frames[i].span < spans + 1
      BY <2>3, <2>8, <2>10
    <3>2. frames'[Here].span = spans + 1 /\ \A i, j \in 1 .. Here : j < i => j # Here
      BY <2>5, <2>6, <2>8
    <3>3. SUFFICES ASSUME NEW i \in 1 .. Here, NEW j \in 1 .. Here, j < i,
                          frames'[i].span # 0, frames'[j].span # 0
                   PROVE  frames'[j].span < frames'[i].span
      BY <2>8 DEF Younger
    <3>4. j # Here /\ frames'[j] = frames[j] /\ frames[j].span < spans + 1
      BY <3>1, <3>2, <3>3
    <3>5. CASE i = Here
      BY <3>2, <3>4, <3>5
    <3>6. CASE i # Here
      <4>1. frames'[i] = frames[i]
        BY <3>1, <3>6
      <4>2. QED
        BY <1>0, <3>3, <3>4, <4>1 DEF FrameTypes, Younger
    <3>7. QED
      BY <3>5, <3>6
  <2>13. QED
    BY <1>0, <2>1, <2>2, <2>3, <2>4, <2>8, <2>9, <2>11, <2>12 DEF FrameTypes, Contexts
<1>9. CASE QuietSteps
  BY <1>0, <1>9, QuietFacts DEF FrameTypes, Fits, Younger, Here
<1>10. ASSUME hook # "none", NEW p \in BOOLEAN, LeaveHook(p)
       PROVE  FrameTypes'
  <2>1. frames # <<>> /\ phase = "running"
    BY <1>0, <1>10 DEF FrameTypes
  <2>2. /\ Here \in 1 .. Here /\ Here \in Nat /\ Me = frames[Here] /\ Me \in AllFrames
    BY <1>0, <2>1, FrameFacts DEF FrameTypes
  <2>3. /\ hook' = "none" /\ UNCHANGED <<functions, phase, spans>>
        /\ ctx' \in {ctx, Without(ctx, held)}
    BY <1>10 DEF LeaveHook, fixedVars
  <2>4. ctx' \in Seq(Contexts)
    BY <1>0, <2>3, WithoutType
  <2>5. CASE hook = "post"
    <3>1. frames' = Front(frames)
      BY <1>10, <2>5 DEF LeaveHook
    <3>2. /\ frames' \in Seq(AllFrames) /\ Here' = Here - 1
          /\ \A i \in 1 .. Here - 1 : frames'[i] = frames[i]
      BY <1>0, <2>1, <3>1, FrontLast DEF FrameTypes, Here
    <3>3. \A i \in 1 .. Here' : i \in 1 .. Here /\ frames'[i] = frames[i]
      BY <2>2, <3>2
    <3>4. \A i \in 1 .. Here' : Fits(frames[i])'
      BY <1>0, <2>3, <3>3 DEF FrameTypes, Fits
    <3>5. Younger'
      BY <1>0, <3>3 DEF FrameTypes, Younger
    <3>6. QED
      BY <1>0, <2>1, <2>2, <2>3, <2>4, <3>2, <3>4, <3>5 DEF FrameTypes, Contexts
  <2>6. CASE hook # "post"
    <3> DEFINE f == [Me EXCEPT !.cut = p]
    <3>1. f \in AllFrames /\ f.fn = Me.fn /\ f.this = Me.this /\ f.sub = Me.sub /\ f.span = Me.span
      BY <1>10, <2>2 DEF AllFrames
    <3>2. frames' = [frames EXCEPT ![Here] = f]
      BY <1>10, <2>2, <2>6 DEF LeaveHook
    <3> HIDE DEF f
    <3>3. /\ frames' \in Seq(AllFrames) /\ Here' = Here
          /\ \A i \in 1 .. Here : frames'[i] = IF i = Here THEN f ELSE frames[i]
      BY <1>0, <2>2, <3>1, <3>2, ExceptSeq DEF FrameTypes, Here
    <3>4. \A i \in 1 .. Here : /\ frames'[i].fn = frames[i].fn /\ frames'[i].this = frames[i].this
                               /\ frames'[i].sub = frames[i].sub /\ frames'[i].span = frames[i].span
      BY <2>2, <3>1, <3>3
    <3>5. \A i \in 1 .. Here' : Fits(frames[i])'
      BY <1>0, <2>3, <3>3, <3>4 DEF FrameTypes, Fits
    <3>6. Younger'
      BY <1>0, <3>3, <3>4, SMTT(30) DEF FrameTypes, Younger
    <3>7. QED
      BY <1>0, <2>1, <2>3, <2>4, <3>3, <3>5, <3>6 DEF FrameTypes, Contexts
  <2>7. QED
    BY <2>5, <2>6
<1>11. CASE HookReturns \/ HookPanics
  BY <1>10, <1>11 DEF HookReturns, HookPanics, LeaveHook
<1>12. CASE RequestShutdown \/ RequestShutdownPanics
  <2>1. /\ hook = "none" /\ frames = <<>> /\ spans' = 0 /\ UNCHANGED <<functions, frames, hook>>
        /\ ctx' \in {ctx, <<>>}
    BY <1>12 DEF RequestShutdown, RequestShutdownPanics, RequestEnds, PhpRuns
  <2>2. ctx' \in Seq(Contexts) /\ Here' = 0
    BY <1>0, <2>1, EmptySeq DEF Here
  <2>3. QED
    BY <1>0, <2>1, <2>2 DEF FrameTypes, Younger, Contexts
<1>13. QED
  BY <1>1, <1>2, <1>3, <1>4, <1>5, <1>6, <1>7, <1>8, <1>9, <1>11, <1>12, NextCases

\* The innermost call has an address of its own.
LEMMA HereIsDepth ==
  ASSUME AutoAssumption, FrameTypes, frames # <<>>
  PROVE  Here \in Depths /\ Here \in Nat /\ Here \in 1 .. Here
BY FrameFacts DEF AutoAssumption, FrameTypes, Depths

\* The types of the other variables are kept.
LEMMA ValueTypesStep ==
  ASSUME AutoAssumption, Inv, [Next]_vars
  PROVE  ValueTypes'
<1>0. /\ FrameTypes /\ ValueTypes
      /\ MaxSpans \in Nat /\ MaxDepth \in Nat /\ 0 \in 0 .. MaxSpans
      /\ 0 \in 0 .. objects /\ objects \in Nat
  BY DEF AutoAssumption, Inv, ValueTypes
<1>1. CASE UNCHANGED vars
  BY <1>0, <1>1 DEF ValueTypes, vars, tableVars, countVars
<1>2. CASE RequestInit
  BY <1>0, <1>2 DEF RequestInit, ValueTypes, fixedVars, tableVars, countVars
<1>3. CASE \E fn \in functions : CallUnselected(fn)
  BY <1>0, <1>3 DEF CallUnselected, ValueTypes, fixedVars, tableVars, countVars
<1>4. CASE \E a \in Addrs : Allocate(a)
  <2>1. PICK a \in Addrs : Allocate(a)
    BY <1>4
  <2>2. /\ objects' = objects + 1
        /\ heap' = [heap EXCEPT ![a] = [id |-> objects + 1, described |-> FALSE]]
        /\ UNCHANGED <<fixedVars, held, tableVars, phase, panics>>
    BY <2>1 DEF Allocate
  <2>3. \A x \in 0 .. objects : x \in 0 .. objects'
    BY <1>0, <2>2
  <2>4. objects' \in Nat /\ objects + 1 \in 0 .. objects'
    BY <1>0, <2>2
  <2>5. connection_attrs' \in [{"laminas", "zf1"} -> [Addrs -> 0 .. objects']]
    BY <1>0, <2>2, <2>3 DEF ValueTypes, tableVars
  <2>6. statement_attrs' \in [{"laminas", "zf1"} -> [Addrs -> 0 .. objects']]
    BY <1>0, <2>2, <2>3 DEF ValueTypes, tableVars
  <2>7. heap' \in [Addrs -> [id : 0 .. objects', described : BOOLEAN]]
    BY <1>0, <2>2, <2>3, <2>4 DEF ValueTypes
  <2>8. QED
    BY <1>0, <2>2, <2>4, <2>5, <2>6, <2>7 DEF ValueTypes, fixedVars, tableVars
<1>5. CASE \E a \in Addrs : Free(a)
  BY <1>0, <1>5 DEF Free, ValueTypes, fixedVars, tableVars, countVars
<1>6. CASE Calls \/ Returns
  <2>1. UNCHANGED <<fixedVars, held, tableVars, heap, phase, countVars>>
    BY <1>6 DEF Calls, Returns, Call, Return
  <2>2. QED
    BY <1>0, <2>1 DEF ValueTypes, fixedVars, tableVars, countVars
<1>7. CASE Bailout
  BY <1>0, <1>7 DEF Bailout, ValueTypes, fixedVars, tableVars, countVars
<1>8. CASE UserAttach \/ UserDetach
  BY <1>0, <1>8 DEF UserAttach, UserDetach, ValueTypes, fixedVars, tableVars, countVars
<1>9. CASE StartSpan
  <2>1. spans + 1 \in 0 .. MaxSpans
    BY <1>0, <1>9 DEF StartSpan, FrameTypes
  <2>2. guard_map' \in [Depths -> 0 .. MaxSpans]
    BY <1>0, <1>9, <2>1 DEF StartSpan, ValueTypes
  <2>3. QED
    BY <1>0, <1>9, <2>2 DEF StartSpan, ValueTypes, fixedVars, tableVars, countVars
<1>10. CASE TakeGuard
  <2>1. Here \in Depths
    BY <1>0, <1>10, HereIsDepth DEF TakeGuard, Step, FrameTypes
  <2>2. held' \in 0 .. MaxSpans /\ guard_map' \in [Depths -> 0 .. MaxSpans]
    BY <1>0, <1>10, <2>1 DEF TakeGuard, ValueTypes
  <2>3. QED
    BY <1>0, <1>10, <2>2 DEF TakeGuard, ValueTypes, fixedVars, tableVars, countVars
<1>11. CASE SetFlag \/ RemoveFlag
  BY <1>0, <1>11 DEF SetFlag, RemoveFlag, ValueTypes, fixedVars, tableVars, countVars
<1>12. CASE RecordOutcome \/ DescribeExecution
  BY <1>0, <1>12 DEF RecordOutcome, DescribeExecution, ValueTypes, fixedVars, tableVars,
                     countVars
<1>13. CASE StoreConnection
  <2>1. Me.this \in Addrs => heap[Me.this].id \in 0 .. objects
    BY <1>0 DEF ValueTypes
  <2>2. connection_attrs' \in [{"laminas", "zf1"} -> [Addrs -> 0 .. objects]]
    <3>1. PICK p, a, v : p = PluginOf(Me.fn) /\ a = Me.this /\ v = heap[Me.this].id
      OBVIOUS
    <3>2. connection_attrs' = [connection_attrs EXCEPT ![p][a] = v]
      BY <1>13, <3>1 DEF StoreConnection
    <3>3. CASE p \in {"laminas", "zf1"}
      <4>1. connection_attrs[p] \in [Addrs -> 0 .. objects]
        BY <1>0, <3>3 DEF ValueTypes
      <4>2. [connection_attrs[p] EXCEPT ![a] = v] \in [Addrs -> 0 .. objects]
        BY <2>1, <3>1, <4>1
      <4>3. QED
        BY <1>0, <3>2, <3>3, <4>2 DEF ValueTypes
    <3>4. CASE p \notin {"laminas", "zf1"}
      BY <1>0, <3>2, <3>4 DEF ValueTypes
    <3>5. QED
      BY <3>3, <3>4
  <2>3. QED
    BY <1>0, <1>13, <2>2 DEF StoreConnection, ValueTypes, fixedVars, tableVars, countVars
<1>14. CASE StoreStatement
  <2>1. Me.this \in Addrs => heap[Me.this].id \in 0 .. objects
    BY <1>0 DEF ValueTypes
  <2>2. statement_attrs' = [statement_attrs EXCEPT ![PluginOf(Me.fn)][Me.this] = heap[Me.this].id]
    BY <1>14 DEF StoreStatement, Stored
  <2>3. statement_attrs' \in [{"laminas", "zf1"} -> [Addrs -> 0 .. objects]]
    <3>1. PICK p, a, v : p = PluginOf(Me.fn) /\ a = Me.this /\ v = heap[Me.this].id
      OBVIOUS
    <3>2. statement_attrs' = [statement_attrs EXCEPT ![p][a] = v]
      BY <2>2, <3>1
    <3>3. CASE p \in {"laminas", "zf1"}
      <4>1. statement_attrs[p] \in [Addrs -> 0 .. objects]
        BY <1>0, <3>3 DEF ValueTypes
      <4>2. [statement_attrs[p] EXCEPT ![a] = v] \in [Addrs -> 0 .. objects]
        BY <2>1, <3>1, <4>1
      <4>3. QED
        BY <1>0, <3>2, <3>3, <4>2 DEF ValueTypes
    <3>4. CASE p \notin {"laminas", "zf1"}
      BY <1>0, <3>2, <3>4 DEF ValueTypes
    <3>5. QED
      BY <3>3, <3>4
  <2>4. heap' \in [Addrs -> [id : 0 .. objects, described : BOOLEAN]]
    <3>1. heap' = [heap EXCEPT ![Me.this].described = TRUE]
      BY <1>14 DEF StoreStatement
    <3>2. QED
      BY <1>0, <3>1, ZenonT(30) DEF ValueTypes
  <2>5. QED
    BY <1>0, <1>14, <2>3, <2>4 DEF StoreStatement, ValueTypes, fixedVars, tableVars, countVars
<1>15. CASE HookReturns \/ HookPanics
  <2>1. panics' \in Nat /\ held' = 0 /\ UNCHANGED <<fixedVars, tableVars, heap, phase, objects>>
    BY <1>0, <1>15 DEF HookReturns, HookPanics, LeaveHook, ValueTypes
  <2>2. QED
    BY <1>0, <2>1 DEF ValueTypes, fixedVars, tableVars
<1>16. CASE RequestShutdown \/ RequestShutdownPanics
  <2>1. /\ guard_map' \in {guard_map, NoFrames}
        /\ connection_attrs' \in {connection_attrs, NoAttrs}
        /\ statement_attrs' \in {statement_attrs, NoAttrs}
        /\ heap' = [a \in Addrs |-> [id |-> 0, described |-> FALSE]] /\ phase' = "idle"
        /\ bailed' \in {"no", "before", bailed} /\ unwound' \in BOOLEAN
        /\ UNCHANGED <<observer_api, functions, ignored, held, flags, countVars>>
    BY <1>16 DEF RequestShutdown, RequestShutdownPanics, RequestEnds
  <2>2. /\ NoFrames \in [Depths -> 0 .. MaxSpans]
        /\ NoAttrs \in [{"laminas", "zf1"} -> [Addrs -> 0 .. objects]]
        /\ heap' \in [Addrs -> [id : 0 .. objects, described : BOOLEAN]]
    BY <1>0, <2>1 DEF NoFrames, NoAttrs
  <2>3. QED
    BY <1>0, <2>1, <2>2 DEF ValueTypes, countVars
<1>17. QED
  BY <1>1, <1>2, <1>3, <1>4, <1>5, <1>6, <1>7, <1>8, <1>9, <1>10, <1>11, <1>12, <1>13, <1>14,
     <1>15, <1>16, NextCases DEF QuietPhp, QuietSteps

-----------------------------------------------------------------------------
(* What hooks have done.                                                    *)

\* PHP code runs, or stops, between hooks.
LEMMA PhpStep ==
  ASSUME AutoAssumption, Inv,
         QuietPhp \/ Bailout \/ UserAttach \/ UserDetach
         \/ RequestShutdown \/ RequestShutdownPanics \/ UNCHANGED vars
  PROVE  ProgramInv' /\ TableInv'
<1>1. CASE UNCHANGED vars
  BY <1>1 DEF Inv, ProgramInv, TableInv, PreAt, PostAt, Undisturbed, Me, Here, vars, tableVars,
              countVars
<1>2. ASSUME hook = "none",
             UNCHANGED <<frames, hook, held, guard_map, flags, bailed, unwound>>,
             panics' = panics \/ panics' = panics + 1
      PROVE  ProgramInv' /\ TableInv'
  <2>1. panics' = 0 => panics = 0
    BY <1>2 DEF Inv, ValueTypes
  <2>2. QED
    BY <1>2, <2>1 DEF Inv, ProgramInv, TableInv, Undisturbed, Here
<1>3. CASE QuietPhp
  <2>1. hook = "none"
    BY <1>3 DEF QuietPhp, RequestInit, CallUnselected, Allocate, Free, PhpRuns, Inv, FrameTypes
  <2>2. panics' = panics \/ panics' = panics + 1
    BY <1>3 DEF QuietPhp, RequestInit, CallUnselected, Allocate, Free, countVars
  <2>3. QED
    BY <1>2, <1>3, <2>1, <2>2, QuietFacts DEF tableVars
<1>4. CASE UserAttach \/ UserDetach
  BY <1>2, <1>4 DEF UserAttach, UserDetach, PhpRuns, tableVars, fixedVars, countVars
<1>5. CASE Bailout
  <2>1. /\ hook = "none" /\ frames' = <<>> /\ bailed' = "now" /\ UNCHANGED <<hook, held>>
    BY <1>5 DEF Bailout, PhpRuns
  <2>2. Here' = 0
    BY <2>1, EmptySeq DEF Here
  <2>3. QED
    BY <2>1, <2>2 DEF Inv, ProgramInv, TableInv, Undisturbed
<1>6. CASE RequestShutdown \/ RequestShutdownPanics
  <2>1. /\ hook = "none" /\ frames = <<>> /\ UNCHANGED <<frames, hook, held, flags, panics>>
        /\ bailed' = "no" => bailed = "no"
    BY <1>6 DEF RequestShutdown, RequestShutdownPanics, RequestEnds, PhpRuns, countVars
  <2>2. Here' = 0 /\ Here = 0
    BY <2>1, EmptySeq DEF Here
  <2>3. Undisturbed' => \A d \in Depths : guard_map'[d] = 0
    BY <1>6 DEF RequestShutdown, RequestShutdownPanics, Undisturbed, NoFrames
  <2>4. QED
    BY <2>1, <2>2, <2>3 DEF Inv, ProgramInv, TableInv
<1>7. QED
  BY <1>1, <1>3, <1>4, <1>5, <1>6

\* A call begins with the first step of its pre hook.
LEMMA CallStep ==
  ASSUME AutoAssumption, Inv, Calls, FrameTypes'
  PROVE  ProgramInv' /\ TableInv'
<1>0. PICK fn \in functions, this \in Addrs \cup {0}, sub \in BOOLEAN :
        \E pre \in Pre(fn) : Call(fn, this, sub, pre)
  BY DEF Calls
<1>1. PICK pre \in Pre(fn) : Call(fn, this, sub, pre)
  BY <1>0
<1>2. PICK f : f = [fn |-> fn, this |-> this, sub |-> sub, span |-> 0, cut |-> FALSE]
  OBVIOUS
<1>3. /\ frames' = Append(frames, f) /\ hook = "none" /\ hook' = "pre" /\ program' = pre
      /\ Here < MaxDepth
      /\ UNCHANGED <<held, guard_map, flags, panics, bailed, unwound>>
      /\ f.fn = fn /\ f.span = 0 /\ ~f.cut
  BY <1>1, <1>2 DEF Call, PhpRuns, fixedVars, tableVars, countVars
<1>4. /\ Here \in Nat /\ Here' = Here + 1 /\ Here + 1 \in Depths
      /\ \A i \in 1 .. Here : frames'[i] = frames[i]
      /\ frames'[Here + 1] = f /\ Me' = f
  <2>1. f \in AllFrames
    BY <1>1, <1>2 DEF Inv, FrameTypes, AllFrames, AutoAssumption
  <2>2. /\ Here \in Nat /\ Here' = Here + 1
        /\ \A i \in 1 .. Here : frames'[i] = frames[i]
        /\ frames'[Here + 1] = f
    BY <1>3, <2>1, AppendProperties, LenProperties DEF Inv, FrameTypes, Here
  <2>3. QED
    BY <1>3, <2>2 DEF Me, Last, Here, Depths, AutoAssumption
<1>5. /\ Undisturbed' <=> Undisturbed
      /\ Undisturbed => guard_map[Here + 1] = 0
      /\ panics = 0 /\ bailed = "no" => flags[Here + 1] = "none"
  BY <1>3, <1>4 DEF Inv, TableInv, Undisturbed
<1>6. ProgramInv'
  <2>1. pre \in Seq(StepNames) /\ pre = RestOf(pre, 0) /\ 0 \in 0 .. Len(pre)
    <3>1. pre \in Seq(StepNames)
      BY <1>1, PreWords DEF Inv, FrameTypes
    <3>2. 0 \in 0 .. Len(pre)
      BY <3>1, LenProperties
    <3>3. QED
      BY <3>1, <3>2, RestFacts
  <2>2. \A x : ~Done(pre, 0, x)
    BY DEF Done
  <2>3. PreAt(pre, 0)'
    BY <1>3, <1>4, <1>5, <2>2 DEF PreAt, Inv, TableInv
  <2>4. pre \in Words(hook', Me')
    BY <1>1, <1>3, <1>4 DEF Words
  <2>5. QED
    BY <1>3, <2>1, <2>3, <2>4 DEF ProgramInv
<1>7. TableInv'
  <2>1. \A i \in 1 .. Here' : i = Here + 1 \/ i \in 1 .. Here
    BY <1>4
  <2>2. \A d \in Depths : d > Here' => d > Here
    BY <1>4 DEF Depths
  <2>3. Undisturbed' => \A i \in 1 .. Here' : guard_map'[i] = frames'[i].span
    BY <1>3, <1>4, <1>5, <2>1 DEF Inv, TableInv
  <2>4. panics' = 0 => \A i \in 1 .. Here : IF frames'[i].fn \in Marked THEN flags'[i] = MarkOf(frames'[i])
                                           ELSE bailed' = "no" => flags'[i] = "none"
    BY <1>3, <1>4 DEF Inv, TableInv
  <2>5. \A i \in 1 .. Here' : i < Here' => i \in 1 .. Here
    BY <1>4
  <2>6. QED
    BY <1>3, <1>5, <2>2, <2>3, <2>4, <2>5 DEF Inv, TableInv, MarkOf
<1>8. QED
  BY <1>6, <1>7

\* A return begins with the first step of the post hook.
LEMMA ReturnStep ==
  ASSUME AutoAssumption, Inv, Returns
  PROVE  ProgramInv' /\ TableInv'
<1>1. PICK post \in Post(Me.fn, Me.sub) : Return(post)
  BY DEF Returns
<1>2. /\ frames # <<>> /\ hook = "none" /\ hook' = "post" /\ program' = post
      /\ UNCHANGED <<frames, held, guard_map, flags, panics, bailed, unwound>>
  BY <1>1 DEF Return, PhpRuns, fixedVars, tableVars, countVars
<1>3. /\ Here \in 1 .. Here /\ Here \in Nat /\ Me = frames[Here] /\ Me \in AllFrames
      /\ Here' = Here /\ Me' = Me
  BY <1>2, FrameFacts DEF Inv, FrameTypes, Me, Here
<1>4. Undisturbed' <=> Undisturbed
  BY <1>2 DEF Undisturbed
<1>5. ProgramInv'
  <2>1. post \in Seq(StepNames) /\ post = RestOf(post, 0) /\ 0 \in 0 .. Len(post)
    <3>1. post \in Seq(StepNames)
      BY <1>1, <1>3, PostWords DEF AllFrames
    <3>2. 0 \in 0 .. Len(post)
      BY <3>1, LenProperties
    <3>3. QED
      BY <3>1, <3>2, RestFacts
  <2>2. \A x : ~Done(post, 0, x)
    BY DEF Done
  <2>3. PostAt(post, 0)'
    BY <1>2, <1>3, <1>4, <2>2 DEF PostAt, Taken, Unmarked, Inv, TableInv
  <2>4. post \in Words(hook', Me')
    BY <1>1, <1>2, <1>3 DEF Words
  <2>5. QED
    BY <1>2, <2>1, <2>3, <2>4 DEF ProgramInv
<1>6. TableInv'
  BY <1>2, <1>3, <1>4 DEF Inv, TableInv
<1>7. QED
  BY <1>5, <1>6

\* Steps that change neither guards nor flags.
PlainSteps == RecordOutcome \/ StoreConnection \/ StoreStatement \/ DescribeExecution

PlainNames == {"outcome", "enclosing", "onroot", "connection", "statement", "describe"}

\* A step that leaves guards and flags alone.
LEMMA PlainStep ==
  ASSUME AutoAssumption, Inv, PlainSteps
  PROVE  ProgramInv' /\ TableInv'
<1>1. PICK x \in PlainNames : Step(x)
  BY DEF PlainSteps, PlainNames, RecordOutcome, StoreConnection, StoreStatement,
         DescribeExecution
<1>2. /\ program' = Tail(program)
      /\ UNCHANGED <<frames, hook, held, guard_map, flags, panics, bailed, unwound>>
  BY DEF PlainSteps, RecordOutcome, StoreConnection, StoreStatement, DescribeExecution,
         Rest, fixedVars, tableVars, countVars
<1>3. PICK w, n : RunsAt(w, n)
  BY <1>1, Running DEF Step
<1>4. /\ n + 1 \in 1 .. Len(w) /\ n + 1 \in 0 .. Len(w) /\ Tail(program) = RestOf(w, n + 1)
      /\ \A y : Done(w, n + 1, y) <=> Done(w, n, y) \/ y = x
  BY <1>1, <1>3, StepFacts DEF RunsAt
<1>5. /\ Here' = Here /\ Me' = Me /\ (Undisturbed' <=> Undisturbed)
  BY <1>2 DEF Here, Me, Undisturbed
<1>6. \A y \in {"start", "mark", "unmarked", "take", "takemarked", "unmark", "unmarkstop"} :
        Done(w, n + 1, y) <=> Done(w, n, y)
  BY <1>1, <1>4 DEF PlainNames
<1>7. hook = "pre" => PreAt(w, n + 1)'
  BY <1>2, <1>3, <1>5, <1>6 DEF RunsAt, PreAt
<1>8. hook = "post" => PostAt(w, n + 1)'
  BY <1>2, <1>3, <1>5, <1>6 DEF RunsAt, PostAt, Taken, Unmarked
<1>9. ProgramInv'
  BY <1>2, <1>3, <1>4, <1>5, <1>7, <1>8 DEF RunsAt, ProgramInv
<1>10. TableInv'
  BY <1>2, <1>5 DEF Inv, TableInv
<1>11. QED
  BY <1>9, <1>10

\* The span of the call is started.
LEMMA StartStep ==
  ASSUME AutoAssumption, Inv, StartSpan, FrameTypes'
  PROVE  ProgramInv' /\ TableInv'
<1>1. /\ Step("start") /\ spans < MaxSpans
      /\ frames' = [frames EXCEPT ![Here].span = spans + 1]
      /\ guard_map' = [guard_map EXCEPT ![Here] = spans + 1]
      /\ program' = Tail(program)
      /\ UNCHANGED <<hook, held, flags, panics, bailed, unwound>>
  BY DEF StartSpan, Rest, fixedVars, countVars
<1>2. hook = "pre" /\ frames # <<>> /\ Me.span = 0
  BY <1>1, StartFacts
<1>3. /\ Here \in 1 .. Here /\ Here \in Nat /\ Here \in Depths /\ Me = frames[Here] /\ Me \in AllFrames
      /\ spans + 1 # 0
  BY <1>2, FrameFacts, HereIsDepth DEF Inv, FrameTypes
<1>4. PICK f : f = [Me EXCEPT !.span = spans + 1]
  OBVIOUS
<1>5. f.fn = Me.fn /\ f.sub = Me.sub /\ f.span = spans + 1 /\ f.cut = Me.cut
  BY <1>3, <1>4 DEF AllFrames
<1>6. /\ Here' = Here /\ Me' = f
      /\ \A i \in 1 .. Here : frames'[i] = IF i = Here THEN f ELSE frames[i]
  <2>1. frames' = [frames EXCEPT ![Here] = f]
    BY <1>1, <1>3, <1>4
  <2>2. frames \in [1 .. Here -> AllFrames] /\ Len(frames') = Len(frames)
    BY <1>3, <2>1, LenProperties DEF Inv, FrameTypes, Here
  <2>3. QED
    BY <1>3, <2>1, <2>2 DEF Me, Here, Last
<1>7. PICK w, n : RunsAt(w, n)
  BY <1>1, Running DEF Step
<1>8. /\ n + 1 \in 0 .. Len(w) /\ Tail(program) = RestOf(w, n + 1)
      /\ \A y : Done(w, n + 1, y) <=> Done(w, n, y) \/ y = "start"
  BY <1>1, <1>7, StepFacts DEF RunsAt
<1>9. Undisturbed' <=> Undisturbed
  BY <1>1 DEF Undisturbed
<1>10. PreAt(w, n + 1)'
  BY <1>1, <1>2, <1>3, <1>5, <1>6, <1>7, <1>8 DEF RunsAt, PreAt
<1>11. ProgramInv'
  <2>1. w \in Words(hook', Me')
    BY <1>1, <1>2, <1>5, <1>6, <1>7 DEF RunsAt, Words
  <2>2. QED
    BY <1>1, <1>2, <1>8, <1>10, <2>1 DEF ProgramInv
<1>12. TableInv'
  <2>1. guard_map \in [Depths -> 0 .. MaxSpans] /\ \A i \in 1 .. Here : i \in Depths
    BY DEF Inv, ValueTypes, FrameTypes, Depths, AutoAssumption, Here
  <2>2. Undisturbed' => \A i \in 1 .. Here' : guard_map'[i] = frames'[i].span
    BY <1>1, <1>2, <1>3, <1>5, <1>6, <1>9, <2>1 DEF Inv, TableInv
  <2>3. Undisturbed' => \A d \in Depths : d > Here' => guard_map'[d] = 0
    BY <1>1, <1>3, <1>6, <1>9, <2>1 DEF Inv, TableInv
  <2>4. \A i \in 1 .. Here' : i < Here' => frames'[i] = frames[i] /\ i \in 1 .. Here /\ i < Here
    BY <1>3, <1>6
  <2>5. panics' = 0 => \A i \in 1 .. Here' : i < Here' \/ hook' = "none" =>
                         IF frames'[i].fn \in Marked THEN flags'[i] = MarkOf(frames'[i])
                         ELSE bailed' = "no" => flags'[i] = "none"
    BY <1>1, <1>2, <2>4 DEF Inv, TableInv
  <2>6. QED
    BY <1>1, <1>2, <1>6, <2>2, <2>3, <2>5 DEF Inv, TableInv, MarkOf
<1>13. QED
  BY <1>11, <1>12

\* The guard of the call is taken back.
LEMMA TakeStep ==
  ASSUME AutoAssumption, Inv, TakeGuard
  PROVE  ProgramInv' /\ TableInv'
<1>1. /\ program' = Tail(program)
      /\ UNCHANGED <<frames, hook, flags, panics, bailed, unwound>>
  BY DEF TakeGuard, Rest, fixedVars, countVars
<1>2. PICK x \in {"take", "takemarked"} : Step(x)
  BY DEF TakeGuard
<1>3. PICK w, n : RunsAt(w, n)
  BY <1>2, Running DEF Step
<1>4. /\ n + 1 \in 1 .. Len(w) /\ n + 1 \in 0 .. Len(w) /\ n \in Nat /\ Len(w) \in Nat
      /\ w[n + 1] = x /\ Tail(program) = RestOf(w, n + 1)
      /\ \A y : (Step(y) <=> y = x) /\ (Done(w, n + 1, y) <=> Done(w, n, y) \/ y = x)
  BY <1>2, <1>3, StepFacts DEF RunsAt
<1>5. hook = "post" /\ PostWord(Me.fn, w)
  BY <1>2, <1>3, <1>4 DEF RunsAt, PreWord
<1>6. /\ Here \in 1 .. Here /\ Here \in Nat /\ Here \in Depths
      /\ Here' = Here /\ Me' = Me /\ (Undisturbed' <=> Undisturbed)
  BY <1>1, <1>3, HereIsDepth DEF RunsAt, Inv, Here, Me, Undisturbed
<1>7. ~Taken(w, n)
  BY <1>2, <1>4, <1>5 DEF PostWord, Taken, Done
<1>8. x = "takemarked" => Me.fn \in Marked /\ ~Unmarked(w, n)
  BY <1>4, <1>5 DEF PostWord, Unmarked, Done
<1>9. Taken(w, n + 1) /\ (Unmarked(w, n + 1) <=> Unmarked(w, n))
  BY <1>2, <1>4 DEF Taken, Unmarked
<1>10. Undisturbed => held = 0 /\ guard_map[Here] = Me.span /\ panics = 0
  BY <1>3, <1>5, <1>7 DEF RunsAt, PostAt, Undisturbed
<1>11. Undisturbed /\ x = "takemarked" /\ flags[Here] # "true" => Me.span = 0
  BY <1>3, <1>5, <1>8, <1>10 DEF RunsAt, PostAt, MarkOf
<1>12. guard_map \in [Depths -> 0 .. MaxSpans]
  BY DEF Inv, ValueTypes
<1>13. Undisturbed => held' = Me.span /\ guard_map'[Here] = 0
  BY <1>2, <1>4, <1>6, <1>10, <1>11, <1>12 DEF TakeGuard
<1>14. \A d \in Depths : d # Here => guard_map'[d] = guard_map[d]
  BY <1>6, <1>12 DEF TakeGuard
<1>15. PostAt(w, n + 1)'
  BY <1>1, <1>3, <1>5, <1>6, <1>9, <1>13 DEF RunsAt, PostAt
<1>16. ProgramInv'
  BY <1>1, <1>3, <1>4, <1>5, <1>6, <1>15 DEF RunsAt, ProgramInv
<1>17. TableInv'
  <2>1. \A i \in 1 .. Here : i \in Depths
    BY <1>6 DEF Inv, FrameTypes, Depths, AutoAssumption
  <2>2. Undisturbed' => \A i \in 1 .. Here' : i < Here' => guard_map'[i] = frames'[i].span
    BY <1>1, <1>6, <1>14, <2>1 DEF Inv, TableInv
  <2>3. Undisturbed' => \A d \in Depths : d > Here' => guard_map'[d] = 0
    BY <1>6, <1>14 DEF Inv, TableInv
  <2>4. QED
    BY <1>1, <1>5, <1>6, <2>2, <2>3 DEF Inv, TableInv, MarkOf
<1>18. QED
  BY <1>16, <1>17

\* The flag of the innermost call changes, and no other.
LEMMA FlagStep ==
  ASSUME AutoAssumption, Inv, frames # <<>>, hook # "none",
         UNCHANGED <<frames, hook, held, guard_map, panics, bailed, unwound>>,
         \A d \in Depths : d # Here => flags'[d] = flags[d]
  PROVE  TableInv'
<1>1. /\ Here \in 1 .. Here /\ Here \in Nat /\ Here' = Here /\ (Undisturbed' <=> Undisturbed)
  BY HereIsDepth DEF Inv, Here, Undisturbed
<1>2. \A i \in 1 .. Here : i \in Depths
  BY <1>1 DEF Inv, FrameTypes, Depths, AutoAssumption
<1>3. panics' = 0 => \A i \in 1 .. Here' : i < Here' =>
                       IF frames'[i].fn \in Marked THEN flags'[i] = MarkOf(frames'[i])
                       ELSE bailed' = "no" => flags'[i] = "none"
  BY <1>1, <1>2 DEF Inv, TableInv
<1>4. panics' = 0 /\ bailed' = "no" => \A d \in Depths : d > Here' => flags'[d] = "none"
  BY <1>1 DEF Inv, TableInv
<1>5. QED
  BY <1>1, <1>3, <1>4 DEF Inv, TableInv, MarkOf

\* A pre hook marks its call, or notes that it does not.
LEMMA MarkStep ==
  ASSUME AutoAssumption, Inv, SetFlag
  PROVE  ProgramInv' /\ TableInv'
<1>1. /\ program' = Tail(program)
      /\ UNCHANGED <<frames, hook, held, guard_map, panics, bailed, unwound>>
  BY DEF SetFlag, Rest, fixedVars, countVars
<1>2. PICK x \in {"mark", "unmarked"} : Step(x)
  BY DEF SetFlag
<1>3. PICK w, n : RunsAt(w, n)
  BY <1>2, Running DEF Step
<1>4. /\ n + 1 \in 1 .. Len(w) /\ n + 1 \in 0 .. Len(w) /\ n \in Nat /\ Len(w) \in Nat
      /\ w[n + 1] = x /\ Tail(program) = RestOf(w, n + 1)
      /\ \A y : (Step(y) <=> y = x) /\ (Done(w, n + 1, y) <=> Done(w, n, y) \/ y = x)
  BY <1>2, <1>3, StepFacts DEF RunsAt
<1>5. hook = "pre" /\ PreWord(Me.fn, w) /\ PreAt(w, n)
  BY <1>2, <1>3, <1>4 DEF RunsAt, PostWord
<1>6. Here \in Depths /\ Here' = Here /\ Me' = Me /\ flags \in [Depths -> {"true", "false", "none"}]
  BY <1>1, <1>3, HereIsDepth DEF RunsAt, Inv, ValueTypes, Here, Me
<1>7. /\ flags'[Here] = IF x = "mark" THEN "true" ELSE "false"
      /\ \A d \in Depths : d # Here => flags'[d] = flags[d]
  BY <1>4, <1>6 DEF SetFlag
<1>8. ~(Done(w, n + 1, "mark") /\ Done(w, n + 1, "unmarked"))
  BY <1>4, <1>5, SMTT(30) DEF PreWord, Done
<1>9. Done(w, n + 1, "start") <=> Done(w, n, "start")
  BY <1>2, <1>4
<1>10. x = "mark" => Done(w, n + 1, "mark")
  BY <1>4
<1>11. x = "unmarked" => Done(w, n + 1, "unmarked")
  BY <1>4
<1>12. PreAt(w, n + 1)'
  BY <1>1, <1>2, <1>5, <1>6, <1>7, <1>8, <1>9, <1>10, <1>11 DEF PreAt
<1>13. ProgramInv'
  BY <1>1, <1>3, <1>4, <1>5, <1>6, <1>12 DEF RunsAt, ProgramInv
<1>14. TableInv'
  BY <1>1, <1>3, <1>7, FlagStep DEF RunsAt
<1>15. QED
  BY <1>13, <1>14

\* A post hook removes the mark of its call, and may end there.
LEMMA UnmarkStep ==
  ASSUME AutoAssumption, Inv, RemoveFlag
  PROVE  ProgramInv' /\ TableInv'
<1>1. UNCHANGED <<frames, hook, held, guard_map, panics, bailed, unwound>>
  BY DEF RemoveFlag, fixedVars, countVars
<1>2. PICK x \in {"unmark", "unmarkstop"} : Step(x)
  BY DEF RemoveFlag
<1>3. PICK w, n : RunsAt(w, n)
  BY <1>2, Running DEF Step
<1>4. /\ n + 1 \in 1 .. Len(w) /\ n + 1 \in 0 .. Len(w) /\ n \in Nat /\ Len(w) \in Nat
      /\ w[n + 1] = x /\ Tail(program) = RestOf(w, n + 1)
      /\ \A y : (Step(y) <=> y = x) /\ (Done(w, n + 1, y) <=> Done(w, n, y) \/ y = x)
  BY <1>2, <1>3, StepFacts DEF RunsAt
<1>5. hook = "post" /\ PostWord(Me.fn, w) /\ PostAt(w, n)
  BY <1>2, <1>3, <1>4 DEF RunsAt, PreWord
<1>6. /\ Here \in Depths /\ Here' = Here /\ Me' = Me /\ (Undisturbed' <=> Undisturbed)
      /\ flags \in [Depths -> {"true", "false", "none"}]
  BY <1>1, <1>3, HereIsDepth DEF RunsAt, Inv, ValueTypes, Here, Me, Undisturbed
<1>7. flags'[Here] = "none" /\ \A d \in Depths : d # Here => flags'[d] = flags[d]
  BY <1>6 DEF RemoveFlag
<1>8. ~Unmarked(w, n) /\ Me.fn \in Marked
  <2>1. PICK i \in 1 .. Len(w) : i = n + 1 /\ w[i] \in {"unmark", "unmarkstop"}
    BY <1>2, <1>4
  <2>2. Me.fn \in Marked
    BY <1>5, <2>1, SMTT(30) DEF PostWord
  <2>3. \A j \in 1 .. n : w[j] \notin {"unmark", "unmarkstop"}
    BY <1>4, <1>5, <2>1, SMTT(30) DEF PostWord
  <2>4. QED
    BY <1>4, <2>2, <2>3 DEF Unmarked, Done
<1>9. TableInv'
  BY <1>1, <1>3, <1>7, FlagStep DEF RunsAt
<1>10. CASE program' = Tail(program)
  <2>1. Unmarked(w, n + 1) /\ (Taken(w, n + 1) <=> Taken(w, n))
    BY <1>2, <1>4 DEF Unmarked, Taken
  <2>2. PostAt(w, n + 1)'
    BY <1>1, <1>5, <1>6, <1>7, <1>8, <2>1 DEF PostAt
  <2>3. QED
    BY <1>1, <1>3, <1>4, <1>5, <1>6, <1>9, <1>10, <2>2 DEF RunsAt, ProgramInv
<1>11. CASE program' # Tail(program)
  <2>1. program' = <<>> /\ flags[Here] # "true"
    BY <1>11 DEF RemoveFlag
  <2>2. Undisturbed => Me.span = 0
    BY <1>5, <1>8, <2>1 DEF PostAt, Undisturbed, MarkOf
  <2>3. Undisturbed => held = 0 /\ guard_map[Here] = 0
    BY <1>5, <2>2 DEF PostAt
  <2>4. Unmarked(w, Len(w))
    BY <1>2, <1>4 DEF Unmarked, Done
  <2>5. PostAt(w, Len(w))'
    BY <1>1, <1>6, <1>7, <1>8, <2>2, <2>3, <2>4 DEF PostAt
  <2>6. RestOf(w, Len(w)) = <<>> /\ Len(w) \in 0 .. Len(w)
    BY <1>3, <1>4, RestFacts DEF RunsAt
  <2>7. QED
    BY <1>1, <1>3, <1>5, <1>6, <1>9, <2>1, <2>5, <2>6 DEF RunsAt, ProgramInv
<1>12. QED
  BY <1>10, <1>11

\* A hook that panics disturbs the process.
LEMMA PanicStep ==
  ASSUME AutoAssumption, Inv, HookPanics
  PROVE  ProgramInv' /\ TableInv'
<1>1. hook' = "none" /\ held' = 0 /\ panics' = panics + 1
  BY DEF HookPanics, LeaveHook
<1>2. panics' # 0
  BY <1>1 DEF Inv, ValueTypes
<1>3. QED
  BY <1>1, <1>2 DEF ProgramInv, TableInv, Undisturbed

\* A hook that has done all its steps leaves guards and flags as the calls have them.
LEMMA LeaveStep ==
  ASSUME AutoAssumption, Inv, HookReturns
  PROVE  ProgramInv' /\ TableInv'
<1>1. /\ hook # "none" /\ hook' = "none" /\ program = <<>> /\ held' = 0
      /\ UNCHANGED <<guard_map, flags, panics, bailed, unwound>>
  BY DEF HookReturns, LeaveHook, fixedVars, tableVars
<1>2. PICK w, n : RunsAt(w, n)
  BY <1>1, Running
<1>3. Len(w) \in Nat /\ n = Len(w)
  BY <1>1, <1>2, RestFacts DEF RunsAt
<1>4. /\ Here \in 1 .. Here /\ Here \in Nat /\ Here \in Depths /\ Me = frames[Here] /\ Me \in AllFrames
      /\ \A i \in 1 .. Here : frames[i] \in AllFrames
  BY <1>2, FrameFacts, HereIsDepth DEF RunsAt, Inv, FrameTypes
<1>5. Undisturbed' <=> Undisturbed
  BY <1>1 DEF Undisturbed
<1>6. ProgramInv'
  BY <1>1 DEF ProgramInv
<1>7. CASE hook = "pre"
  <2>1. frames' = frames /\ PreAt(w, Len(w)) /\ PreWord(Me.fn, w)
    <3>1. PreAt(w, Len(w)) /\ PreWord(Me.fn, w) /\ ~Me.cut /\ Me.cut \in BOOLEAN
      BY <1>2, <1>3, <1>4, <1>7 DEF RunsAt, PreAt, AllFrames
    <3>2. frames' = [frames EXCEPT ![Here].cut = FALSE]
      BY <1>7 DEF HookReturns, LeaveHook
    <3>3. [Me EXCEPT !.cut = FALSE] = Me
      BY <1>4, <3>1 DEF AllFrames
    <3>4. frames \in [1 .. Here -> AllFrames]
      BY LenProperties DEF Inv, FrameTypes, Here
    <3>5. QED
      BY <1>4, <3>1, <3>2, <3>3, <3>4
  <2>2. panics = 0 => IF Me.fn \in Marked THEN flags[Here] = MarkOf(Me)
                      ELSE bailed = "no" => flags[Here] = "none"
    <3>1. CASE Me.fn \in Marked
      <4>1. Done(w, Len(w), "mark") \/ Done(w, Len(w), "unmarked")
        BY <1>3, <2>1, <3>1 DEF PreWord, Done
      <4>2. Done(w, Len(w), "mark") => Me.span # 0
        BY <1>3, <2>1, <3>1 DEF PreWord, PreAt, Done
      <4>3. Done(w, Len(w), "unmarked") => Me.span = 0
        BY <1>3, <2>1 DEF PreWord, PreAt, Done
      <4>4. QED
        BY <2>1, <3>1, <4>1, <4>2, <4>3 DEF PreAt, MarkOf
    <3>2. CASE Me.fn \notin Marked
      <4>1. ~Done(w, Len(w), "mark") /\ ~Done(w, Len(w), "unmarked")
        BY <1>3, <2>1, <3>2 DEF PreWord, Done
      <4>2. QED
        BY <2>1, <3>2, <4>1 DEF PreAt
    <3>3. QED
      BY <3>1, <3>2
  <2>3. Here' = Here
    BY <2>1 DEF Here
  <2>4. \A i \in 1 .. Here : i < Here \/ i = Here
    BY <1>4
  <2>5. panics' = 0 => \A i \in 1 .. Here' :
                         IF frames'[i].fn \in Marked THEN flags'[i] = MarkOf(frames'[i])
                         ELSE bailed' = "no" => flags'[i] = "none"
    BY <1>1, <1>4, <2>1, <2>2, <2>3, <2>4 DEF Inv, TableInv
  <2>6. QED
    BY <1>1, <1>5, <1>6, <1>7, <2>1, <2>3, <2>5 DEF Inv, TableInv
<1>8. CASE hook = "post"
  <2>1. PostAt(w, Len(w)) /\ PostWord(Me.fn, w)
    BY <1>2, <1>3, <1>8 DEF RunsAt
  <2>2. Undisturbed => guard_map[Here] = 0
    <3>1. ~Taken(w, Len(w)) => Me.fn \notin Starters
      BY <1>3, <2>1 DEF PostWord, Taken, Done
    <3>2. Me.fn \notin Starters => Me.span = 0
      BY <1>4 DEF Inv, FrameTypes, Fits
    <3>3. QED
      BY <2>1, <3>1, <3>2 DEF PostAt
  <2>3. panics = 0 /\ bailed = "no" => flags[Here] = "none"
    <3>1. Me.fn \in Marked => Unmarked(w, Len(w))
      BY <1>3, <2>1 DEF PostWord, Unmarked, Done
    <3>2. QED
      BY <2>1, <3>1 DEF PostAt
  <2>4. Here' = Here - 1 /\ \A i \in 1 .. Here - 1 : frames'[i] = frames[i]
    <3>1. frames' = Front(frames) /\ frames # <<>> /\ frames \in Seq(AllFrames)
      BY <1>2, <1>8 DEF HookReturns, LeaveHook, RunsAt, Inv, FrameTypes
    <3>2. QED
      BY <3>1, FrontLast DEF Here
  <2>5. \A i \in 1 .. Here' : i \in 1 .. Here /\ i < Here /\ frames'[i] = frames[i]
    BY <1>4, <2>4
  <2>6. \A d \in Depths : d > Here' => d = Here \/ d > Here
    BY <1>4, <2>4 DEF Depths
  <2>7. Undisturbed' => /\ \A i \in 1 .. Here' : guard_map'[i] = frames'[i].span
                        /\ \A d \in Depths : d > Here' => guard_map'[d] = 0
    BY <1>1, <1>5, <2>2, <2>5, <2>6 DEF Inv, TableInv
  <2>8. panics' = 0 => \A i \in 1 .. Here' :
                         IF frames'[i].fn \in Marked THEN flags'[i] = MarkOf(frames'[i])
                         ELSE bailed' = "no" => flags'[i] = "none"
    BY <1>1, <2>5 DEF Inv, TableInv
  <2>9. panics' = 0 /\ bailed' = "no" => \A d \in Depths : d > Here' => flags'[d] = "none"
    BY <1>1, <2>3, <2>6 DEF Inv, TableInv
  <2>10. QED
    BY <1>1, <1>6, <2>7, <2>8, <2>9 DEF TableInv
<1>9. QED
  BY <1>2, <1>7, <1>8 DEF RunsAt

\* Inv holds initially.
LEMMA InitInv ==
  ASSUME AutoAssumption, Init
  PROVE  Inv
<1>1. /\ Here = 0 /\ frames \in Seq(AllFrames) /\ ctx \in Seq([by : {"hook", "user"}, span : Nat \ {0}])
  BY EmptySeq DEF Init, Here
<1>2. FrameTypes
  BY <1>1 DEF Init, FrameTypes, Younger, AutoAssumption
<1>3. ValueTypes
  <2>1. /\ 0 \in 0 .. MaxSpans /\ objects \in Nat /\ panics \in Nat /\ 0 \in 0 .. objects
    BY DEF Init, AutoAssumption
  <2>2. /\ guard_map \in [Depths -> 0 .. MaxSpans]
        /\ flags \in [Depths -> {"true", "false", "none"}]
    BY <2>1 DEF Init, NoFrames, NoFlags
  <2>3. /\ connection_attrs \in [{"laminas", "zf1"} -> [Addrs -> 0 .. objects]]
        /\ statement_attrs \in [{"laminas", "zf1"} -> [Addrs -> 0 .. objects]]
        /\ heap \in [Addrs -> [id : 0 .. objects, described : BOOLEAN]]
    BY <2>1 DEF Init, NoAttrs
  <2>4. QED
    BY <2>1, <2>2, <2>3 DEF Init, ValueTypes
<1>4. ProgramInv /\ TableInv
  BY <1>1 DEF Init, ProgramInv, TableInv, NoFrames, NoFlags
<1>5. QED
  BY <1>2, <1>3, <1>4 DEF Inv

\* Every step keeps Inv.
LEMMA InvStep ==
  ASSUME AutoAssumption, Inv, [Next]_vars
  PROVE  Inv'
<1>1. FrameTypes' /\ ValueTypes'
  BY FrameTypesStep, ValueTypesStep
<1>2. ProgramInv' /\ TableInv'
  BY <1>1, NextCases, PhpStep, CallStep, ReturnStep, StartStep, TakeStep, MarkStep, UnmarkStep,
     PlainStep, LeaveStep, PanicStep DEF QuietSteps, PlainSteps
<1>3. QED
  BY <1>1, <1>2 DEF Inv

-----------------------------------------------------------------------------
(* Contexts.                                                                *)

SameSpans(a, b) == Len(a) = Len(b) /\ \A i \in 1 .. Len(b) : a[i].span = b[i].span

\* Two stacks grow and shrink together.
LEMMA SameAppend ==
  ASSUME NEW A, NEW B, NEW a \in Seq(A), NEW b \in Seq(B), NEW x \in A, NEW y \in B
  PROVE  SameSpans(Append(a, x), Append(b, y)) <=> SameSpans(a, b) /\ x.span = y.span
<1>1. Len(a) \in Nat /\ Len(b) \in Nat
  BY LenProperties
<1>2. /\ Len(Append(a, x)) = Len(a) + 1 /\ Append(a, x)[Len(a) + 1] = x
      /\ \A i \in 1 .. Len(a) : Append(a, x)[i] = a[i]
  BY AppendProperties
<1>3. /\ Len(Append(b, y)) = Len(b) + 1 /\ Append(b, y)[Len(b) + 1] = y
      /\ \A i \in 1 .. Len(b) : Append(b, y)[i] = b[i]
  BY AppendProperties
<1>4. ASSUME SameSpans(a, b), x.span = y.span
      PROVE  SameSpans(Append(a, x), Append(b, y))
  <2>1. \A i \in 1 .. Len(b) + 1 : i = Len(b) + 1 \/ i \in 1 .. Len(b)
    BY <1>1
  <2>2. QED
    BY <1>1, <1>2, <1>3, <1>4, <2>1 DEF SameSpans
<1>5. ASSUME SameSpans(Append(a, x), Append(b, y))
      PROVE  SameSpans(a, b) /\ x.span = y.span
  <2>1. Len(a) = Len(b) /\ Len(b) + 1 \in 1 .. Len(b) + 1
        /\ \A i \in 1 .. Len(b) : i \in 1 .. Len(b) + 1
    BY <1>1, <1>2, <1>3, <1>5 DEF SameSpans
  <2>2. QED
    BY <1>2, <1>3, <1>5, <2>1 DEF SameSpans
<1>6. QED
  BY <1>4, <1>5

On == Keep(ctx, HookContexts)

Started == Keep(frames, StartedFrames)

NestInv == Undisturbed => SameSpans(On, Started)

\* The calls that have started a span are those whose frame names one.
LEMMA StartedMeans ==
  ASSUME AutoAssumption, NEW f \in AllFrames
  PROVE  f \in StartedFrames <=> f.span # 0
BY DEF AutoAssumption, AllFrames, StartedFrames

\* Stacks and calls, the innermost call set apart.
LEMMA Stacks ==
  ASSUME AutoAssumption, Inv
  PROVE  /\ ctx \in Seq(Contexts) /\ On \in Seq(Contexts \cap HookContexts)
         /\ frames \in Seq(AllFrames) /\ Started \in Seq(AllFrames)
         /\ frames # <<>> =>
              /\ Front(frames) \in Seq(AllFrames) /\ Me \in AllFrames
              /\ frames = Append(Front(frames), Me)
              /\ Keep(Front(frames), StartedFrames) \in Seq(AllFrames)
              /\ Started = IF Me.span # 0 THEN Append(Keep(Front(frames), StartedFrames), Me)
                           ELSE Keep(Front(frames), StartedFrames)
<1>1. ctx \in Seq(Contexts) /\ frames \in Seq(AllFrames)
  BY DEF Inv, FrameTypes, Contexts
<1>2. On \in Seq(Contexts \cap HookContexts)
  BY <1>1, KeepIsSeq DEF On
<1>3. ASSUME NEW s \in Seq(AllFrames)
      PROVE  Keep(s, StartedFrames) \in Seq(AllFrames)
  <2>1. Keep(s, StartedFrames) \in Seq(AllFrames \cap StartedFrames)
    BY KeepIsSeq
  <2>2. QED
    BY <2>1, SeqMonotonic
<1>4. Started \in Seq(AllFrames)
  BY <1>1, <1>3 DEF Started
<1>5. ASSUME frames # <<>>
      PROVE  /\ Front(frames) \in Seq(AllFrames) /\ Me \in AllFrames
             /\ frames = Append(Front(frames), Me)
             /\ Keep(Front(frames), StartedFrames) \in Seq(AllFrames)
             /\ Started = IF Me.span # 0 THEN Append(Keep(Front(frames), StartedFrames), Me)
                          ELSE Keep(Front(frames), StartedFrames)
  <2>1. /\ Front(frames) \in Seq(AllFrames) /\ Me \in AllFrames
        /\ frames = Append(Front(frames), Me)
    BY <1>1, <1>5, FrontLast DEF Me
  <2>2. Keep(Front(frames), StartedFrames) \in Seq(AllFrames)
    BY <1>3, <2>1
  <2>3. Keep(Append(Front(frames), Me), StartedFrames)
          = IF Me \in StartedFrames THEN Append(Keep(Front(frames), StartedFrames), Me)
            ELSE Keep(Front(frames), StartedFrames)
    BY <2>1, KeepAppend
  <2>4. QED
    BY <2>1, <2>2, <2>3, StartedMeans DEF Started
<1>6. QED
  BY <1>1, <1>2, <1>4, <1>5

\* A context pushed on the stack.
LEMMA OnAppend ==
  ASSUME AutoAssumption, Inv, NEW e \in Contexts
  PROVE  Keep(Append(ctx, e), HookContexts) = IF e.by = "hook" THEN Append(On, e) ELSE On
<1>1. ctx \in Seq(Contexts)
  BY Stacks
<1>2. e \in HookContexts <=> e.by = "hook"
  BY DEF Contexts, HookContexts
<1>3. QED
  BY <1>1, <1>2, KeepAppend DEF On

\* A post hook that is done holds the guard of its call.
LEMMA HeldAtEnd ==
  ASSUME AutoAssumption, Inv, hook = "post", program = <<>>, Undisturbed
  PROVE  held = Me.span
<1>1. PICK w, n : RunsAt(w, n)
  BY Running
<1>2. Len(w) \in Nat /\ n = Len(w)
  BY <1>1, RestFacts DEF RunsAt
<1>3. PostAt(w, Len(w)) /\ PostWord(Me.fn, w) /\ frames # <<>>
  BY <1>1, <1>2 DEF RunsAt
<1>4. ~Taken(w, Len(w)) => Me.fn \notin Starters
  BY <1>2, <1>3 DEF PostWord, Taken, Done
<1>5. Me.fn \notin Starters => Me.span = 0
  <2>1. Here \in 1 .. Here /\ Me = frames[Here]
    BY <1>3, FrameFacts DEF Inv, FrameTypes
  <2>2. QED
    BY <2>1 DEF Inv, FrameTypes, Fits
<1>6. QED
  BY <1>3, <1>4, <1>5 DEF PostAt

\* Dropping the guard of the innermost call takes its context, and no other.
LEMMA InnermostLeaves ==
  ASSUME AutoAssumption, Inv, frames # <<>>, Me.span # 0, SameSpans(On, Started)
  PROVE  SameSpans(Keep(Without(ctx, Me.span), HookContexts), Keep(Front(frames), StartedFrames))
<1>1. /\ ctx \in Seq(Contexts) /\ On \in Seq(Contexts \cap HookContexts)
      /\ Front(frames) \in Seq(AllFrames) /\ Me \in AllFrames
      /\ Keep(Front(frames), StartedFrames) \in Seq(AllFrames)
      /\ Started = Append(Keep(Front(frames), StartedFrames), Me)
  BY Stacks
<1>2. PICK h : h = [by |-> "hook", span |-> Me.span]
  OBVIOUS
<1>3. PICK W : W = SdkContexts \ {h}
  OBVIOUS
<1>4. PICK outer : outer = Keep(Front(frames), StartedFrames)
  OBVIOUS
<1>5. Keep(Without(ctx, Me.span), HookContexts) = Keep(On, W)
  BY <1>1, <1>2, <1>3, KeepSwap DEF Without, On
<1>6. On # <<>>
  <2>1. Len(outer) \in Nat /\ Len(Started) = Len(outer) + 1
    BY <1>1, <1>4, AppendProperties, LenProperties
  <2>2. QED
    BY <1>1, <2>1, EmptySeq DEF SameSpans
<1>7. PICK on, l : on = Front(On) /\ l = Last(On)
  OBVIOUS
<1>8. on \in Seq(Contexts \cap HookContexts) /\ l \in Contexts \cap HookContexts /\ On = Append(on, l)
  BY <1>1, <1>6, <1>7, FrontLast
<1>9. SameSpans(on, outer) /\ l.span = Me.span
  BY <1>1, <1>4, <1>8, SameAppend
<1>10. l = h /\ l \notin W
  BY <1>2, <1>3, <1>8, <1>9 DEF HookContexts
<1>11. Keep(On, W) = Keep(on, W)
  BY <1>8, <1>10, KeepAppend
<1>12. \A i \in 1 .. Len(outer) : outer[i].span # Me.span
  <2> DEFINE Y == {f \in AllFrames : f.span = 0 \/ f.span < Me.span}
  <2>1. \A i \in 1 .. Len(Front(frames)) : Front(frames)[i] \in Y
    <3>1. TAKE i \in 1 .. Len(Front(frames))
    <3>2. /\ Here \in Nat /\ Here \in 1 .. Here /\ Me = frames[Here]
          /\ \A j \in 1 .. Here : frames[j] \in AllFrames
      BY FrameFacts DEF Inv, FrameTypes
    <3>3. i \in 1 .. Here /\ i < Here /\ Front(frames)[i] = frames[i]
      <4>1. frames \in Seq(AllFrames)
        BY DEF Inv, FrameTypes
      <4>2. Len(Front(frames)) = Here - 1 /\ \A j \in 1 .. Here - 1 : Front(frames)[j] = frames[j]
        BY <4>1, FrontLast DEF Here
      <4>3. QED
        BY <3>1, <3>2, <4>2
    <3>4. QED
      BY <3>2, <3>3 DEF Inv, FrameTypes, Younger
  <2> HIDE DEF Y
  <2>2. Front(frames) \in Seq(Y)
    <3>1. Len(Front(frames)) \in Nat /\ SubSeq(Front(frames), 1, Len(Front(frames))) = Front(frames)
      BY <1>1, LenProperties, SubSeqFull
    <3>2. SubSeq(Front(frames), 1, Len(Front(frames))) \in Seq(Y)
      BY <2>1, <3>1, SubSeqProperties
    <3>3. QED
      BY <3>1, <3>2
  <2>3. outer \in Seq(Y \cap StartedFrames)
    BY <1>4, <2>2, KeepIsSeq
  <2>4. \A i \in 1 .. Len(outer) : outer[i] \in Y /\ outer[i] \in StartedFrames
    BY <2>3, ElementOfSeq
  <2>5. \A i \in 1 .. Len(outer) : outer[i].span # 0 /\ (outer[i].span = 0 \/ outer[i].span < Me.span)
    BY <2>4 DEF Y, StartedFrames
  <2>6. Me.span \in Nat
    BY <1>1 DEF AllFrames
  <2>7. QED
    BY <2>5, <2>6
<1>13. \A i \in 1 .. Len(on) : on[i] \in W
  <2>1. TAKE i \in 1 .. Len(on)
  <2>2. on[i] \in Contexts /\ on[i] \in HookContexts
    BY <1>8, <2>1, ElementOfSeq
  <2>3. on[i].span # Me.span
    BY <1>9, <1>12, <2>1 DEF SameSpans
  <2>4. on[i] \in SdkContexts /\ on[i] # h
    BY <1>2, <2>2, <2>3 DEF HookContexts, SdkContexts
  <2>5. QED
    BY <1>3, <2>4
<1>14. on \in Seq(W)
  <2>1. Len(on) \in Nat /\ SubSeq(on, 1, Len(on)) = on
    BY <1>8, LenProperties, SubSeqFull
  <2>2. SubSeq(on, 1, Len(on)) \in Seq(W)
    BY <1>13, <2>1, SubSeqProperties
  <2>3. QED
    BY <2>1, <2>2
<1>15. Keep(on, W) = on
  BY <1>14, KeepAllOrNone
<1>16. QED
  BY <1>4, <1>5, <1>9, <1>11, <1>15

\* No context has span 0, so dropping no guard drops nothing.
LEMMA NothingDropped ==
  ASSUME NEW s \in Seq(Contexts)
  PROVE  Without(s, 0) = s
<1>1. Contexts \subseteq SdkContexts \ {[by |-> "hook", span |-> 0]}
  BY DEF Contexts, SdkContexts
<1>2. QED
  BY <1>1, KeepAllOrNone DEF Without

\* The contexts of hooks keep nesting like their calls.
LEMMA NestStep ==
  ASSUME AutoAssumption, Inv, Inv', NestInv, [Next]_vars
  PROVE  NestInv'
<1>1. SUFFICES ASSUME Undisturbed'
               PROVE  SameSpans(On', Started')
  BY DEF NestInv
<1>2. ASSUME Undisturbed, UNCHANGED <<frames, ctx>>
      PROVE  SameSpans(On', Started')
  BY <1>2 DEF NestInv, On, Started
<1>3. ASSUME panics' = panics \/ panics' = panics + 1, UNCHANGED <<bailed, unwound>>
      PROVE  Undisturbed
  BY <1>1, <1>3 DEF Undisturbed, Inv, ValueTypes
<1>4. CASE UNCHANGED vars
  BY <1>2, <1>3, <1>4 DEF vars, countVars
<1>5. CASE QuietPhp
  <2>1. panics' = panics \/ panics' = panics + 1
    BY <1>5 DEF QuietPhp, RequestInit, CallUnselected, Allocate, Free, countVars
  <2>2. QED
    BY <1>2, <1>3, <1>5, <2>1, QuietFacts
<1>6. CASE QuietSteps
  <2>1. panics' = panics
    BY <1>6 DEF QuietSteps, TakeGuard, SetFlag, RemoveFlag, RecordOutcome, StoreConnection,
                StoreStatement, DescribeExecution, countVars
  <2>2. QED
    BY <1>2, <1>3, <1>6, <2>1, QuietFacts
<1>7. CASE Returns
  BY <1>2, <1>3, <1>7 DEF Returns, Return, fixedVars, countVars
<1>8. CASE Calls
  <2>1. PICK fn \in functions, this \in Addrs \cup {0}, sub \in BOOLEAN :
          \E pre \in Pre(fn) : Call(fn, this, sub, pre)
    BY <1>8 DEF Calls
  <2>2. PICK f : f = [fn |-> fn, this |-> this, sub |-> sub, span |-> 0, cut |-> FALSE]
    OBVIOUS
  <2>3. frames' = Append(frames, f) /\ UNCHANGED <<ctx, panics, bailed, unwound>>
    BY <2>1, <2>2 DEF Call, fixedVars, countVars
  <2>4. f \in AllFrames /\ f \notin StartedFrames
    <3>1. f \in AllFrames
      BY <2>1, <2>2 DEF Inv, FrameTypes, AllFrames, AutoAssumption
    <3>2. f.span = 0
      BY <2>2
    <3>3. QED
      BY <3>1, <3>2, StartedMeans
  <2>5. Started' = Started
    BY <2>3, <2>4, Stacks, KeepAppend DEF Started
  <2>6. QED
    BY <1>3, <2>3, <2>5 DEF NestInv, On
<1>9. CASE Bailout
  BY <1>1, <1>9 DEF Bailout, Undisturbed
<1>10. CASE UserAttach
  <2>1. PICK e : e = [by |-> "user", span |-> spans + 1]
    OBVIOUS
  <2>2. ctx' = Append(ctx, e) /\ UNCHANGED <<frames, panics, bailed, unwound>>
    BY <1>10, <2>1 DEF UserAttach, fixedVars, countVars
  <2>3. e \in Contexts /\ e.by # "hook"
    BY <2>1 DEF Inv, FrameTypes, Contexts
  <2>4. On' = On
    BY <2>2, <2>3, OnAppend DEF On
  <2>5. QED
    BY <1>3, <2>2, <2>4 DEF NestInv, Started
<1>11. CASE UserDetach
  <2>1. PICK i \in 1 .. Len(ctx) : ctx[i].by = "user" /\ ctx' = RemoveAt(ctx, i)
    BY <1>11, Stacks, DetachFacts
  <2>2. ctx[i] \notin HookContexts
    BY <2>1 DEF HookContexts
  <2>3. On' = On
    BY <2>1, <2>2, Stacks, KeepRemove DEF On
  <2>4. UNCHANGED <<frames, panics, bailed, unwound>>
    BY <1>11 DEF UserDetach, fixedVars, countVars
  <2>5. QED
    BY <1>3, <2>3, <2>4 DEF NestInv, Started
<1>12. CASE StartSpan
  <2>1. hook = "pre" /\ frames # <<>> /\ Me.span = 0
    BY <1>12, StartFacts DEF StartSpan
  <2>2. Undisturbed
    BY <1>3, <1>12 DEF StartSpan, fixedVars, countVars
  <2>3. /\ Here \in 1 .. Here /\ Here \in Nat /\ Me = frames[Here] /\ Me \in AllFrames
    BY <2>1, FrameFacts DEF Inv, FrameTypes
  <2>4. guard_map[Here] = 0
    BY <2>1, <2>2, <2>3 DEF Inv, TableInv
  <2>5. PICK e : e = [by |-> "hook", span |-> spans + 1]
    OBVIOUS
  <2>6. e \in Contexts /\ spans + 1 \in 1 .. MaxSpans
    BY <1>12, <2>5 DEF StartSpan, Inv, FrameTypes, Contexts
  <2>7. ctx' = Append(ctx, e)
    <3>1. ctx' = Without(Append(ctx, e), 0)
      BY <1>12, <2>4, <2>5 DEF StartSpan
    <3>2. Append(ctx, e) \in Seq(Contexts)
      BY <2>6, Stacks, AppendProperties
    <3>3. QED
      BY <3>1, <3>2, NothingDropped
  <2>8. On' = Append(On, e)
    BY <2>5, <2>6, <2>7, OnAppend DEF On
  <2>9. PICK f : f = [Me EXCEPT !.span = spans + 1]
    OBVIOUS
  <2>10. f \in AllFrames /\ f \in StartedFrames /\ f.span = e.span
    BY <2>3, <2>5, <2>6, <2>9 DEF AllFrames, StartedFrames
  <2>11. frames' = Append(Front(frames), f)
    <3>1. frames' = [frames EXCEPT ![Here] = f]
      BY <1>12, <2>3, <2>9 DEF StartSpan
    <3>2. /\ frames' \in Seq(AllFrames) /\ Len(frames') = Here
          /\ \A i \in 1 .. Here : frames'[i] = IF i = Here THEN f ELSE frames[i]
      BY <2>3, <2>10, <3>1, Stacks, ExceptSeq, SMTT(30) DEF Here
    <3>3. /\ Front(frames) \in Seq(AllFrames) /\ Len(Front(frames)) = Here - 1
          /\ \A i \in 1 .. Here - 1 : Front(frames)[i] = frames[i]
      BY <2>1, Stacks, FrontLast DEF Here
    <3>4. /\ Append(Front(frames), f) \in Seq(AllFrames) /\ Len(Append(Front(frames), f)) = Here
          /\ \A i \in 1 .. Here : Append(Front(frames), f)[i] = IF i = Here THEN f ELSE frames[i]
      BY <2>3, <2>10, <3>3, AppendProperties
    <3>5. QED
      BY <3>2, <3>4, SeqEqual
  <2>12. Started = Keep(Front(frames), StartedFrames) /\ Front(frames) \in Seq(AllFrames)
    BY <2>1, Stacks
  <2>13. Started' = Append(Started, f)
    BY <2>10, <2>11, <2>12, KeepAppend DEF Started
  <2>14. SameSpans(On, Started)
    BY <2>2 DEF NestInv
  <2>15. On \in Seq(Contexts)
    <3>1. On \in Seq(Contexts \cap HookContexts)
      BY Stacks
    <3>2. QED
      BY <3>1, SeqMonotonic
  <2>16. QED
    BY <2>6, <2>8, <2>10, <2>13, <2>14, <2>15, Stacks, SameAppend
<1>13. CASE HookReturns
  <2>1. hook # "none" /\ program = <<>> /\ UNCHANGED <<panics, bailed, unwound>>
    BY <1>13 DEF HookReturns, LeaveHook, fixedVars
  <2>2. Undisturbed /\ frames # <<>> /\ SameSpans(On, Started)
    BY <1>3, <2>1 DEF NestInv, Inv, FrameTypes
  <2>3. CASE hook = "post"
    <3>1. /\ frames' = Front(frames) /\ held = Me.span
          /\ ctx' = IF held = 0 THEN ctx ELSE Without(ctx, held)
      BY <1>13, <2>1, <2>2, <2>3, HeldAtEnd DEF HookReturns, LeaveHook
    <3>2. CASE Me.span = 0
      BY <2>2, <3>1, <3>2, Stacks DEF On, Started
    <3>3. CASE Me.span # 0
      BY <2>2, <3>1, <3>3, InnermostLeaves DEF On, Started
    <3>4. QED
      BY <3>2, <3>3
  <2>4. CASE hook = "pre"
    <3>1. PICK w, n : RunsAt(w, n)
      BY <2>1, Running
    <3>2. held = 0 /\ ~Me.cut
      BY <2>4, <3>1 DEF RunsAt, PreAt
    <3>3. ctx' = ctx /\ frames' = [frames EXCEPT ![Here].cut = FALSE]
      BY <1>13, <2>4, <3>2 DEF HookReturns, LeaveHook
    <3>4. /\ Here \in 1 .. Here /\ Me = frames[Here] /\ Me \in AllFrames
      BY <2>2, FrameFacts DEF Inv, FrameTypes
    <3>5. [Me EXCEPT !.cut = FALSE] = Me
      BY <3>2, <3>4 DEF AllFrames
    <3>6. frames \in [1 .. Here -> AllFrames]
      BY LenProperties DEF Inv, FrameTypes, Here
    <3>7. frames' = frames
      BY <3>3, <3>4, <3>5, <3>6
    <3>8. QED
      BY <1>2, <2>2, <3>3, <3>7
  <2>5. QED
    BY <2>1, <2>3, <2>4 DEF Inv, FrameTypes
<1>14. CASE HookPanics
  BY <1>1, <1>14 DEF HookPanics, Undisturbed, Inv, ValueTypes
<1>15. CASE RequestShutdown
  <2>1. ctx' = <<>> /\ frames' = <<>>
    BY <1>15 DEF RequestShutdown, RequestEnds
  <2>2. On' = <<>> /\ Started' = <<>>
    BY <2>1, KeepEmpty DEF On, Started
  <2>3. QED
    BY <2>2, EmptySeq DEF SameSpans
<1>16. CASE RequestShutdownPanics
  BY <1>1, <1>16 DEF RequestShutdownPanics, Undisturbed
<1>17. QED
  BY <1>4, <1>5, <1>6, <1>7, <1>8, <1>9, <1>10, <1>11, <1>12, <1>13, <1>14, <1>15, <1>16, NextCases

-----------------------------------------------------------------------------
(* Panics, statements and requests.                                         *)

\* Guards are taken back by post hooks only.
LEMMA TakeFacts ==
  ASSUME AutoAssumption, Inv, TakeGuard
  PROVE  hook = "post" /\ frames # <<>>
<1>1. PICK x \in {"take", "takemarked"} : Step(x)
  BY DEF TakeGuard
<1>2. PICK w, n : RunsAt(w, n)
  BY <1>1, Running DEF Step
<1>3. n + 1 \in 1 .. Len(w) /\ w[n + 1] = x
  BY <1>1, <1>2, StepFacts DEF RunsAt
<1>4. QED
  BY <1>1, <1>2, <1>3 DEF RunsAt, PreWord

\* A call whose hooks were not cut short has its guard, or is giving it back.
LocalInv ==
  bailed # "now" /\ ~unwound =>
    \A i \in 1 .. Here :
      frames[i].span # 0 /\ ~frames[i].cut =>
        guard_map[i] = frames[i].span \/ (i = Here /\ hook = "post")

\* No step costs another call its guard.
LEMMA LocalStep ==
  ASSUME AutoAssumption, Inv, LocalInv, [Next]_vars
  PROVE  LocalInv'
<1>1. ASSUME UNCHANGED <<frames, guard_map, bailed, unwound>>, hook' = hook \/ hook' = "post"
      PROVE  LocalInv'
  BY <1>1 DEF LocalInv, Here
<1>2. CASE UNCHANGED vars
  BY <1>1, <1>2 DEF vars, tableVars
<1>3. CASE QuietPhp
  BY <1>1, <1>3, QuietFacts DEF tableVars
<1>4. CASE UserAttach \/ UserDetach \/ Returns
  BY <1>1, <1>4 DEF UserAttach, UserDetach, Returns, Return, fixedVars, tableVars
<1>5. CASE QuietSteps
  <2>1. UNCHANGED <<frames, hook, bailed, unwound>>
    BY <1>5, QuietFacts
  <2>2. CASE TakeGuard
    <3>1. hook = "post" /\ frames # <<>>
      BY <2>2, TakeFacts
    <3>2. Here \in Depths /\ Here' = Here /\ guard_map \in [Depths -> 0 .. MaxSpans]
          /\ \A i \in 1 .. Here : i \in Depths
      BY <2>1, <3>1, HereIsDepth DEF Inv, ValueTypes, FrameTypes, Here, Depths, AutoAssumption
    <3>3. \A i \in 1 .. Here : i # Here => guard_map'[i] = guard_map[i]
      BY <2>2, <3>2 DEF TakeGuard
    <3>4. QED
      BY <2>1, <3>1, <3>2, <3>3 DEF LocalInv
  <2>3. CASE ~TakeGuard
    <3>1. UNCHANGED guard_map
      BY <1>5, <2>3 DEF QuietSteps, SetFlag, RemoveFlag, RecordOutcome, StoreConnection,
                        StoreStatement, DescribeExecution, tableVars
    <3>2. QED
      BY <1>1, <2>1, <3>1
  <2>4. QED
    BY <2>2, <2>3
<1>6. CASE Calls
  <2>1. PICK fn \in functions, this \in Addrs \cup {0}, sub \in BOOLEAN :
          \E pre \in Pre(fn) : Call(fn, this, sub, pre)
    BY <1>6 DEF Calls
  <2>2. PICK f : f = [fn |-> fn, this |-> this, sub |-> sub, span |-> 0, cut |-> FALSE]
    OBVIOUS
  <2>3. /\ frames' = Append(frames, f) /\ f.span = 0 /\ hook = "none"
        /\ UNCHANGED <<guard_map, bailed, unwound>>
    BY <2>1, <2>2 DEF Call, PhpRuns, fixedVars, tableVars
  <2>4. f \in AllFrames
    BY <2>1, <2>2 DEF Inv, FrameTypes, AllFrames, AutoAssumption
  <2>5. /\ Here \in Nat /\ Here' = Here + 1 /\ frames'[Here + 1] = f
        /\ \A i \in 1 .. Here : frames'[i] = frames[i]
    BY <2>3, <2>4, AppendProperties, LenProperties DEF Inv, FrameTypes, Here
  <2>6. \A i \in 1 .. Here' : i = Here + 1 \/ i \in 1 .. Here
    BY <2>5
  <2>7. QED
    BY <2>3, <2>5, <2>6 DEF LocalInv
<1>7. CASE Bailout
  BY <1>7 DEF Bailout, LocalInv
<1>8. CASE StartSpan
  <2>1. hook = "pre" /\ frames # <<>>
    BY <1>8, StartFacts DEF StartSpan
  <2>2. /\ Here \in 1 .. Here /\ Here \in Nat /\ Here \in Depths /\ Me = frames[Here] /\ Me \in AllFrames
        /\ guard_map \in [Depths -> 0 .. MaxSpans]
        /\ \A i \in 1 .. Here : i \in Depths
    BY <2>1, FrameFacts, HereIsDepth DEF Inv, FrameTypes, ValueTypes, Depths, AutoAssumption
  <2>3. /\ frames' = [frames EXCEPT ![Here].span = spans + 1]
        /\ guard_map' = [guard_map EXCEPT ![Here] = spans + 1]
        /\ UNCHANGED <<bailed, unwound>>
    BY <1>8 DEF StartSpan, fixedVars
  <2>4. frames \in [1 .. Here -> AllFrames] /\ Len(frames') = Len(frames)
    BY <2>3, LenProperties DEF Inv, FrameTypes, Here
  <2>5. /\ frames'[Here].span = spans + 1 /\ Here' = Here
        /\ \A i \in 1 .. Here : i # Here => frames'[i] = frames[i] /\ guard_map'[i] = guard_map[i]
        /\ guard_map'[Here] = spans + 1
    BY <2>2, <2>3, <2>4 DEF AllFrames, Here
  <2>6. QED
    BY <2>1, <2>3, <2>5 DEF LocalInv
<1>9. CASE HookReturns \/ HookPanics
  <2>1. PICK p \in BOOLEAN : LeaveHook(p)
    BY <1>9 DEF HookReturns, HookPanics
  <2>2. hook # "none" /\ frames # <<>> /\ hook' = "none" /\ UNCHANGED <<guard_map, bailed, unwound>>
    BY <2>1 DEF LeaveHook, Inv, FrameTypes, fixedVars, tableVars
  <2>3. /\ Here \in 1 .. Here /\ Here \in Nat /\ Me = frames[Here] /\ Me \in AllFrames
    BY <2>2, FrameFacts DEF Inv, FrameTypes
  <2>4. CASE hook = "post"
    <3>1. frames' = Front(frames) /\ frames \in Seq(AllFrames)
      BY <2>1, <2>4 DEF LeaveHook, Inv, FrameTypes
    <3>2. Here' = Here - 1 /\ \A i \in 1 .. Here - 1 : frames'[i] = frames[i]
      BY <2>2, <3>1, FrontLast DEF Here
    <3>3. \A i \in 1 .. Here' : i \in 1 .. Here /\ i # Here /\ frames'[i] = frames[i]
      BY <2>3, <3>2
    <3>4. QED
      BY <2>2, <3>3 DEF LocalInv
  <2>5. CASE hook = "pre"
    <3>1. PICK w, n : RunsAt(w, n)
      BY <2>2, Running
    <3>2. ~Me.cut
      BY <2>5, <3>1 DEF RunsAt, PreAt
    <3>3. frames' = [frames EXCEPT ![Here].cut = p]
      BY <2>1, <2>5 DEF LeaveHook
    <3>4. frames \in [1 .. Here -> AllFrames] /\ Len(frames') = Len(frames)
      BY <3>3, LenProperties DEF Inv, FrameTypes, Here
    <3>5. /\ Here' = Here /\ frames'[Here].span = Me.span
          /\ \A i \in 1 .. Here : i # Here => frames'[i] = frames[i]
      BY <2>3, <3>3, <3>4 DEF AllFrames, Here
    <3>6. QED
      BY <2>2, <2>3, <2>5, <3>2, <3>5 DEF LocalInv
  <2>6. QED
    BY <2>2, <2>4, <2>5 DEF Inv, FrameTypes
<1>10. CASE RequestShutdown \/ RequestShutdownPanics
  <2>1. frames' = <<>>
    BY <1>10 DEF RequestShutdown, RequestShutdownPanics, RequestEnds
  <2>2. Here' = 0
    BY <2>1, EmptySeq DEF Here
  <2>3. QED
    BY <2>2 DEF LocalInv
<1>11. QED
  BY <1>2, <1>3, <1>4, <1>5, <1>6, <1>7, <1>8, <1>9, <1>10, NextCases

\* A statement is described by a post hook of prepare, which has the statement.
LEMMA StatementFacts ==
  ASSUME AutoAssumption, Inv, Step("statement")
  PROVE  Me.this \in Addrs /\ PluginOf(Me.fn) \in {"laminas", "zf1"}
<1>1. PICK w, n : RunsAt(w, n)
  BY Running DEF Step
<1>2. n + 1 \in 1 .. Len(w) /\ w[n + 1] = "statement"
  BY <1>1, StepFacts DEF RunsAt
<1>3. Me.fn \in {"prepare", "Adapter::prepare"}
  BY <1>1, <1>2 DEF RunsAt, PreWord, PostWord
<1>4. Me.this \in Addrs
  <2>1. Here \in 1 .. Here /\ Me = frames[Here]
    BY <1>1, FrameFacts DEF RunsAt, Inv, FrameTypes
  <2>2. Fits(Me)
    BY <2>1 DEF Inv, FrameTypes
  <2>3. QED
    BY <1>3, <2>2 DEF Fits, StatementFunctions
<1>5. PluginOf(Me.fn) \in {"laminas", "zf1"}
  BY <1>3 DEF PluginOf, LaminasFunctions, Zf1Functions, SymfonyFunctions, LaravelFunctions
<1>6. QED
  BY <1>4, <1>5

\* A statement keeps its own entry.
LEMMA StatementStep ==
  ASSUME AutoAssumption, Inv, StatementDescribesItself, [Next]_vars
  PROVE  StatementDescribesItself'
<1>1. ASSUME UNCHANGED <<heap, statement_attrs>>
      PROVE  StatementDescribesItself'
  BY <1>1 DEF StatementDescribesItself
<1>2. CASE UNCHANGED vars
  BY <1>1, <1>2 DEF vars, tableVars
<1>3. CASE RequestInit \/ \E fn \in functions : CallUnselected(fn)
  BY <1>1, <1>3 DEF RequestInit, CallUnselected, tableVars
<1>4. CASE Calls \/ Returns \/ Bailout \/ UserAttach \/ UserDetach
  <2>1. UNCHANGED <<heap, tableVars>>
    BY <1>4 DEF Calls, Returns, Call, Return, Bailout, UserAttach, UserDetach
  <2>2. QED
    BY <1>1, <2>1 DEF tableVars
<1>5. ASSUME NEW a \in Addrs, Allocate(a) \/ Free(a)
      PROVE  StatementDescribesItself'
  <2>1. /\ statement_attrs' = statement_attrs /\ heap'[a].described = FALSE
        /\ \A b \in Addrs : b # a => heap'[b] = heap[b]
    BY <1>5 DEF Allocate, Free, tableVars, Inv, ValueTypes
  <2>2. QED
    BY <2>1 DEF StatementDescribesItself
<1>6. CASE StoreStatement
  <2>1. Me.this \in Addrs /\ PluginOf(Me.fn) \in {"laminas", "zf1"}
    BY <1>6, StatementFacts DEF StoreStatement
  <2>2. PICK a \in Addrs, p \in {"laminas", "zf1"} : a = Me.this /\ p = PluginOf(Me.fn)
    BY <2>1
  <2>3. /\ statement_attrs' = [statement_attrs EXCEPT ![p][a] = heap[a].id]
        /\ heap' = [heap EXCEPT ![a].described = TRUE]
    BY <1>6, <2>2 DEF StoreStatement, Stored
  <2>4. /\ statement_attrs \in [{"laminas", "zf1"} -> [Addrs -> 0 .. objects]]
        /\ heap \in [Addrs -> [id : 0 .. objects, described : BOOLEAN]]
    BY DEF Inv, ValueTypes
  <2>5. statement_attrs'[p][a] = heap[a].id
    BY <2>3, <2>4
  <2>6. \A q \in {"laminas", "zf1"}, b \in Addrs : b # a => statement_attrs'[q][b] = statement_attrs[q][b]
    BY <2>3, <2>4
  <2>7. heap'[a].id = heap[a].id /\ \A b \in Addrs : b # a => heap'[b] = heap[b]
    BY <2>3, <2>4
  <2>8. QED
    BY <2>5, <2>6, <2>7 DEF StatementDescribesItself
<1>7. CASE StartSpan \/ (QuietSteps /\ ~StoreStatement) \/ HookReturns \/ HookPanics
  <2>1. UNCHANGED <<heap, statement_attrs>>
    BY <1>7 DEF StartSpan, QuietSteps, TakeGuard, SetFlag, RemoveFlag, RecordOutcome,
                StoreConnection, DescribeExecution, HookReturns, HookPanics, LeaveHook, tableVars
  <2>2. QED
    BY <1>1, <2>1
<1>8. CASE RequestShutdown \/ RequestShutdownPanics
  <2>1. heap' = [a \in Addrs |-> [id |-> 0, described |-> FALSE]]
    BY <1>8 DEF RequestShutdown, RequestShutdownPanics, RequestEnds
  <2>2. \A a \in Addrs : heap'[a].described = FALSE
    BY <2>1
  <2>3. QED
    BY <2>2 DEF StatementDescribesItself
<1>9. QED
  BY <1>2, <1>3, <1>4, <1>5, <1>6, <1>7, <1>8, NextCases DEF QuietPhp, QuietSteps

\* Between requests nothing runs, and RSHUTDOWN leaves nothing behind.
LEMMA CleanStep ==
  ASSUME AutoAssumption, Inv, CleanBetweenRequests, [Next]_vars
  PROVE  CleanBetweenRequests'
<1>1. CASE UNCHANGED vars
  BY <1>1 DEF vars, tableVars, CleanBetweenRequests
<1>2. CASE RequestShutdown
  BY <1>2 DEF RequestShutdown, CleanBetweenRequests
<1>3. CASE RequestShutdownPanics
  BY <1>3 DEF RequestShutdownPanics, CleanBetweenRequests
<1>4. ASSUME phase' = "running"
      PROVE  CleanBetweenRequests'
  BY <1>4 DEF CleanBetweenRequests
<1>5. CASE QuietPhp
  <2>1. phase' = "running"
    BY <1>5 DEF QuietPhp, RequestInit, CallUnselected, Allocate, Free, PhpRuns
  <2>2. QED
    BY <1>4, <2>1
<1>6. CASE Calls \/ Returns \/ Bailout \/ UserAttach \/ UserDetach
  <2>1. phase' = "running"
    BY <1>6 DEF Calls, Returns, Call, Return, Bailout, UserAttach, UserDetach, PhpRuns
  <2>2. QED
    BY <1>4, <2>1
<1>7. CASE StartSpan \/ QuietSteps \/ HookReturns \/ HookPanics
  <2>1. hook # "none"
    BY <1>7 DEF StartSpan, QuietSteps, TakeGuard, SetFlag, RemoveFlag, RecordOutcome,
                StoreConnection, StoreStatement, DescribeExecution, HookReturns, HookPanics,
                LeaveHook, Step
  <2>2. phase' = phase
    BY <1>7, QuietFacts DEF StartSpan, HookReturns, HookPanics, LeaveHook
  <2>3. QED
    BY <1>4, <2>1, <2>2 DEF Inv, FrameTypes
<1>8. QED
  BY <1>1, <1>2, <1>3, <1>5, <1>6, <1>7, NextCases

-----------------------------------------------------------------------------
(* Theorems.                                                                *)

FullInv ==
  Inv /\ NestInv /\ LocalInv /\ StatementDescribesItself /\ CleanBetweenRequests

\* The inductive invariant of the observer: what every hook has done so far, and what
\* the tables hold for every call in progress.
THEOREM AutoInvariance == Spec => []FullInv
<1>1. Init => FullInv
  <2>1. SUFFICES ASSUME Init PROVE FullInv
    OBVIOUS
  <2>2. Inv
    BY <2>1, AutoAssumption, InitInv
  <2>3. Here = 0 /\ Keep(ctx, HookContexts) = <<>> /\ Keep(frames, StartedFrames) = <<>>
    BY <2>1, KeepEmpty, EmptySeq DEF Init, Here
  <2>4. NestInv /\ LocalInv
    BY <2>3, EmptySeq DEF NestInv, LocalInv, On, Started, SameSpans
  <2>5. StatementDescribesItself
    BY <2>1 DEF Init, StatementDescribesItself
  <2>6. CleanBetweenRequests
    BY <2>1 DEF Init, CleanBetweenRequests
  <2>7. QED
    BY <2>2, <2>4, <2>5, <2>6 DEF FullInv
<1>2. FullInv /\ [Next]_vars => FullInv'
  <2>1. SUFFICES ASSUME FullInv, [Next]_vars PROVE FullInv'
    OBVIOUS
  <2>2. Inv /\ NestInv /\ LocalInv /\ StatementDescribesItself /\ CleanBetweenRequests
    BY <2>1 DEF FullInv
  <2>3. Inv'
    BY <2>1, <2>2, AutoAssumption, InvStep
  <2>4. NestInv'
    BY <2>1, <2>2, <2>3, AutoAssumption, NestStep
  <2>5. LocalInv'
    BY <2>1, <2>2, AutoAssumption, LocalStep
  <2>6. StatementDescribesItself'
    BY <2>1, <2>2, AutoAssumption, StatementStep
  <2>7. CleanBetweenRequests'
    BY <2>1, <2>2, AutoAssumption, CleanStep
  <2>8. QED
    BY <2>3, <2>4, <2>5, <2>6, <2>7 DEF FullInv
<1>3. QED
  BY <1>1, <1>2, PTL DEF Spec

\* Guards, flags and contexts belong to the calls in progress and nothing else, at any
\* depth of calls, unless a panic, a fatal error or an unwound RSHUTDOWN came between.
THEOREM CallsOwnState == Spec => []StateFollowsCalls
<1>1. ASSUME AutoAssumption, FullInv
      PROVE  StateFollowsCalls
  <2>1. Inv /\ NestInv /\ CleanBetweenRequests
    BY <1>1 DEF FullInv
  <2>2. \A i \in 1 .. Here : frames[i] \in AllFrames /\ Fits(frames[i])
    BY <2>1, ElementOfSeq DEF Inv, FrameTypes, Here
  <2>3. TypeOK
    <3>1. \A i \in 1 .. Here : /\ frames[i].fn \in functions
                               /\ frames[i].this \in Addrs \cup {0}
                               /\ frames[i].span \in 0 .. MaxSpans
      BY <2>2 DEF AllFrames, Fits
    <3>2. \A p \in {"laminas", "zf1"}, a \in Addrs :
            connection_attrs[p][a] \in 0 .. objects /\ statement_attrs[p][a] \in 0 .. objects
      BY <2>1 DEF Inv, ValueTypes
    <3>3. QED
      BY <2>1, <3>1, <3>2 DEF Inv, FrameTypes, ValueTypes, TypeOK
  <2>4. HookContextsNest
    BY <2>1 DEF NestInv, SameSpans, On, Started, HookContextsNest
  <2>5. TablesFollowFrames
    BY <2>1 DEF Inv, TableInv, TablesFollowFrames, Undisturbed
  <2>6. QED
    BY <2>1, <2>3, <2>4, <2>5 DEF StateFollowsCalls
<1>2. FullInv => StateFollowsCalls
  BY <1>1, AutoAssumption
<1>3. QED
  BY <1>2, AutoInvariance, PTL

\* What a post hook records goes to the span its own pre hook started.
THEOREM OwnOutcome == Spec => []OutcomeOnOwnSpan
<1>1. ASSUME AutoAssumption, FullInv
      PROVE  OutcomeOnOwnSpan
  <2>1. SUFFICES ASSUME Step("outcome"), Undisturbed, Me.span # 0, ctx # <<>>, Last(ctx).by # "user"
                 PROVE  CurrentSpan = Me.span
    BY DEF OutcomeOnOwnSpan
  <2>2. Inv /\ SameSpans(On, Started) /\ frames # <<>>
    BY <1>1, <2>1 DEF FullInv, NestInv, Inv, FrameTypes, Step
  <2>3. PICK outer : outer = Keep(Front(frames), StartedFrames)
    OBVIOUS
  <2>4. /\ ctx \in Seq(Contexts) /\ outer \in Seq(AllFrames) /\ Me \in AllFrames
        /\ Started = Append(outer, Me)
    BY <1>1, <2>1, <2>2, <2>3, Stacks
  <2>5. PICK below, l : below = Front(ctx) /\ l = Last(ctx)
    OBVIOUS
  <2>6. below \in Seq(Contexts) /\ l \in Contexts /\ ctx = Append(below, l)
    BY <2>1, <2>4, <2>5, FrontLast
  <2>7. l \in HookContexts
    BY <2>1, <2>5, <2>6 DEF Contexts, HookContexts
  <2>8. On = Append(Keep(below, HookContexts), l)
    BY <2>6, <2>7, KeepAppend DEF On
  <2>9. Keep(below, HookContexts) \in Seq(Contexts)
    <3>1. Keep(below, HookContexts) \in Seq(Contexts \cap HookContexts)
      BY <2>6, KeepIsSeq
    <3>2. QED
      BY <3>1, SeqMonotonic
  <2>10. l.span = Me.span
    BY <2>2, <2>4, <2>6, <2>8, <2>9, SameAppend
  <2>11. QED
    BY <2>1, <2>5, <2>10 DEF CurrentSpan
<1>2. FullInv => OutcomeOnOwnSpan
  BY <1>1, AutoAssumption
<1>3. QED
  BY <1>2, AutoInvariance, PTL

\* A panic in a hook costs no other call its guard.
THEOREM PanicsAreLocal == Spec => []PanicIsLocal
<1>1. FullInv => PanicIsLocal
  BY DEF FullInv, LocalInv, PanicIsLocal
<1>2. QED
  BY <1>1, AutoInvariance, PTL

\* A prepared statement is described by its own entry, however addresses are used again.
THEOREM StatementsDescribed == Spec => []StatementDescribesItself
<1>1. FullInv => StatementDescribesItself
  BY DEF FullInv
<1>2. QED
  BY <1>1, AutoInvariance, PTL
=============================================================================
