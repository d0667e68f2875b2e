-------------------------- MODULE ObservableProofs ---------------------------
(***************************************************************************)
(* Theorems about ObservableMetrics, for any number of instruments,        *)
(* registrations and requests, and for callbacks that nest to any depth.   *)
(***************************************************************************)
EXTENDS ObservableMetrics, SequenceTheorems, TLAPS

\* An observer belongs to a target of its registration, and so does what it left.
InTargets ==
  /\ \A o \in observers : o[1] \in targets[o[2]]
  /\ \A o \in observed : o[1] \in targets[o[2]]

\* A late observation is one of a registration that is gone for good.
LateIsGone == \A e \in late : e[2] \notin callbacks

\* RSHUTDOWN: what is registered was called or is still to be called, and holds
\* only observations of its last run once it was called.
RefreshProgress ==
  /\ phase \in {"idle", "flush"} => calls = <<>> /\ pending = {}
  /\ phase = "refresh" => callbacks \subseteq ran \cup pending
  /\ phase = "flush" => callbacks \subseteq ran
  /\ phase \in {"refresh", "flush"} =>
       \A o \in observed : o[2] \in callbacks \cap ran => o[3] = runs[o[2]]

IndInv == TypeOK /\ EntriesOwned /\ InTargets /\ LateIsGone /\ RefreshProgress

CallTypes ==
  /\ calls \in Seq([id : Nat, by : {"register", "flush"}])
  /\ \A i \in 1 .. Len(calls) : calls[i].id \in Registrations

-----------------------------------------------------------------------------
\* A call is pushed.
LEMMA PushCall ==
  ASSUME CallTypes, NEW id \in Nat, NEW by \in {"register", "flush"},
         calls' = Append(calls, [id |-> id, by |-> by]),
         Registrations \subseteq Registrations', id \in Registrations'
  PROVE  CallTypes'
<1> DEFINE call == [id |-> id, by |-> by]
<1>1. call \in [id : Nat, by : {"register", "flush"}] /\ call.id = id
  OBVIOUS
<1>2. /\ calls' \in Seq([id : Nat, by : {"register", "flush"}])
      /\ Len(calls') = Len(calls) + 1 /\ Len(calls) \in Nat
      /\ \A i \in 1 .. Len(calls) : calls'[i] = calls[i]
      /\ calls'[Len(calls) + 1] = call
  BY <1>1 DEF CallTypes
<1>3. \A i \in 1 .. Len(calls') : i \in 1 .. Len(calls) \/ i = Len(calls) + 1
  BY <1>2
<1>4. QED
  BY <1>1, <1>2, <1>3 DEF CallTypes

\* What is left of a sequence without its last element.
LEMMA WithoutLast ==
  ASSUME NEW S, NEW seq \in Seq(S), seq # <<>>
  PROVE  /\ SubSeq(seq, 1, Len(seq) - 1) \in Seq(S)
         /\ Len(SubSeq(seq, 1, Len(seq) - 1)) = Len(seq) - 1
         /\ Len(seq) \in Nat \ {0}
         /\ \A i \in 1 .. Len(seq) - 1 : SubSeq(seq, 1, Len(seq) - 1)[i] = seq[i]
<1>1. Len(seq) \in Nat \ {0}
  OBVIOUS
<1>2. \A i \in 1 .. Len(seq) - 1 : SubSeq(seq, 1, Len(seq) - 1)[i] = seq[i]
  OBVIOUS
<1>3. ASSUME NEW a \in Int, NEW b \in Int, \A i \in a .. b : seq[i] \in S
      PROVE  Len(SubSeq(seq, a, b)) = IF a <= b THEN b - a + 1 ELSE 0
  BY <1>3, SubSeqProperties, Zenon
<1>4. SubSeq(seq, 1, Len(seq) - 1) \in Seq(S)
  BY <1>1
<1>5. Len(SubSeq(seq, 1, Len(seq) - 1)) = Len(seq) - 1
  <2>1. PICK n \in Nat : n = Len(seq) - 1
    BY <1>1
  <2>2. \A i \in 1 .. n : seq[i] \in S
    BY <2>1
  <2>3. Len(SubSeq(seq, 1, n)) = IF 1 <= n THEN n - 1 + 1 ELSE 0
    BY <2>2, <1>3
  <2>4. QED
    BY <2>1, <2>3
<1>6. QED
  BY <1>1, <1>2, <1>4, <1>5

\* The innermost call ends.
LEMMA PopCall ==
  ASSUME CallTypes, calls # <<>>, calls' = Pop, Registrations' = Registrations
  PROVE  CallTypes' /\ Top.id \in Registrations
<1> DEFINE S == [id : Nat, by : {"register", "flush"}]
<1>1. /\ calls' \in Seq(S)
      /\ Len(calls') = Len(calls) - 1 /\ Len(calls) \in Nat \ {0}
      /\ \A i \in 1 .. Len(calls) - 1 : calls'[i] = calls[i]
  <2> HIDE DEF S
  <2>1. calls \in Seq(S)
    BY DEF CallTypes, S
  <2>2. QED
    BY <2>1, WithoutLast DEF Pop
<1>2. \A i \in 1 .. Len(calls) : calls[i].id \in Registrations
  BY DEF CallTypes
<1>3. \A i \in 1 .. Len(calls') : calls'[i].id \in Registrations'
  BY <1>1, <1>2
<1>4. QED
  BY <1>1, <1>2, <1>3 DEF CallTypes, Top

\* detach_callback removes registrations together with all they left behind.
LEMMA DetachStep ==
  ASSUME IndInv, NEW gone, DetachCallbacks(gone),
         UNCHANGED <<targets, runs, late>>
  PROVE  /\ callbacks' \subseteq callbacks
         /\ entries' \subseteq entries /\ observed' \subseteq observed
         /\ EntriesOwned' /\ LateIsGone'
<1>1. /\ callbacks' = callbacks \ gone
      /\ entries' = {e \in entries : ~(e[2] \in gone \cap callbacks /\ e[1] \in targets[e[2]])}
      /\ observed' \subseteq observed
  BY DEF DetachCallbacks, Forgotten
<1>2. LateIsGone'
  BY <1>1 DEF IndInv, LateIsGone
<1>3. EntriesOwned'
  <2>1. SUFFICES ASSUME NEW cache \in Caches, NEW id \in Registrations
                 PROVE  <<cache, id>> \in entries' <=>
                          \/ id \in callbacks' /\ cache \in targets[id]
                          \/ <<cache, id>> \in late
    BY DEF EntriesOwned, Registrations
  <2>2. <<cache, id>> \in entries <=> \/ id \in callbacks /\ cache \in targets[id]
                                      \/ <<cache, id>> \in late
    BY DEF IndInv, EntriesOwned
  <2>3. <<cache, id>> \in entries' <=>
          <<cache, id>> \in entries /\ ~(id \in gone \cap callbacks /\ cache \in targets[id])
    BY <1>1
  <2>4. <<cache, id>> \in late => id \notin callbacks
    BY DEF IndInv, LateIsGone
  <2>5. QED
    BY <1>1, <2>2, <2>3, <2>4
<1>4. QED
  BY <1>1, <1>2, <1>3

\* Detaching keeps the whole invariant when nothing else moves forward.
LEMMA DetachKeeps ==
  ASSUME IndInv, NEW gone, DetachCallbacks(gone),
         UNCHANGED <<targets, runs, requests, ran, late>>,
         CallTypes', observers' \subseteq observers, tokens' \subseteq Registrations,
         ids' \subseteq ids, pending' = pending, pending' \subseteq ids',
         phase' \in {"idle", "running", "refresh"}, phase' = "idle" => calls' = <<>> /\ pending = {},
         phase' = "refresh" => phase = "refresh"
  PROVE  IndInv'
<1>1. /\ callbacks' \subseteq callbacks
      /\ entries' \subseteq entries /\ observed' \subseteq observed
      /\ EntriesOwned' /\ LateIsGone'
  BY DetachStep
<1>2. Registrations' = Registrations
  BY DEF Registrations
<1>3. TypeOK'
  BY <1>1, <1>2 DEF IndInv, TypeOK, CallTypes
<1>4. InTargets'
  BY <1>1 DEF IndInv, InTargets
<1>5. RefreshProgress'
  BY <1>1 DEF IndInv, RefreshProgress
<1>6. QED
  BY <1>1, <1>3, <1>4, <1>5 DEF IndInv

\* register_callback: a new registration, called at once.
LEMMA RegisterStep ==
  ASSUME IndInv, NEW caches \in SUBSET Caches \ {{}}, Register(caches)
  PROVE  IndInv'
<1> DEFINE id == Len(targets) + 1
<1>1. /\ targets \in Seq(SUBSET Caches \ {{}}) /\ Len(targets) \in Nat
      /\ runs \in Seq(Nat) /\ Len(runs) = Len(targets)
  BY DEF IndInv, TypeOK
<1>2. /\ PhpRuns
      /\ targets' = Append(targets, caches) /\ runs' = Append(runs, 1)
      /\ callbacks' = callbacks \cup {id}
      /\ entries' = entries \cup (caches \X {id})
      /\ observed' \subseteq observed
      /\ observers' = observers \cup (caches \X {id})
      /\ calls' = Append(calls, [id |-> id, by |-> "register"])
      /\ ran' = ran \cup {id}
      /\ UNCHANGED <<tokens, phase, ids, pending, requests, late>>
  BY DEF Register, NextCallbackId, Invoke, flushVars
<1>3. /\ targets' \in Seq(SUBSET Caches \ {{}}) /\ Len(targets') = id
      /\ \A k \in 1 .. Len(targets) : targets'[k] = targets[k]
      /\ targets'[id] = caches
  BY <1>1, <1>2
<1>4. /\ runs' \in Seq(Nat) /\ Len(runs') = id
      /\ \A k \in 1 .. Len(targets) : runs'[k] = runs[k]
  BY <1>1, <1>2
<1>5. /\ id \in Nat /\ id \notin Registrations
      /\ Registrations' = Registrations \cup {id}
  BY <1>1, <1>3 DEF Registrations
<1>6. CallTypes'
  BY <1>2, <1>5, PushCall DEF IndInv, TypeOK, CallTypes
<1>7. TypeOK'
  <2>1. /\ entries' \subseteq Caches \X Registrations'
        /\ observers' \subseteq Caches \X Registrations'
        /\ observed' \subseteq Caches \X Registrations' \X Nat
        /\ late' \subseteq Caches \X Registrations'
    BY <1>2, <1>5 DEF IndInv, TypeOK
  <2>2. /\ callbacks' \subseteq Registrations' /\ tokens' \subseteq Registrations'
        /\ ids' \subseteq Registrations' /\ pending' \subseteq ids'
        /\ ran' \subseteq Registrations'
    BY <1>2, <1>5 DEF IndInv, TypeOK
  <2>3. QED
    BY <1>2, <1>3, <1>4, <1>6, <2>1, <2>2 DEF IndInv, TypeOK, CallTypes
<1>8. EntriesOwned'
  <2>1. SUFFICES ASSUME NEW c \in Caches, NEW k \in Registrations'
                 PROVE  <<c, k>> \in entries' <=> \/ k \in callbacks' /\ c \in targets'[k]
                                                 \/ <<c, k>> \in late'
    BY DEF EntriesOwned
  <2>2. CASE k = id
    <3>1. <<c, k>> \in entries' <=> c \in caches
      BY <1>2, <1>5, <2>2 DEF IndInv, TypeOK
    <3>2. <<c, k>> \notin late'
      BY <1>2, <1>5, <2>2 DEF IndInv, TypeOK
    <3>3. QED
      BY <1>2, <1>3, <2>2, <3>1, <3>2
  <2>3. CASE k # id
    <3>1. k \in Registrations
      BY <1>5, <2>3
    <3>2. targets'[k] = targets[k]
      BY <1>3, <3>1 DEF Registrations
    <3>3. QED
      BY <1>2, <2>3, <3>1, <3>2 DEF IndInv, EntriesOwned
  <2>4. QED
    BY <2>2, <2>3
<1>9. InTargets'
  <2>1. \A o \in observers : o[2] \in Registrations /\ o[1] \in targets'[o[2]]
    BY <1>3 DEF IndInv, TypeOK, InTargets, Registrations
  <2>2. \A o \in observed : o[2] \in Registrations /\ o[1] \in targets'[o[2]]
    BY <1>3 DEF IndInv, TypeOK, InTargets, Registrations
  <2>3. \A o \in caches \X {id} : o[1] \in targets'[o[2]]
    BY <1>3
  <2>4. QED
    BY <1>2, <2>1, <2>2, <2>3 DEF InTargets
<1>10. LateIsGone'
  BY <1>2, <1>5 DEF IndInv, TypeOK, LateIsGone
<1>11. RefreshProgress'
  <2>1. phase \notin {"idle", "flush"}
    BY <1>2 DEF IndInv, RefreshProgress, PhpRuns
  <2>2. phase = "refresh" => callbacks' \subseteq ran' \cup pending'
    BY <1>2 DEF IndInv, RefreshProgress
  <2>3. ASSUME phase = "refresh", NEW o \in observed', o[2] \in callbacks' \cap ran'
        PROVE  o[3] = runs'[o[2]]
    <3>1. o \in observed /\ o[2] \in Registrations
      BY <1>2, <2>3 DEF IndInv, TypeOK
    <3>2. o[2] \in callbacks \cap ran
      BY <1>2, <1>5, <2>3, <3>1
    <3>3. QED
      BY <1>4, <2>3, <3>1, <3>2 DEF IndInv, RefreshProgress, Registrations
  <2>4. QED
    BY <1>2, <2>1, <2>2, <2>3 DEF RefreshProgress
<1>12. QED
  BY <1>7, <1>8, <1>9, <1>10, <1>11 DEF IndInv

\* Observer::observe, also with an observer that outlived its registration.
LEMMA ObserveStep ==
  ASSUME IndInv, NEW cache, NEW id, Observe(cache, id)
  PROVE  IndInv'
<1>1. /\ PhpRuns /\ <<cache, id>> \in observers
      /\ entries' = entries \cup {<<cache, id>>}
      /\ observed' = observed \cup {<<cache, id, runs[id]>>}
      /\ late' = IF id \in callbacks THEN late ELSE late \cup {<<cache, id>>}
      /\ UNCHANGED <<targets, callbacks, runs, calls, observers, tokens, phase, ids,
                     pending, requests, ran>>
  BY DEF Observe, registryVars, phpVars, flushVars
<1>2. cache \in Caches /\ id \in Registrations /\ cache \in targets[id] /\ runs[id] \in Nat
  BY <1>1 DEF IndInv, TypeOK, InTargets, Registrations
<1>3. Registrations' = Registrations
  BY <1>1 DEF Registrations
<1>4. TypeOK'
  <2>1. /\ entries' \subseteq Caches \X Registrations
        /\ observed' \subseteq Caches \X Registrations \X Nat
        /\ late' \subseteq Caches \X Registrations
    BY <1>1, <1>2 DEF IndInv, TypeOK
  <2>2. QED
    BY <1>1, <1>3, <2>1 DEF IndInv, TypeOK
<1>5. EntriesOwned'
  <2>1. SUFFICES ASSUME NEW c \in Caches, NEW k \in Registrations
                 PROVE  <<c, k>> \in entries' <=> \/ k \in callbacks /\ c \in targets[k]
                                                 \/ <<c, k>> \in late'
    BY <1>1, <1>3 DEF EntriesOwned
  <2>2. <<c, k>> \in entries <=> \/ k \in callbacks /\ c \in targets[k]
                                 \/ <<c, k>> \in late
    BY DEF IndInv, EntriesOwned
  <2>3. QED
    BY <1>1, <1>2, <2>2
<1>6. InTargets' /\ LateIsGone'
  BY <1>1, <1>2 DEF IndInv, InTargets, LateIsGone
<1>7. RefreshProgress'
  <2>1. phase \notin {"idle", "flush"}
    BY <1>1 DEF IndInv, RefreshProgress, PhpRuns
  <2>2. QED
    BY <1>1, <2>1 DEF IndInv, RefreshProgress
<1>8. QED
  BY <1>4, <1>5, <1>6, <1>7 DEF IndInv

\* One callback of the list is called again, its old observations dropped.
LEMMA RefreshStep ==
  ASSUME IndInv, NEW id \in pending, Refresh(id), id \in callbacks
  PROVE  IndInv'
<1>1. /\ id \in Registrations /\ Registrations' = Registrations
      /\ targets[id] \in SUBSET Caches /\ id \in Nat
  BY DEF Refresh, Registrations, IndInv, TypeOK
<1>2. /\ phase = "refresh" /\ pending' = pending \ {id}
      /\ runs' = [runs EXCEPT ![id] = @ + 1]
      /\ entries' = entries \cup (targets[id] \X {id})
      /\ observed' = observed \ {o \in observed : o[1] \in targets[id] /\ o[2] = id}
      /\ observers' = observers \cup (targets[id] \X {id})
      /\ calls' = Append(calls, [id |-> id, by |-> "flush"])
      /\ ran' = ran \cup {id}
      /\ UNCHANGED <<targets, callbacks, tokens, phase, ids, requests, late>>
  BY DEF Refresh, Invoke, Cleared
<1>3. /\ runs' \in Seq(Nat) /\ Len(runs') = Len(runs)
      /\ \A k \in Registrations : k # id => runs'[k] = runs[k]
  BY <1>1, <1>2 DEF IndInv, TypeOK, Registrations
<1>4. CallTypes'
  BY <1>1, <1>2, PushCall DEF IndInv, TypeOK, CallTypes
<1>5. TypeOK'
  <2>1. /\ entries' \subseteq Caches \X Registrations
        /\ observers' \subseteq Caches \X Registrations
        /\ observed' \subseteq Caches \X Registrations \X Nat
    BY <1>1, <1>2 DEF IndInv, TypeOK
  <2>2. QED
    BY <1>1, <1>2, <1>3, <1>4, <2>1 DEF IndInv, TypeOK, CallTypes
<1>6. EntriesOwned'
  <2>1. SUFFICES ASSUME NEW c \in Caches, NEW k \in Registrations
                 PROVE  <<c, k>> \in entries' <=> \/ k \in callbacks /\ c \in targets[k]
                                                 \/ <<c, k>> \in late
    BY <1>1, <1>2 DEF EntriesOwned
  <2>2. <<c, k>> \in entries <=> \/ k \in callbacks /\ c \in targets[k]
                                 \/ <<c, k>> \in late
    BY DEF IndInv, EntriesOwned
  <2>3. QED
    BY <1>2, <2>2
<1>7. InTargets'
  <2>1. \A o \in targets[id] \X {id} : o[1] \in targets[o[2]]
    OBVIOUS
  <2>2. QED
    BY <1>2, <2>1 DEF IndInv, InTargets
<1>8. LateIsGone'
  BY <1>2 DEF IndInv, LateIsGone
<1>9. RefreshProgress'
  <2>1. callbacks' \subseteq ran' \cup pending'
    BY <1>2 DEF IndInv, RefreshProgress
  <2>2. ASSUME NEW o \in observed', o[2] \in callbacks' \cap ran'
        PROVE  o[3] = runs'[o[2]]
    <3>1. o \in observed /\ o[2] \in Registrations /\ o[1] \in targets[o[2]]
      BY <1>2, <2>2 DEF IndInv, TypeOK, InTargets
    <3>2. o[2] # id
      BY <1>2, <2>2, <3>1
    <3>3. QED
      BY <1>2, <1>3, <2>2, <3>1, <3>2 DEF IndInv, RefreshProgress
  <2>3. QED
    BY <1>2, <2>1, <2>2 DEF RefreshProgress
<1>10. QED
  BY <1>5, <1>6, <1>7, <1>8, <1>9 DEF IndInv

\* Steps that leave registrations and caches alone.
LEMMA FrameStep ==
  ASSUME IndInv, UNCHANGED <<targets, callbacks, runs, entries, observed, observers,
                             ids, late>>,
         CallTypes', tokens' \subseteq Registrations, requests' \in Nat,
         ran' \subseteq Registrations, pending' \subseteq pending,
         phase' \in {"idle", "running", "refresh", "flush"}, RefreshProgress'
  PROVE  IndInv'
<1>1. Registrations' = Registrations
  BY DEF Registrations
<1>2. TypeOK'
  BY <1>1 DEF IndInv, TypeOK, CallTypes
<1>3. EntriesOwned'
  BY <1>1 DEF IndInv, EntriesOwned
<1>4. InTargets' /\ LateIsGone'
  BY DEF IndInv, InTargets, LateIsGone
<1>5. QED
  BY <1>2, <1>3, <1>4 DEF IndInv

-----------------------------------------------------------------------------
\* Whatever callbacks do, and however they nest, IndInv is kept.
THEOREM Invariance == Spec => []IndInv
<1>1. Init => IndInv
  BY DEF Init, IndInv, TypeOK, EntriesOwned, InTargets, LateIsGone, RefreshProgress,
         Registrations
<1>2. IndInv /\ [Next]_vars => IndInv'
  <2>1. SUFFICES ASSUME IndInv, [Next]_vars PROVE IndInv'
    OBVIOUS
  <2>2. CallTypes /\ tokens \subseteq Registrations /\ requests \in Nat
        /\ ran \subseteq Registrations /\ pending \subseteq ids
        /\ callbacks \subseteq Registrations
        /\ phase \in {"idle", "running", "refresh", "flush"}
    BY <2>1 DEF IndInv, TypeOK, CallTypes
  <2>3. CASE UNCHANGED vars
    <3>1. CallTypes' /\ RefreshProgress'
      BY <2>1, <2>2, <2>3 DEF vars, registryVars, cacheVars, phpVars, flushVars,
         historyVars, CallTypes, Registrations, IndInv, RefreshProgress
    <3>2. QED
      BY <2>1, <2>2, <2>3, <3>1, FrameStep DEF vars, registryVars, cacheVars, phpVars,
         flushVars, historyVars
  <2>4. CASE RequestInit
    <3>1. CallTypes' /\ RefreshProgress'
      BY <2>2, <2>4 DEF RequestInit, registryVars, CallTypes, Registrations,
         RefreshProgress
    <3>2. QED
      BY <2>1, <2>2, <2>4, <3>1, FrameStep DEF RequestInit, registryVars, cacheVars,
         phpVars, historyVars
  <2>5. CASE \E caches \in SUBSET Caches \ {{}} : Register(caches)
    BY <2>1, <2>5, RegisterStep
  <2>6. CASE \E o \in observers : Observe(o[1], o[2])
    BY <2>1, <2>6, ObserveStep
  <2>7. ASSUME NEW id \in tokens, Detach(id) PROVE IndInv'
    <3>1. /\ DetachCallbacks({id}) /\ PhpRuns
          /\ UNCHANGED <<targets, runs, calls, observers, phase, ids, pending, requests,
                         ran, late>>
          /\ tokens' \subseteq tokens
      BY <2>7 DEF Detach, flushVars, historyVars
    <3>2. phase \in {"running", "refresh"}
      BY <2>1, <2>2, <3>1 DEF IndInv, RefreshProgress, PhpRuns
    <3>3. CallTypes'
      BY <2>2, <3>1 DEF CallTypes, Registrations
    <3>4. QED
      BY <2>1, <2>2, <3>1, <3>2, <3>3, DetachKeeps
  <2>8. ASSUME calls # <<>> PROVE phase \in {"running", "refresh"}
    BY <2>1, <2>2, <2>8 DEF IndInv, RefreshProgress
  <2>9. CASE CallbackReturns
    <3>1. /\ calls # <<>> /\ calls' = Pop /\ Registrations' = Registrations
          /\ UNCHANGED <<targets, callbacks, runs, entries, observed, observers, phase,
                         ids, pending, requests, ran, late>>
      BY <2>9 DEF CallbackReturns, registryVars, cacheVars, flushVars, historyVars,
         Registrations
    <3>2. CallTypes' /\ Top.id \in Registrations
      BY <2>2, <3>1, PopCall
    <3>3. tokens' \subseteq Registrations
      BY <2>2, <2>9, <3>2 DEF CallbackReturns
    <3>4. RefreshProgress'
      BY <2>1, <2>8, <3>1 DEF IndInv, RefreshProgress
    <3>5. QED
      BY <2>1, <2>2, <3>1, <3>2, <3>3, <3>4, FrameStep
  <2>10. CASE CallbackThrows
    <3>1. /\ calls # <<>> /\ calls' = Pop /\ Registrations' = Registrations
          /\ UNCHANGED <<targets, runs, observers, tokens, phase, ids, pending, requests,
                         ran, late>>
      BY <2>10 DEF CallbackThrows, PendingAfterError, phpVars, historyVars, Registrations
    <3>2. CallTypes'
      BY <2>2, <3>1, PopCall
    <3>3. CASE Top.by = "register"
      <4>1. DetachCallbacks({Top.id})
        BY <2>10, <3>3 DEF CallbackThrows
      <4>2. QED
        BY <2>1, <2>2, <2>8, <3>1, <3>2, <4>1, DetachKeeps
    <3>4. CASE Top.by # "register"
      <4>1. UNCHANGED <<callbacks, entries, observed>>
        BY <2>10, <3>4 DEF CallbackThrows
      <4>2. RefreshProgress'
        BY <2>1, <2>8, <3>1, <4>1 DEF IndInv, RefreshProgress
      <4>3. QED
        BY <2>1, <2>2, <3>1, <3>2, <4>1, <4>2, FrameStep
    <3>5. QED
      BY <3>3, <3>4
  <2>11. CASE ShutdownBegin
    <3>1. /\ Registrations' = Registrations /\ phase' = "refresh"
          /\ ids' = callbacks /\ pending' = callbacks /\ ran' = {}
          /\ UNCHANGED <<targets, callbacks, runs, entries, observed, calls, observers,
                         tokens, requests, late>>
      BY <2>11 DEF ShutdownBegin, registryVars, cacheVars, phpVars, Registrations
    <3>2. TypeOK'
      BY <2>1, <3>1 DEF IndInv, TypeOK
    <3>3. EntriesOwned' /\ InTargets' /\ LateIsGone'
      BY <2>1, <3>1 DEF IndInv, EntriesOwned, InTargets, LateIsGone
    <3>4. RefreshProgress'
      BY <3>1 DEF RefreshProgress
    <3>5. QED
      BY <3>2, <3>3, <3>4 DEF IndInv
  <2>12. ASSUME NEW id \in pending, Refresh(id) PROVE IndInv'
    <3>1. CASE id \in callbacks
      BY <2>1, <2>12, <3>1, RefreshStep
    <3>2. CASE id \notin callbacks
      <4>1. /\ UNCHANGED <<targets, callbacks, runs, entries, observed, observers, calls,
                           tokens, phase, ids, requests, ran, late>>
            /\ phase = "refresh" /\ pending' = pending \ {id}
        BY <2>12, <3>2 DEF Refresh, cacheVars
      <4>2. CallTypes' /\ RefreshProgress'
        BY <2>1, <2>2, <3>2, <4>1 DEF CallTypes, Registrations, IndInv, RefreshProgress
      <4>3. QED
        BY <2>1, <2>2, <4>1, <4>2, FrameStep
    <3>3. QED
      BY <3>1, <3>2
  <2>13. CASE Flush
    <3>1. /\ UNCHANGED <<targets, callbacks, runs, entries, observed, observers, calls,
                         tokens, ids, pending, requests, ran, late>>
          /\ phase = "refresh" /\ pending = {} /\ calls = <<>> /\ phase' = "flush"
      BY <2>13 DEF Flush, registryVars, cacheVars, phpVars, historyVars
    <3>2. CallTypes' /\ RefreshProgress'
      BY <2>1, <2>2, <3>1 DEF CallTypes, Registrations, IndInv, RefreshProgress
    <3>3. QED
      BY <2>1, <2>2, <3>1, <3>2, FrameStep
  <2>14. CASE Release
    <3>1. /\ DetachCallbacks(ids) /\ phase' = "idle" /\ ids' = {}
          /\ observers' = {} /\ tokens' = {}
          /\ UNCHANGED <<targets, runs, calls, pending, requests, ran, late>>
          /\ phase = "flush"
      BY <2>14 DEF Release, historyVars
    <3>2. calls' = <<>> /\ CallTypes'
      BY <2>1, <2>2, <3>1 DEF IndInv, RefreshProgress, CallTypes, Registrations
    <3>3. pending = {}
      BY <2>1, <3>1 DEF IndInv, RefreshProgress
    <3>4. QED
      BY <2>1, <2>2, <3>1, <3>2, <3>3, DetachKeeps
  <2>15. QED
    BY <2>1, <2>3, <2>4, <2>5, <2>6, <2>7, <2>9, <2>10, <2>11, <2>12, <2>13, <2>14
       DEF Next
<1>3. QED
  BY <1>1, <1>2, PTL DEF Spec

\* The caches hold vectors of registered callbacks only, in every instrument,
\* whatever callbacks register, detach and throw while they run.
THEOREM CachesFollowRegistry == Spec => []EntriesOwned
<1>1. IndInv => EntriesOwned
  BY DEF IndInv
<1>2. QED
  BY <1>1, Invariance, PTL

\* When RSHUTDOWN flushes, every registered callback has been called for it, whatever
\* callbacks throw, register or detach on the way.
THEOREM FinalFlushIsFresh == Spec => []RefreshedBeforeFlush
<1>1. IndInv => RefreshedBeforeFlush
  BY DEF IndInv, RefreshProgress, RefreshedBeforeFlush
<1>2. QED
  BY <1>1, Invariance, PTL

\* The flush at RSHUTDOWN exports what each callback observed when it was called
\* last, and nothing of an earlier run.
THEOREM FlushIsSound == Spec => []FlushSound
<1>1. IndInv => FlushSound
  BY DEF IndInv, RefreshProgress, FlushIsLatest, FlushSound
<1>2. QED
  BY <1>1, Invariance, PTL
=============================================================================
