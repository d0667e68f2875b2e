----------------------------- MODULE BatchProofs -----------------------------
(***************************************************************************)
(* Theorems about the batch processor, for every configuration, any number *)
(* of spans and calls, a panicking exporter and reordered accesses.        *)
(*                                                                         *)
(* IndInv is inductive: each lemma of the first part shows that every step *)
(* preserves one of its conjuncts, from the conjuncts it names.  FlowInv,  *)
(* in the second part, is inductive together with it.                      *)
(***************************************************************************)
EXTENDS BatchInvariants, TLAPS

\* The request thread never touches the worker's locals.
LEMMA RequestFrame ==
  ASSUME RequestCall \/ RequestStep
  PROVE  UNCHANGED workerVars
BY DEF RequestCall, RequestStep, OnStart, OnEndRefused, OnEndReserve, ForceFlushBegin, ShutdownBegin,
   SetResource, DropProcessor, SpanQueued, SpanRefusedFull,
   SpanRefusedDisconnected, NotifyExport, ForceFlushSend, ForceFlushReturn,
   ShutdownSend, ShutdownReply, ShutdownJoin, ShutdownTimeout,
   ShutdownLoadDepth, ShutdownLoadInFlight, ControlSend, requestVars

\* The worker touches neither the request thread's locals but reply, nor what
\* only the request thread counts.
LEMMA WorkerFrame ==
  ASSUME WorkerStep \/ WorkerPanic
  PROVE  UNCHANGED <<rpc, depth, calls, remaining, abort_export, shutdown_started,
                     senders_dropped, spanMetrics, reported>>
BY DEF WorkerStep, RecvMessage, RecvSetResource, RecvTimeout, RecvDisconnected,
   ClearExportPending, LoadTarget, CheckRound, TakeSpan, PushSpan, CloseBatch,
   NoBatch, StartAttempt, ExportAborted, ExportReturned, BatchExported,
   BatchSetAside, BatchFailed, RoundDone, ScheduleRetry, BackoffAborted,
   BackoffCutShort, BackoffElapsed, FinishExport, FinishForceFlush,
   FinishShutdown, WorkerExit, WorkerPanic, AbandonRound, requestVars, flagVars, historyVars

\* The request thread cannot disturb the shape of a round; the worker keeps it.
LEMMA RoundStep ==
  ASSUME TypeOK, RoundShape, [Next]_vars
  PROVE  RoundShape'
<1> USE ConfigAssumption DEF TypeOK, PlaceTypes, FlagTypes, CounterTypes,
      RoundShape, requestVars, roundVars, exportVars, workerVars, channelVars,
      flagVars, spanMetrics, exportMetrics, gaugeVars, historyVars
<1>1. CASE RequestCall \/ RequestStep
  BY <1>1, RequestFrame
<1>2. CASE RecvMessage
  BY <1>2 DEF RecvMessage, ArmOf
<1>3. CASE RecvSetResource
  BY <1>3 DEF RecvSetResource
<1>4. CASE RecvTimeout
  BY <1>4 DEF RecvTimeout
<1>5. CASE RecvDisconnected
  BY <1>5 DEF RecvDisconnected
<1>6. CASE ClearExportPending
  BY <1>6 DEF ClearExportPending
<1>7. CASE LoadTarget
  BY <1>7 DEF LoadTarget
<1>8. CASE CheckRound
  BY <1>8 DEF CheckRound, MoreRounds
<1>9. CASE TakeSpan
  BY <1>9 DEF TakeSpan
<1>10. CASE PushSpan
  BY <1>10 DEF PushSpan, ReleaseDepth
<1>11. CASE CloseBatch
  BY <1>11 DEF CloseBatch
<1>12. CASE NoBatch
  BY <1>12 DEF NoBatch
<1>13. CASE StartAttempt
  <2>1. may_retry_again' => attempt + 1 < MaxAttempts
    BY <1>13 DEF StartAttempt
  <2>2. QED
    BY <1>13, <2>1 DEF StartAttempt
<1>14. CASE ExportAborted
  BY <1>14 DEF ExportAborted, AbandonRound, LeaveRound
<1>15. CASE ExportReturned
  BY <1>15 DEF ExportReturned
<1>16. ASSUME NEW k \in 1 .. MaxExportBatchSize, BatchExported(k)
      PROVE  RoundShape'
  BY <1>16 DEF BatchExported, TakeResult
<1>17. ASSUME NEW k \in 1 .. MaxExportBatchSize, BatchSetAside(k)
      PROVE  RoundShape'
  BY <1>17 DEF BatchSetAside, TakeResult
<1>18. ASSUME NEW k \in 1 .. MaxExportBatchSize, BatchFailed(k)
      PROVE  RoundShape'
  BY <1>18 DEF BatchFailed, TakeResult
<1>19. CASE RoundDone
  BY <1>19 DEF RoundDone, FailSetAside, LeaveRound
<1>20. CASE ScheduleRetry
  BY <1>20 DEF ScheduleRetry
<1>21. CASE BackoffAborted
  BY <1>21 DEF BackoffAborted, AbandonRound, LeaveRound
<1>22. CASE BackoffCutShort
  BY <1>22 DEF BackoffCutShort
<1>23. CASE BackoffElapsed
  BY <1>23 DEF BackoffElapsed
<1>24. CASE FinishExport
  BY <1>24 DEF FinishExport
<1>25. CASE FinishForceFlush
  BY <1>25 DEF FinishForceFlush, SendReply
<1>26. CASE FinishShutdown
  BY <1>26 DEF FinishShutdown, SendReply
<1>27. CASE WorkerExit
  BY <1>27 DEF WorkerExit
<1>28. CASE WorkerPanic
  BY <1>28 DEF WorkerPanic
<1>29. CASE UNCHANGED vars
  BY <1>29 DEF vars
<1>30. QED
  BY <1>1, <1>2, <1>3, <1>4, <1>5, <1>6, <1>7, <1>8, <1>9, <1>10, <1>11,
     <1>12, <1>13, <1>14, <1>15, <1>16, <1>17, <1>18, <1>19, <1>20, <1>21,
     <1>22, <1>23, <1>24, <1>25, <1>26, <1>27, <1>28, <1>29
     DEF Next, RequestCall, RequestStep, WorkerStep

\* TypeOK is inductive relative to the shapes: they bound the batches and the
\* attempts, and DepthExact keeps queue_depth from wrapping below zero.
LEMMA TypeStep ==
  ASSUME TypeOK, RoundShape, CallShape, DepthExact, [Next]_vars
  PROVE  TypeOK'
<1> USE ConfigAssumption DEF TypeOK, PlaceTypes, FlagTypes, CounterTypes,
      RoundShape, CallShape, DepthExact, Here, WorkerGone, RequestStates,
      WorkerStates, requestVars, roundVars, exportVars, workerVars,
      channelVars, flagVars, spanMetrics, exportMetrics, gaugeVars,
      historyVars
<1>0. Timer \in Messages
  BY DEF Timer, Messages, Message, Kinds
<1>1. CASE OnStart
  BY <1>1 DEF OnStart, Callable
<1>2. CASE OnEndRefused
  BY <1>2 DEF OnEndRefused, Accepting, Callable
<1>3. CASE OnEndReserve
  BY <1>3 DEF OnEndReserve, Accepting, Callable
<1>4. CASE ForceFlushBegin
  BY <1>4 DEF ForceFlushBegin, Callable
<1>5. CASE ShutdownBegin
  BY <1>5 DEF ShutdownBegin, Callable
<1>6. CASE SetResource
  <2>1. PlaceTypes'
    <3>1. Message("SetResource", 0) \in Messages
      BY DEF Messages, Message, Kinds
    <3>2. control' \in Seq(Messages) /\ Len(control') <= ControlCapacity
      BY <1>6, <3>1 DEF SetResource, ControlAccepts
    <3>3. QED
      BY <1>6, <3>2 DEF SetResource, Callable
  <2>2. FlagTypes'
    BY <1>6 DEF SetResource, Callable, ControlAccepts
  <2>3. CounterTypes'
    BY <1>6 DEF SetResource, Callable, ControlAccepts
  <2>4. QED
    BY <2>1, <2>2, <2>3
<1>7. CASE DropProcessor
  BY <1>7 DEF DropProcessor, Callable
<1>8. CASE SpanQueued
  BY <1>8 DEF SpanQueued, MaxOf, MinOf
<1>9. CASE SpanRefusedFull
  BY <1>9 DEF SpanRefusedFull, ReleaseDepth
<1>10. CASE SpanRefusedDisconnected
  BY <1>10 DEF SpanRefusedDisconnected, ReleaseDepth
<1>11. CASE NotifyExport
  <2>1. PlaceTypes'
    <3>1. Message("Export", 0) \in Messages
      BY DEF Messages, Message, Kinds
    <3>2. control' \in Seq(Messages) /\ Len(control') <= ControlCapacity
      BY <1>11, <3>1 DEF NotifyExport, ControlAccepts
    <3>3. QED
      BY <1>11, <3>2 DEF NotifyExport
  <2>2. FlagTypes'
    BY <1>11 DEF NotifyExport, ControlAccepts
  <2>3. CounterTypes'
    BY <1>11 DEF NotifyExport, ControlAccepts
  <2>4. QED
    BY <2>1, <2>2, <2>3
<1>12. CASE ForceFlushSend
  <2>1. PlaceTypes'
    <3>1. Message("ForceFlush", calls) \in Messages
      BY DEF Messages, Message, Kinds
    <3>2. control' \in Seq(Messages) /\ Len(control') <= ControlCapacity
      BY <1>12, <3>1 DEF ForceFlushSend, ControlSend, ControlAccepts
    <3>3. QED
      BY <1>12, <3>2 DEF ForceFlushSend, ControlSend
  <2>2. FlagTypes'
    BY <1>12 DEF ForceFlushSend, ControlSend, ControlAccepts
  <2>3. CounterTypes'
    BY <1>12 DEF ForceFlushSend, ControlSend, ControlAccepts
  <2>4. QED
    BY <2>1, <2>2, <2>3
<1>13. CASE ForceFlushReturn
  BY <1>13 DEF ForceFlushReturn
<1>14. CASE ShutdownSend
  <2>1. PlaceTypes'
    <3>1. Message("Shutdown", calls) \in Messages
      BY DEF Messages, Message, Kinds
    <3>2. control' \in Seq(Messages) /\ Len(control') <= ControlCapacity
      BY <1>14, <3>1 DEF ShutdownSend, ControlSend, ControlAccepts
    <3>3. QED
      BY <1>14, <3>2 DEF ShutdownSend, ControlSend
  <2>2. FlagTypes'
    BY <1>14 DEF ShutdownSend, ControlSend, ControlAccepts
  <2>3. CounterTypes'
    BY <1>14 DEF ShutdownSend, ControlSend, ControlAccepts
  <2>4. QED
    BY <2>1, <2>2, <2>3
<1>15. CASE ShutdownReply
  BY <1>15 DEF ShutdownReply
<1>16. CASE ShutdownJoin
  BY <1>16 DEF ShutdownJoin
<1>17. CASE ShutdownTimeout
  BY <1>17 DEF ShutdownTimeout
<1>18. CASE ShutdownLoadDepth
  BY <1>18 DEF ShutdownLoadDepth
<1>19. CASE ShutdownLoadInFlight
  BY <1>19 DEF ShutdownLoadInFlight
<1>20. CASE RecvMessage
  <2>1. PlaceTypes'
    <3>1. Head(control) \in Messages /\ Tail(control) \in Seq(Messages)
      BY <1>20 DEF RecvMessage
    <3>2. Len(Tail(control)) <= ControlCapacity
      BY <1>20 DEF RecvMessage
    <3>3. QED
      BY <1>20, <3>1, <3>2 DEF RecvMessage, ArmOf
  <2>2. FlagTypes'
    BY <1>20 DEF RecvMessage, ArmOf
  <2>3. CounterTypes'
    BY <1>20 DEF RecvMessage, ArmOf
  <2>4. QED
    BY <2>1, <2>2, <2>3
<1>21. CASE RecvSetResource
  BY <1>21 DEF RecvSetResource
<1>22. CASE RecvTimeout
  BY <1>0, <1>22 DEF RecvTimeout
<1>23. CASE RecvDisconnected
  BY <1>23 DEF RecvDisconnected
<1>24. CASE ClearExportPending
  <2>1. PlaceTypes'
    BY <1>24 DEF ClearExportPending
  <2>2. FlagTypes'
    BY <1>24 DEF ClearExportPending
  <2>3. CounterTypes'
    BY <1>24 DEF ClearExportPending
  <2>4. QED
    BY <2>1, <2>2, <2>3
<1>25. CASE LoadTarget
  <2>1. PlaceTypes'
    BY <1>25 DEF LoadTarget
  <2>2. FlagTypes'
    BY <1>25 DEF LoadTarget
  <2>3. CounterTypes'
    BY <1>25 DEF LoadTarget
  <2>4. QED
    BY <2>1, <2>2, <2>3
<1>26. CASE CheckRound
  BY <1>26 DEF CheckRound, MoreRounds
<1>27. CASE TakeSpan
  BY <1>27 DEF TakeSpan
<1>28. CASE PushSpan
  BY <1>28 DEF PushSpan, ReleaseDepth
<1>29. CASE CloseBatch
  BY <1>29 DEF CloseBatch
<1>30. CASE NoBatch
  BY <1>30 DEF NoBatch
<1>31. CASE StartAttempt
  <2>1. PlaceTypes'
    BY <1>31 DEF StartAttempt, Retried, RetriesEnabled
  <2>2. FlagTypes'
    BY <1>31 DEF StartAttempt, Retried, RetriesEnabled
  <2>3. CounterTypes'
    BY <1>31 DEF StartAttempt, Retried, RetriesEnabled
  <2>4. QED
    BY <2>1, <2>2, <2>3
<1>32. CASE ExportAborted
  <2>1. PlaceTypes'
    BY <1>32 DEF ExportAborted, AbandonRound, LeaveRound
  <2>2. FlagTypes'
    BY <1>32 DEF ExportAborted, AbandonRound, LeaveRound
  <2>3. CounterTypes'
    BY <1>32 DEF ExportAborted, AbandonRound, LeaveRound
  <2>4. QED
    BY <2>1, <2>2, <2>3
<1>33. CASE ExportReturned
  BY <1>33 DEF ExportReturned
<1>34. ASSUME NEW k \in 1 .. MaxExportBatchSize, BatchExported(k)
      PROVE  TypeOK'
  BY <1>34 DEF BatchExported, TakeResult
<1>35. ASSUME NEW k \in 1 .. MaxExportBatchSize, BatchSetAside(k)
      PROVE  TypeOK'
  BY <1>35 DEF BatchSetAside, TakeResult
<1>36. ASSUME NEW k \in 1 .. MaxExportBatchSize, BatchFailed(k)
      PROVE  TypeOK'
  BY <1>36 DEF BatchFailed, TakeResult
<1>37. CASE RoundDone
  <2>1. PlaceTypes'
    BY <1>37 DEF RoundDone, FailSetAside, LeaveRound
  <2>2. FlagTypes'
    BY <1>37 DEF RoundDone, FailSetAside, LeaveRound
  <2>3. CounterTypes'
    BY <1>37 DEF RoundDone, FailSetAside, LeaveRound
  <2>4. QED
    BY <2>1, <2>2, <2>3
<1>38. CASE ScheduleRetry
  BY <1>38 DEF ScheduleRetry
<1>39. CASE BackoffAborted
  <2>1. PlaceTypes'
    BY <1>39 DEF BackoffAborted, AbandonRound, LeaveRound
  <2>2. FlagTypes'
    BY <1>39 DEF BackoffAborted, AbandonRound, LeaveRound
  <2>3. CounterTypes'
    BY <1>39 DEF BackoffAborted, AbandonRound, LeaveRound
  <2>4. QED
    BY <2>1, <2>2, <2>3
<1>40. CASE BackoffCutShort
  BY <1>40 DEF BackoffCutShort
<1>41. CASE BackoffElapsed
  <2>1. PlaceTypes'
    BY <1>41 DEF BackoffElapsed
  <2>2. FlagTypes'
    BY <1>41 DEF BackoffElapsed
  <2>3. CounterTypes'
    BY <1>41 DEF BackoffElapsed
  <2>4. QED
    BY <2>1, <2>2, <2>3
<1>42. CASE FinishExport
  <2>1. PlaceTypes'
    BY <1>0, <1>42 DEF FinishExport
  <2>2. FlagTypes'
    BY <1>42 DEF FinishExport
  <2>3. CounterTypes'
    BY <1>42 DEF FinishExport
  <2>4. QED
    BY <2>1, <2>2, <2>3
<1>43. CASE FinishForceFlush
  <2>1. PlaceTypes'
    BY <1>0, <1>43 DEF FinishForceFlush, SendReply
  <2>2. FlagTypes'
    BY <1>43 DEF FinishForceFlush, SendReply
  <2>3. CounterTypes'
    BY <1>43 DEF FinishForceFlush, SendReply
  <2>4. QED
    BY <2>1, <2>2, <2>3
<1>44. CASE FinishShutdown
  <2>1. PlaceTypes'
    BY <1>0, <1>44 DEF FinishShutdown, SendReply
  <2>2. FlagTypes'
    BY <1>44 DEF FinishShutdown, SendReply
  <2>3. CounterTypes'
    BY <1>44 DEF FinishShutdown, SendReply
  <2>4. QED
    BY <2>1, <2>2, <2>3
<1>45. CASE WorkerExit
  BY <1>45 DEF WorkerExit
<1>46. CASE WorkerPanic
  BY <1>46 DEF WorkerPanic
<1>47. CASE UNCHANGED vars
  BY <1>47 DEF vars
<1>48. QED
  BY <1>1, <1>2, <1>3, <1>4, <1>5, <1>6, <1>7, <1>8, <1>9, <1>10, <1>11,
     <1>12, <1>13, <1>14, <1>15, <1>16, <1>17, <1>18, <1>19, <1>20, <1>21,
     <1>22, <1>23, <1>24, <1>25, <1>26, <1>27, <1>28, <1>29, <1>30, <1>31,
     <1>32, <1>33, <1>34, <1>35, <1>36, <1>37, <1>38, <1>39, <1>40, <1>41,
     <1>42, <1>43, <1>44, <1>45, <1>46, <1>47
     DEF Next, RequestCall, RequestStep, WorkerStep

\* CallShape is preserved.
LEMMA CallStep ==
  ASSUME TypeOK, CallShape, DepthExact, [Next]_vars
  PROVE  CallShape'
<1> USE ConfigAssumption DEF TypeOK, PlaceTypes, FlagTypes, CounterTypes,
      CallShape, DepthExact, Here, WorkerGone, requestVars, roundVars,
      exportVars, workerVars, channelVars, flagVars, spanMetrics,
      exportMetrics, gaugeVars, historyVars
<1>1. CASE OnStart
  BY <1>1 DEF OnStart, Callable
<1>2. CASE OnEndRefused
  BY <1>2 DEF OnEndRefused, Accepting, Callable
<1>3. CASE OnEndReserve
  BY <1>3 DEF OnEndReserve, Accepting, Callable
<1>4. CASE ForceFlushBegin
  BY <1>4 DEF ForceFlushBegin, Callable
<1>5. CASE ShutdownBegin
  BY <1>5 DEF ShutdownBegin, Callable
<1>6. CASE SetResource
  BY <1>6 DEF SetResource, Callable, ControlAccepts
<1>7. CASE DropProcessor
  BY <1>7 DEF DropProcessor, Callable
<1>8. CASE SpanQueued
  BY <1>8 DEF SpanQueued, MaxOf, MinOf
<1>9. CASE SpanRefusedFull
  BY <1>9 DEF SpanRefusedFull, ReleaseDepth
<1>10. CASE SpanRefusedDisconnected
  BY <1>10 DEF SpanRefusedDisconnected, ReleaseDepth
<1>11. CASE NotifyExport
  BY <1>11 DEF NotifyExport, ControlAccepts
<1>12. CASE ForceFlushSend
  BY <1>12 DEF ForceFlushSend, ControlSend, ControlAccepts
<1>13. CASE ForceFlushReturn
  BY <1>13 DEF ForceFlushReturn
<1>14. CASE ShutdownSend
  BY <1>14 DEF ShutdownSend, ControlSend, ControlAccepts
<1>15. CASE ShutdownReply
  BY <1>15 DEF ShutdownReply
<1>16. CASE ShutdownJoin
  BY <1>16 DEF ShutdownJoin
<1>17. CASE ShutdownTimeout
  BY <1>17 DEF ShutdownTimeout
<1>18. CASE ShutdownLoadDepth
  BY <1>18 DEF ShutdownLoadDepth
<1>19. CASE ShutdownLoadInFlight
  BY <1>19 DEF ShutdownLoadInFlight
<1>20. CASE RecvMessage
  BY <1>20 DEF RecvMessage, ArmOf
<1>21. CASE RecvSetResource
  BY <1>21 DEF RecvSetResource
<1>22. CASE RecvTimeout
  BY <1>22 DEF RecvTimeout
<1>23. CASE RecvDisconnected
  BY <1>23 DEF RecvDisconnected
<1>24. CASE ClearExportPending
  BY <1>24 DEF ClearExportPending
<1>25. CASE LoadTarget
  BY <1>25 DEF LoadTarget
<1>26. CASE CheckRound
  BY <1>26 DEF CheckRound, MoreRounds
<1>27. CASE TakeSpan
  BY <1>27 DEF TakeSpan
<1>28. CASE PushSpan
  BY <1>28 DEF PushSpan, ReleaseDepth
<1>29. CASE CloseBatch
  BY <1>29 DEF CloseBatch
<1>30. CASE NoBatch
  BY <1>30 DEF NoBatch
<1>31. CASE StartAttempt
  BY <1>31 DEF StartAttempt, Retried, RetriesEnabled
<1>32. CASE ExportAborted
  BY <1>32 DEF ExportAborted, AbandonRound, LeaveRound
<1>33. CASE ExportReturned
  BY <1>33 DEF ExportReturned
<1>34. ASSUME NEW k \in 1 .. MaxExportBatchSize, BatchExported(k)
      PROVE  CallShape'
  BY <1>34 DEF BatchExported, TakeResult
<1>35. ASSUME NEW k \in 1 .. MaxExportBatchSize, BatchSetAside(k)
      PROVE  CallShape'
  BY <1>35 DEF BatchSetAside, TakeResult
<1>36. ASSUME NEW k \in 1 .. MaxExportBatchSize, BatchFailed(k)
      PROVE  CallShape'
  BY <1>36 DEF BatchFailed, TakeResult
<1>37. CASE RoundDone
  BY <1>37 DEF RoundDone, FailSetAside, LeaveRound
<1>38. CASE ScheduleRetry
  BY <1>38 DEF ScheduleRetry
<1>39. CASE BackoffAborted
  BY <1>39 DEF BackoffAborted, AbandonRound, LeaveRound
<1>40. CASE BackoffCutShort
  BY <1>40 DEF BackoffCutShort
<1>41. CASE BackoffElapsed
  BY <1>41 DEF BackoffElapsed
<1>42. CASE FinishExport
  BY <1>42 DEF FinishExport
<1>43. CASE FinishForceFlush
  BY <1>43 DEF FinishForceFlush, SendReply
<1>44. CASE FinishShutdown
  BY <1>44 DEF FinishShutdown, SendReply
<1>45. CASE WorkerExit
  BY <1>45 DEF WorkerExit
<1>46. CASE WorkerPanic
  BY <1>46 DEF WorkerPanic
<1>47. CASE UNCHANGED vars
  BY <1>47 DEF vars
<1>48. QED
  BY <1>1, <1>2, <1>3, <1>4, <1>5, <1>6, <1>7, <1>8, <1>9, <1>10, <1>11,
     <1>12, <1>13, <1>14, <1>15, <1>16, <1>17, <1>18, <1>19, <1>20, <1>21,
     <1>22, <1>23, <1>24, <1>25, <1>26, <1>27, <1>28, <1>29, <1>30, <1>31,
     <1>32, <1>33, <1>34, <1>35, <1>36, <1>37, <1>38, <1>39, <1>40, <1>41,
     <1>42, <1>43, <1>44, <1>45, <1>46, <1>47
     DEF Next, RequestCall, RequestStep, WorkerStep

\* DepthExact is preserved: only ever one on_end is between its reservation and
\* its send, and discard_remaining runs when none is.
LEMMA DepthStep ==
  ASSUME TypeOK, CallShape, ControlShape, DepthExact, [Next]_vars
  PROVE  DepthExact'
<1> USE ConfigAssumption DEF TypeOK, PlaceTypes, FlagTypes, CounterTypes,
      CallShape, ControlShape, DepthExact, Here, WorkerGone, requestVars,
      roundVars, exportVars, workerVars, channelVars, flagVars, spanMetrics,
      exportMetrics, gaugeVars, historyVars
<1>1. CASE OnStart
  BY <1>1 DEF OnStart, Callable
<1>2. CASE OnEndRefused
  BY <1>2 DEF OnEndRefused, Accepting, Callable
<1>3. CASE OnEndReserve
  BY <1>3 DEF OnEndReserve, Accepting, Callable
<1>4. CASE ForceFlushBegin
  BY <1>4 DEF ForceFlushBegin, Callable
<1>5. CASE ShutdownBegin
  BY <1>5 DEF ShutdownBegin, Callable
<1>6. CASE SetResource
  BY <1>6 DEF SetResource, Callable, ControlAccepts
<1>7. CASE DropProcessor
  BY <1>7 DEF DropProcessor, Callable
<1>8. CASE SpanQueued
  BY <1>8 DEF SpanQueued, MaxOf, MinOf
<1>9. CASE SpanRefusedFull
  BY <1>9 DEF SpanRefusedFull, ReleaseDepth
<1>10. CASE SpanRefusedDisconnected
  BY <1>10 DEF SpanRefusedDisconnected, ReleaseDepth
<1>11. CASE NotifyExport
  BY <1>11 DEF NotifyExport, ControlAccepts
<1>12. CASE ForceFlushSend
  BY <1>12 DEF ForceFlushSend, ControlSend, ControlAccepts
<1>13. CASE ForceFlushReturn
  BY <1>13 DEF ForceFlushReturn
<1>14. CASE ShutdownSend
  BY <1>14 DEF ShutdownSend, ControlSend, ControlAccepts
<1>15. CASE ShutdownReply
  BY <1>15 DEF ShutdownReply
<1>16. CASE ShutdownJoin
  BY <1>16 DEF ShutdownJoin
<1>17. CASE ShutdownTimeout
  BY <1>17 DEF ShutdownTimeout
<1>18. CASE ShutdownLoadDepth
  BY <1>18 DEF ShutdownLoadDepth
<1>19. CASE ShutdownLoadInFlight
  BY <1>19 DEF ShutdownLoadInFlight
<1>20. CASE RecvMessage
  BY <1>20 DEF RecvMessage, ArmOf
<1>21. CASE RecvSetResource
  BY <1>21 DEF RecvSetResource
<1>22. CASE RecvTimeout
  BY <1>22 DEF RecvTimeout
<1>23. CASE RecvDisconnected
  BY <1>23 DEF RecvDisconnected
<1>24. CASE ClearExportPending
  BY <1>24 DEF ClearExportPending
<1>25. CASE LoadTarget
  BY <1>25 DEF LoadTarget
<1>26. CASE CheckRound
  BY <1>26 DEF CheckRound, MoreRounds
<1>27. CASE TakeSpan
  BY <1>27 DEF TakeSpan
<1>28. CASE PushSpan
  BY <1>28 DEF PushSpan, ReleaseDepth
<1>29. CASE CloseBatch
  BY <1>29 DEF CloseBatch
<1>30. CASE NoBatch
  BY <1>30 DEF NoBatch
<1>31. CASE StartAttempt
  BY <1>31 DEF StartAttempt, Retried, RetriesEnabled
<1>32. CASE ExportAborted
  BY <1>32 DEF ExportAborted, AbandonRound, LeaveRound
<1>33. CASE ExportReturned
  BY <1>33 DEF ExportReturned
<1>34. ASSUME NEW k \in 1 .. MaxExportBatchSize, BatchExported(k)
      PROVE  DepthExact'
  BY <1>34 DEF BatchExported, TakeResult
<1>35. ASSUME NEW k \in 1 .. MaxExportBatchSize, BatchSetAside(k)
      PROVE  DepthExact'
  BY <1>35 DEF BatchSetAside, TakeResult
<1>36. ASSUME NEW k \in 1 .. MaxExportBatchSize, BatchFailed(k)
      PROVE  DepthExact'
  BY <1>36 DEF BatchFailed, TakeResult
<1>37. CASE RoundDone
  BY <1>37 DEF RoundDone, FailSetAside, LeaveRound
<1>38. CASE ScheduleRetry
  BY <1>38 DEF ScheduleRetry
<1>39. CASE BackoffAborted
  BY <1>39 DEF BackoffAborted, AbandonRound, LeaveRound
<1>40. CASE BackoffCutShort
  BY <1>40 DEF BackoffCutShort
<1>41. CASE BackoffElapsed
  BY <1>41 DEF BackoffElapsed
<1>42. CASE FinishExport
  BY <1>42 DEF FinishExport
<1>43. CASE FinishForceFlush
  BY <1>43 DEF FinishForceFlush, SendReply
<1>44. CASE FinishShutdown
  BY <1>44 DEF FinishShutdown, SendReply
<1>45. CASE WorkerExit
  BY <1>45 DEF WorkerExit
<1>46. CASE WorkerPanic
  BY <1>46 DEF WorkerPanic
<1>47. CASE UNCHANGED vars
  BY <1>47 DEF vars
<1>48. QED
  BY <1>1, <1>2, <1>3, <1>4, <1>5, <1>6, <1>7, <1>8, <1>9, <1>10, <1>11,
     <1>12, <1>13, <1>14, <1>15, <1>16, <1>17, <1>18, <1>19, <1>20, <1>21,
     <1>22, <1>23, <1>24, <1>25, <1>26, <1>27, <1>28, <1>29, <1>30, <1>31,
     <1>32, <1>33, <1>34, <1>35, <1>36, <1>37, <1>38, <1>39, <1>40, <1>41,
     <1>42, <1>43, <1>44, <1>45, <1>46, <1>47
     DEF Next, RequestCall, RequestStep, WorkerStep

\* ControlShape is preserved.
LEMMA ControlStep ==
  ASSUME TypeOK, CallShape, ControlShape, [Next]_vars
  PROVE  ControlShape'
<1> USE ConfigAssumption DEF TypeOK, PlaceTypes, FlagTypes, CounterTypes,
      CallShape, ControlShape, Message, Timer, WorkerGone, requestVars,
      roundVars, exportVars, workerVars, channelVars, flagVars, spanMetrics,
      exportMetrics, gaugeVars, historyVars
<1>1. CASE OnStart
  BY <1>1 DEF OnStart, Callable
<1>2. CASE OnEndRefused
  BY <1>2 DEF OnEndRefused, Accepting, Callable
<1>3. CASE OnEndReserve
  BY <1>3 DEF OnEndReserve, Accepting, Callable
<1>4. CASE ForceFlushBegin
  BY <1>4 DEF ForceFlushBegin, Callable
<1>5. CASE ShutdownBegin
  BY <1>5 DEF ShutdownBegin, Callable
<1>6. CASE SetResource
  BY <1>6 DEF SetResource, Callable, ControlAccepts
<1>7. CASE DropProcessor
  BY <1>7 DEF DropProcessor, Callable
<1>8. CASE SpanQueued
  BY <1>8 DEF SpanQueued, MaxOf, MinOf
<1>9. CASE SpanRefusedFull
  BY <1>9 DEF SpanRefusedFull, ReleaseDepth
<1>10. CASE SpanRefusedDisconnected
  BY <1>10 DEF SpanRefusedDisconnected, ReleaseDepth
<1>11. CASE NotifyExport
  BY <1>11 DEF NotifyExport, ControlAccepts
<1>12. CASE ForceFlushSend
  <2>1. CASE control' = control
    BY <1>12, <2>1 DEF ForceFlushSend, ControlSend
  <2>2. CASE control' = Append(control, Message("ForceFlush", calls)) /\ Len(control) < ControlCapacity
    BY <1>12, <2>2 DEF ForceFlushSend, ControlSend
  <2>3. QED
    BY <1>12, <2>1, <2>2 DEF ForceFlushSend, ControlSend, ControlAccepts
<1>13. CASE ForceFlushReturn
  BY <1>13 DEF ForceFlushReturn
<1>14. CASE ShutdownSend
  <2>1. CASE control' = control
    BY <1>14, <2>1 DEF ShutdownSend, ControlSend
  <2>2. CASE control' = Append(control, Message("Shutdown", calls)) /\ Len(control) < ControlCapacity
    BY <1>14, <2>2 DEF ShutdownSend, ControlSend
  <2>3. QED
    BY <1>14, <2>1, <2>2 DEF ShutdownSend, ControlSend, ControlAccepts
<1>15. CASE ShutdownReply
  BY <1>15 DEF ShutdownReply
<1>16. CASE ShutdownJoin
  BY <1>16 DEF ShutdownJoin
<1>17. CASE ShutdownTimeout
  BY <1>17 DEF ShutdownTimeout
<1>18. CASE ShutdownLoadDepth
  BY <1>18 DEF ShutdownLoadDepth
<1>19. CASE ShutdownLoadInFlight
  BY <1>19 DEF ShutdownLoadInFlight
<1>20. CASE RecvMessage
  BY <1>20 DEF RecvMessage, ArmOf
<1>21. CASE RecvSetResource
  BY <1>21 DEF RecvSetResource
<1>22. CASE RecvTimeout
  BY <1>22 DEF RecvTimeout
<1>23. CASE RecvDisconnected
  BY <1>23 DEF RecvDisconnected
<1>24. CASE ClearExportPending
  BY <1>24 DEF ClearExportPending
<1>25. CASE LoadTarget
  BY <1>25 DEF LoadTarget
<1>26. CASE CheckRound
  BY <1>26 DEF CheckRound, MoreRounds
<1>27. CASE TakeSpan
  BY <1>27 DEF TakeSpan
<1>28. CASE PushSpan
  BY <1>28 DEF PushSpan, ReleaseDepth
<1>29. CASE CloseBatch
  BY <1>29 DEF CloseBatch
<1>30. CASE NoBatch
  BY <1>30 DEF NoBatch
<1>31. CASE StartAttempt
  BY <1>31 DEF StartAttempt, Retried, RetriesEnabled
<1>32. CASE ExportAborted
  BY <1>32 DEF ExportAborted, AbandonRound, LeaveRound
<1>33. CASE ExportReturned
  BY <1>33 DEF ExportReturned
<1>34. ASSUME NEW k \in 1 .. MaxExportBatchSize, BatchExported(k)
      PROVE  ControlShape'
  BY <1>34 DEF BatchExported, TakeResult
<1>35. ASSUME NEW k \in 1 .. MaxExportBatchSize, BatchSetAside(k)
      PROVE  ControlShape'
  BY <1>35 DEF BatchSetAside, TakeResult
<1>36. ASSUME NEW k \in 1 .. MaxExportBatchSize, BatchFailed(k)
      PROVE  ControlShape'
  BY <1>36 DEF BatchFailed, TakeResult
<1>37. CASE RoundDone
  BY <1>37 DEF RoundDone, FailSetAside, LeaveRound
<1>38. CASE ScheduleRetry
  BY <1>38 DEF ScheduleRetry
<1>39. CASE BackoffAborted
  BY <1>39 DEF BackoffAborted, AbandonRound, LeaveRound
<1>40. CASE BackoffCutShort
  BY <1>40 DEF BackoffCutShort
<1>41. CASE BackoffElapsed
  BY <1>41 DEF BackoffElapsed
<1>42. CASE FinishExport
  BY <1>42 DEF FinishExport
<1>43. CASE FinishForceFlush
  BY <1>43 DEF FinishForceFlush, SendReply
<1>44. CASE FinishShutdown
  BY <1>44 DEF FinishShutdown, SendReply
<1>45. CASE WorkerExit
  BY <1>45 DEF WorkerExit
<1>46. CASE WorkerPanic
  BY <1>46 DEF WorkerPanic
<1>47. CASE UNCHANGED vars
  BY <1>47 DEF vars
<1>48. QED
  BY <1>1, <1>2, <1>3, <1>4, <1>5, <1>6, <1>7, <1>8, <1>9, <1>10, <1>11,
     <1>12, <1>13, <1>14, <1>15, <1>16, <1>17, <1>18, <1>19, <1>20, <1>21,
     <1>22, <1>23, <1>24, <1>25, <1>26, <1>27, <1>28, <1>29, <1>30, <1>31,
     <1>32, <1>33, <1>34, <1>35, <1>36, <1>37, <1>38, <1>39, <1>40, <1>41,
     <1>42, <1>43, <1>44, <1>45, <1>46, <1>47
     DEF Next, RequestCall, RequestStep, WorkerStep

\* Ledger is preserved: a step moves spans from one term to another.
LEMMA LedgerStep ==
  ASSUME TypeOK, RoundShape, CallShape, Ledger, [Next]_vars
  PROVE  Ledger'
<1> USE ConfigAssumption DEF TypeOK, PlaceTypes, FlagTypes, CounterTypes,
      RoundShape, CallShape, Ledger, EndedBalance, QueuedBalance, InHand,
      Here, WorkerGone, requestVars, roundVars, exportVars, workerVars,
      channelVars, flagVars, spanMetrics, exportMetrics, gaugeVars,
      historyVars
<1>1. CASE OnStart
  BY <1>1 DEF OnStart, Callable
<1>2. CASE OnEndRefused
  BY <1>2 DEF OnEndRefused, Accepting, Callable
<1>3. CASE OnEndReserve
  BY <1>3 DEF OnEndReserve, Accepting, Callable
<1>4. CASE ForceFlushBegin
  BY <1>4 DEF ForceFlushBegin, Callable
<1>5. CASE ShutdownBegin
  BY <1>5 DEF ShutdownBegin, Callable
<1>6. CASE SetResource
  BY <1>6 DEF SetResource, Callable, ControlAccepts
<1>7. CASE DropProcessor
  BY <1>7 DEF DropProcessor, Callable
<1>8. CASE SpanQueued
  BY <1>8 DEF SpanQueued, MaxOf, MinOf
<1>9. CASE SpanRefusedFull
  BY <1>9 DEF SpanRefusedFull, ReleaseDepth
<1>10. CASE SpanRefusedDisconnected
  BY <1>10 DEF SpanRefusedDisconnected, ReleaseDepth
<1>11. CASE NotifyExport
  BY <1>11 DEF NotifyExport, ControlAccepts
<1>12. CASE ForceFlushSend
  BY <1>12 DEF ForceFlushSend, ControlSend, ControlAccepts
<1>13. CASE ForceFlushReturn
  BY <1>13 DEF ForceFlushReturn
<1>14. CASE ShutdownSend
  BY <1>14 DEF ShutdownSend, ControlSend, ControlAccepts
<1>15. CASE ShutdownReply
  BY <1>15 DEF ShutdownReply
<1>16. CASE ShutdownJoin
  BY <1>16 DEF ShutdownJoin
<1>17. CASE ShutdownTimeout
  BY <1>17 DEF ShutdownTimeout
<1>18. CASE ShutdownLoadDepth
  BY <1>18 DEF ShutdownLoadDepth
<1>19. CASE ShutdownLoadInFlight
  BY <1>19 DEF ShutdownLoadInFlight
<1>20. CASE RecvMessage
  BY <1>20 DEF RecvMessage, ArmOf
<1>21. CASE RecvSetResource
  BY <1>21 DEF RecvSetResource
<1>22. CASE RecvTimeout
  BY <1>22 DEF RecvTimeout
<1>23. CASE RecvDisconnected
  BY <1>23 DEF RecvDisconnected
<1>24. CASE ClearExportPending
  BY <1>24 DEF ClearExportPending
<1>25. CASE LoadTarget
  BY <1>25 DEF LoadTarget
<1>26. CASE CheckRound
  BY <1>26 DEF CheckRound, MoreRounds
<1>27. CASE TakeSpan
  BY <1>27 DEF TakeSpan
<1>28. CASE PushSpan
  BY <1>28 DEF PushSpan, ReleaseDepth
<1>29. CASE CloseBatch
  BY <1>29 DEF CloseBatch
<1>30. CASE NoBatch
  BY <1>30 DEF NoBatch
<1>31. CASE StartAttempt
  BY <1>31 DEF StartAttempt, Retried, RetriesEnabled
<1>32. CASE ExportAborted
  BY <1>32 DEF ExportAborted, AbandonRound, LeaveRound
<1>33. CASE ExportReturned
  BY <1>33 DEF ExportReturned
<1>34. ASSUME NEW k \in 1 .. MaxExportBatchSize, BatchExported(k)
      PROVE  Ledger'
  BY <1>34 DEF BatchExported, TakeResult
<1>35. ASSUME NEW k \in 1 .. MaxExportBatchSize, BatchSetAside(k)
      PROVE  Ledger'
  BY <1>35 DEF BatchSetAside, TakeResult
<1>36. ASSUME NEW k \in 1 .. MaxExportBatchSize, BatchFailed(k)
      PROVE  Ledger'
  BY <1>36 DEF BatchFailed, TakeResult
<1>37. CASE RoundDone
  BY <1>37 DEF RoundDone, FailSetAside, LeaveRound
<1>38. CASE ScheduleRetry
  BY <1>38 DEF ScheduleRetry
<1>39. CASE BackoffAborted
  BY <1>39 DEF BackoffAborted, AbandonRound, LeaveRound
<1>40. CASE BackoffCutShort
  BY <1>40 DEF BackoffCutShort
<1>41. CASE BackoffElapsed
  BY <1>41 DEF BackoffElapsed
<1>42. CASE FinishExport
  BY <1>42 DEF FinishExport
<1>43. CASE FinishForceFlush
  BY <1>43 DEF FinishForceFlush, SendReply
<1>44. CASE FinishShutdown
  BY <1>44 DEF FinishShutdown, SendReply
<1>45. CASE WorkerExit
  BY <1>45 DEF WorkerExit
<1>46. CASE WorkerPanic
  BY <1>46 DEF WorkerPanic
<1>47. CASE UNCHANGED vars
  BY <1>47 DEF vars
<1>48. QED
  BY <1>1, <1>2, <1>3, <1>4, <1>5, <1>6, <1>7, <1>8, <1>9, <1>10, <1>11,
     <1>12, <1>13, <1>14, <1>15, <1>16, <1>17, <1>18, <1>19, <1>20, <1>21,
     <1>22, <1>23, <1>24, <1>25, <1>26, <1>27, <1>28, <1>29, <1>30, <1>31,
     <1>32, <1>33, <1>34, <1>35, <1>36, <1>37, <1>38, <1>39, <1>40, <1>41,
     <1>42, <1>43, <1>44, <1>45, <1>46, <1>47
     DEF Next, RequestCall, RequestStep, WorkerStep

\* DrainShape is preserved: after the Shutdown call on_end adds nothing, so a
\* target loaded from then on covers the queue.
LEMMA DrainStep ==
  ASSUME TypeOK, RoundShape, CallShape, DepthExact, ControlShape, DrainShape, [Next]_vars
  PROVE  DrainShape'
<1> USE ConfigAssumption DEF TypeOK, PlaceTypes, FlagTypes, CounterTypes,
      RoundShape, CallShape, DepthExact, ControlShape, DrainShape, Covered,
      ToServe, Working, Here, WorkerGone, Message, Timer, requestVars,
      roundVars, exportVars, workerVars, channelVars, flagVars, spanMetrics,
      exportMetrics, gaugeVars, historyVars
<1>1. CASE OnStart
  BY <1>1 DEF OnStart, Callable
<1>2. CASE OnEndRefused
  BY <1>2 DEF OnEndRefused, Accepting, Callable
<1>3. CASE OnEndReserve
  BY <1>3 DEF OnEndReserve, Accepting, Callable
<1>4. CASE ForceFlushBegin
  BY <1>4 DEF ForceFlushBegin, Callable
<1>5. CASE ShutdownBegin
  BY <1>5 DEF ShutdownBegin, Callable
<1>6. CASE SetResource
  BY <1>6 DEF SetResource, Callable, ControlAccepts
<1>7. CASE DropProcessor
  BY <1>7 DEF DropProcessor, Callable
<1>8. CASE SpanQueued
  BY <1>8 DEF SpanQueued, MaxOf, MinOf
<1>9. CASE SpanRefusedFull
  BY <1>9 DEF SpanRefusedFull, ReleaseDepth
<1>10. CASE SpanRefusedDisconnected
  BY <1>10 DEF SpanRefusedDisconnected, ReleaseDepth
<1>11. CASE NotifyExport
  BY <1>11 DEF NotifyExport, ControlAccepts
<1>12. CASE ForceFlushSend
  BY <1>12 DEF ForceFlushSend, ControlSend, ControlAccepts
<1>13. CASE ForceFlushReturn
  BY <1>13 DEF ForceFlushReturn
<1>14. CASE ShutdownSend
  BY <1>14 DEF ShutdownSend, ControlSend, ControlAccepts
<1>15. CASE ShutdownReply
  BY <1>15 DEF ShutdownReply
<1>16. CASE ShutdownJoin
  BY <1>16 DEF ShutdownJoin
<1>17. CASE ShutdownTimeout
  BY <1>17 DEF ShutdownTimeout
<1>18. CASE ShutdownLoadDepth
  BY <1>18 DEF ShutdownLoadDepth
<1>19. CASE ShutdownLoadInFlight
  BY <1>19 DEF ShutdownLoadInFlight
<1>20. CASE RecvMessage
  BY <1>20 DEF RecvMessage, ArmOf
<1>21. CASE RecvSetResource
  BY <1>21, SMTT(30) DEF RecvSetResource
<1>22. CASE RecvTimeout
  BY <1>22 DEF RecvTimeout
<1>23. CASE RecvDisconnected
  BY <1>23 DEF RecvDisconnected
<1>24. CASE ClearExportPending
  BY <1>24 DEF ClearExportPending
<1>25. CASE LoadTarget
  BY <1>25 DEF LoadTarget
<1>26. CASE CheckRound
  BY <1>26 DEF CheckRound, MoreRounds
<1>27. CASE TakeSpan
  BY <1>27 DEF TakeSpan
<1>28. CASE PushSpan
  BY <1>28 DEF PushSpan, ReleaseDepth
<1>29. CASE CloseBatch
  BY <1>29 DEF CloseBatch
<1>30. CASE NoBatch
  BY <1>30 DEF NoBatch
<1>31. CASE StartAttempt
  BY <1>31 DEF StartAttempt, Retried, RetriesEnabled
<1>32. CASE ExportAborted
  BY <1>32 DEF ExportAborted, AbandonRound, LeaveRound
<1>33. CASE ExportReturned
  BY <1>33 DEF ExportReturned
<1>34. ASSUME NEW k \in 1 .. MaxExportBatchSize, BatchExported(k)
      PROVE  DrainShape'
  BY <1>34 DEF BatchExported, TakeResult
<1>35. ASSUME NEW k \in 1 .. MaxExportBatchSize, BatchSetAside(k)
      PROVE  DrainShape'
  BY <1>35 DEF BatchSetAside, TakeResult
<1>36. ASSUME NEW k \in 1 .. MaxExportBatchSize, BatchFailed(k)
      PROVE  DrainShape'
  BY <1>36 DEF BatchFailed, TakeResult
<1>37. CASE RoundDone
  BY <1>37 DEF RoundDone, FailSetAside, LeaveRound
<1>38. CASE ScheduleRetry
  BY <1>38 DEF ScheduleRetry
<1>39. CASE BackoffAborted
  BY <1>39 DEF BackoffAborted, AbandonRound, LeaveRound
<1>40. CASE BackoffCutShort
  BY <1>40 DEF BackoffCutShort
<1>41. CASE BackoffElapsed
  BY <1>41 DEF BackoffElapsed
<1>42. CASE FinishExport
  BY <1>42 DEF FinishExport
<1>43. CASE FinishForceFlush
  BY <1>43 DEF FinishForceFlush, SendReply
<1>44. CASE FinishShutdown
  BY <1>44 DEF FinishShutdown, SendReply
<1>45. CASE WorkerExit
  BY <1>45 DEF WorkerExit
<1>46. CASE WorkerPanic
  BY <1>46 DEF WorkerPanic
<1>47. CASE UNCHANGED vars
  BY <1>47 DEF vars
<1>48. QED
  BY <1>1, <1>2, <1>3, <1>4, <1>5, <1>6, <1>7, <1>8, <1>9, <1>10, <1>11,
     <1>12, <1>13, <1>14, <1>15, <1>16, <1>17, <1>18, <1>19, <1>20, <1>21,
     <1>22, <1>23, <1>24, <1>25, <1>26, <1>27, <1>28, <1>29, <1>30, <1>31,
     <1>32, <1>33, <1>34, <1>35, <1>36, <1>37, <1>38, <1>39, <1>40, <1>41,
     <1>42, <1>43, <1>44, <1>45, <1>46, <1>47
     DEF Next, RequestCall, RequestStep, WorkerStep

-----------------------------------------------------------------------------
\* BoundedBatchSpanProcessor::new establishes every conjunct.
LEMMA InitInv == Init => IndInv
<1> SUFFICES ASSUME Init PROVE IndInv
  OBVIOUS
<1> USE ConfigAssumption DEF Init
<1>1. Timer \in Messages /\ Timer.kind = "Timer"
  BY DEF Timer, Messages, Message, Kinds
<1>2. TypeOK
  <2>1. PlaceTypes
    BY <1>1 DEF PlaceTypes, RequestStates, WorkerStates
  <2>2. FlagTypes
    BY DEF FlagTypes
  <2>3. CounterTypes
    BY DEF CounterTypes
  <2>4. QED
    BY <2>1, <2>2, <2>3 DEF TypeOK
<1>3. RoundShape /\ CallShape /\ DepthExact
  BY DEF RoundShape, CallShape, DepthExact, Here, WorkerGone
<1>4. ControlShape
  BY <1>1 DEF ControlShape
<1>5. Ledger
  BY DEF Ledger, EndedBalance, QueuedBalance, InHand, Here
<1>6. DrainShape
  BY <1>1 DEF DrainShape
<1>7. QED
  BY <1>2, <1>3, <1>4, <1>5, <1>6 DEF IndInv

\* IndInv holds in every reachable state of both threads.
THEOREM Invariance == Spec => []IndInv
<1>1. IndInv /\ [Next]_vars => IndInv'
  BY TypeStep, RoundStep, CallStep, DepthStep, ControlStep, LedgerStep, DrainStep
     DEF IndInv
<1>2. QED
  BY InitInv, <1>1, PTL DEF Spec

\* Counters and gauges never wrap, channels stay within their capacity, and no
\* batch is attempted more than max_attempts times (export_round, on_end).
THEOREM TypeCorrect == Spec => []TypeOK
<1>1. IndInv => TypeOK
  BY DEF IndInv
<1>2. QED
  BY Invariance, <1>1, PTL

\* Every ended span is in exactly one place (on_end, take_batch, export_round,
\* discard_remaining, the worker's exit and its panic).
THEOREM LedgerBalanced == Spec => []Ledger
<1>1. IndInv => Ledger
  BY DEF IndInv
<1>2. QED
  BY Invariance, <1>1, PTL

\* queue_depth, incremented before the send and decremented after the receive,
\* is the channel's length up to the spans between those two accesses.
THEOREM QueueDepthExact == Spec => []DepthExact
<1>1. IndInv => DepthExact
  BY DEF IndInv
<1>2. QED
  BY Invariance, <1>1, PTL

\* The documented accounting invariant holds after every shutdown that kept to
\* its budget, also when the control channel was full and the worker ended
\* because the processor was dropped (shutdown_with_timeout, run_worker).
THEOREM DrainIsAccounted == Spec => []DrainAccounted
<1>1. IndInv => DrainAccounted
  <2> SUFFICES ASSUME IndInv, wpc \in {"exiting", "stopped"}, ~abort_export
               PROVE  sampled_ended = exported + dropped_queue_full
                                      + dropped_export_failure + dropped_shutdown
    BY DEF DrainAccounted
  <2>1. queue = 0 /\ abandoned = 0 /\ reported = 0
    BY DEF IndInv, DrainShape
  <2>2. InHand = 0
    BY DEF IndInv, RoundShape, InHand, Here
  <2>3. rpc # "sending"
    BY DEF IndInv, ControlShape, CallShape
  <2>4. QED
    BY <2>1, <2>2, <2>3 DEF IndInv, Ledger, EndedBalance, Here, TypeOK, CounterTypes
<1>2. QED
  BY Invariance, <1>1, PTL

-----------------------------------------------------------------------------
\* No step of either thread puts a span into a closed processor's queue.
LEMMA ClosedStep ==
  ASSUME TypeOK, RoundShape, CallShape, [Next]_vars
  PROVE  QueueOnlyDrains
<1> USE ConfigAssumption DEF TypeOK, PlaceTypes, FlagTypes, CounterTypes,
      RoundShape, CallShape, InHand, Here, WorkerGone, QueueOnlyDrains,
      requestVars, roundVars, exportVars, workerVars, channelVars, flagVars,
      spanMetrics, exportMetrics, gaugeVars, historyVars
<1>1. CASE OnStart
  BY <1>1 DEF OnStart, Callable
<1>2. CASE OnEndRefused
  BY <1>2 DEF OnEndRefused, Accepting, Callable
<1>3. CASE OnEndReserve
  BY <1>3 DEF OnEndReserve, Accepting, Callable
<1>4. CASE ForceFlushBegin
  BY <1>4 DEF ForceFlushBegin, Callable
<1>5. CASE ShutdownBegin
  BY <1>5 DEF ShutdownBegin, Callable
<1>6. CASE SetResource
  BY <1>6 DEF SetResource, Callable, ControlAccepts
<1>7. CASE DropProcessor
  BY <1>7 DEF DropProcessor, Callable
<1>8. CASE SpanQueued
  BY <1>8 DEF SpanQueued, MaxOf, MinOf
<1>9. CASE SpanRefusedFull
  BY <1>9 DEF SpanRefusedFull, ReleaseDepth
<1>10. CASE SpanRefusedDisconnected
  BY <1>10 DEF SpanRefusedDisconnected, ReleaseDepth
<1>11. CASE NotifyExport
  BY <1>11 DEF NotifyExport, ControlAccepts
<1>12. CASE ForceFlushSend
  BY <1>12 DEF ForceFlushSend, ControlSend, ControlAccepts
<1>13. CASE ForceFlushReturn
  BY <1>13 DEF ForceFlushReturn
<1>14. CASE ShutdownSend
  BY <1>14 DEF ShutdownSend, ControlSend, ControlAccepts
<1>15. CASE ShutdownReply
  BY <1>15 DEF ShutdownReply
<1>16. CASE ShutdownJoin
  BY <1>16 DEF ShutdownJoin
<1>17. CASE ShutdownTimeout
  BY <1>17 DEF ShutdownTimeout
<1>18. CASE ShutdownLoadDepth
  BY <1>18 DEF ShutdownLoadDepth
<1>19. CASE ShutdownLoadInFlight
  BY <1>19 DEF ShutdownLoadInFlight
<1>20. CASE RecvMessage
  BY <1>20 DEF RecvMessage, ArmOf
<1>21. CASE RecvSetResource
  BY <1>21 DEF RecvSetResource
<1>22. CASE RecvTimeout
  BY <1>22 DEF RecvTimeout
<1>23. CASE RecvDisconnected
  BY <1>23 DEF RecvDisconnected
<1>24. CASE ClearExportPending
  BY <1>24 DEF ClearExportPending
<1>25. CASE LoadTarget
  BY <1>25 DEF LoadTarget
<1>26. CASE CheckRound
  BY <1>26 DEF CheckRound, MoreRounds
<1>27. CASE TakeSpan
  BY <1>27 DEF TakeSpan
<1>28. CASE PushSpan
  BY <1>28 DEF PushSpan, ReleaseDepth
<1>29. CASE CloseBatch
  BY <1>29 DEF CloseBatch
<1>30. CASE NoBatch
  BY <1>30 DEF NoBatch
<1>31. CASE StartAttempt
  BY <1>31 DEF StartAttempt, Retried, RetriesEnabled
<1>32. CASE ExportAborted
  BY <1>32 DEF ExportAborted, AbandonRound, LeaveRound
<1>33. CASE ExportReturned
  BY <1>33 DEF ExportReturned
<1>34. ASSUME NEW k \in 1 .. MaxExportBatchSize, BatchExported(k)
      PROVE  QueueOnlyDrains
  BY <1>34 DEF BatchExported, TakeResult
<1>35. ASSUME NEW k \in 1 .. MaxExportBatchSize, BatchSetAside(k)
      PROVE  QueueOnlyDrains
  BY <1>35 DEF BatchSetAside, TakeResult
<1>36. ASSUME NEW k \in 1 .. MaxExportBatchSize, BatchFailed(k)
      PROVE  QueueOnlyDrains
  BY <1>36 DEF BatchFailed, TakeResult
<1>37. CASE RoundDone
  BY <1>37 DEF RoundDone, FailSetAside, LeaveRound
<1>38. CASE ScheduleRetry
  BY <1>38 DEF ScheduleRetry
<1>39. CASE BackoffAborted
  BY <1>39 DEF BackoffAborted, AbandonRound, LeaveRound
<1>40. CASE BackoffCutShort
  BY <1>40 DEF BackoffCutShort
<1>41. CASE BackoffElapsed
  BY <1>41 DEF BackoffElapsed
<1>42. CASE FinishExport
  BY <1>42 DEF FinishExport
<1>43. CASE FinishForceFlush
  BY <1>43 DEF FinishForceFlush, SendReply
<1>44. CASE FinishShutdown
  BY <1>44 DEF FinishShutdown, SendReply
<1>45. CASE WorkerExit
  BY <1>45 DEF WorkerExit
<1>46. CASE WorkerPanic
  BY <1>46 DEF WorkerPanic
<1>47. CASE UNCHANGED vars
  BY <1>47 DEF vars
<1>48. QED
  BY <1>1, <1>2, <1>3, <1>4, <1>5, <1>6, <1>7, <1>8, <1>9, <1>10, <1>11,
     <1>12, <1>13, <1>14, <1>15, <1>16, <1>17, <1>18, <1>19, <1>20, <1>21,
     <1>22, <1>23, <1>24, <1>25, <1>26, <1>27, <1>28, <1>29, <1>30, <1>31,
     <1>32, <1>33, <1>34, <1>35, <1>36, <1>37, <1>38, <1>39, <1>40, <1>41,
     <1>42, <1>43, <1>44, <1>45, <1>46, <1>47
     DEF Next, RequestCall, RequestStep, WorkerStep

\* Once shutdown_with_timeout has begun, on_end queues nothing and the worker only
\* gets rid of what it owes.
THEOREM ShutdownCloses == Spec => ShutdownClosesQueue
<1>1. IndInv /\ [Next]_vars => [QueueOnlyDrains]_vars
  BY ClosedStep DEF IndInv
<1>2. QED
  BY Invariance, <1>1, PTL DEF Spec, ShutdownClosesQueue

-----------------------------------------------------------------------------
\* Every step settles owed spans, accepts or refuses one, closes, or stutters.
LEMMA DeliveryStep ==
  ASSUME TypeOK, RoundShape, CallShape, Ledger, [Next]_vars
  PROVE  [Delivery!Next]_(Delivery!vars)
<1> USE ConfigAssumption DEF TypeOK, PlaceTypes, FlagTypes, CounterTypes,
      RoundShape, CallShape, Ledger, EndedBalance, QueuedBalance, InHand,
      Here, Delivery!Next, Delivery!Accept, Delivery!Refuse, Delivery!Deliver,
      Delivery!Drop, Delivery!Close, Delivery!vars, Delivery!Owed, Dropped,
      requestVars, roundVars, exportVars, workerVars, channelVars, flagVars,
      spanMetrics, exportMetrics, gaugeVars, historyVars
<1>1. CASE OnStart
  BY <1>1 DEF OnStart, Callable
<1>2. CASE OnEndRefused
  BY <1>2 DEF OnEndRefused, Accepting, Callable
<1>3. CASE OnEndReserve
  BY <1>3 DEF OnEndReserve, Accepting, Callable
<1>4. CASE ForceFlushBegin
  BY <1>4 DEF ForceFlushBegin, Callable
<1>5. CASE ShutdownBegin
  BY <1>5 DEF ShutdownBegin, Callable
<1>6. CASE SetResource
  BY <1>6 DEF SetResource, Callable, ControlAccepts
<1>7. CASE DropProcessor
  BY <1>7 DEF DropProcessor, Callable
<1>8. CASE SpanQueued
  BY <1>8 DEF SpanQueued, MaxOf, MinOf
<1>9. CASE SpanRefusedFull
  BY <1>9 DEF SpanRefusedFull, ReleaseDepth
<1>10. CASE SpanRefusedDisconnected
  BY <1>10 DEF SpanRefusedDisconnected, ReleaseDepth
<1>11. CASE NotifyExport
  BY <1>11 DEF NotifyExport, ControlAccepts
<1>12. CASE ForceFlushSend
  BY <1>12 DEF ForceFlushSend, ControlSend, ControlAccepts
<1>13. CASE ForceFlushReturn
  BY <1>13 DEF ForceFlushReturn
<1>14. CASE ShutdownSend
  BY <1>14 DEF ShutdownSend, ControlSend, ControlAccepts
<1>15. CASE ShutdownReply
  BY <1>15 DEF ShutdownReply
<1>16. CASE ShutdownJoin
  BY <1>16 DEF ShutdownJoin
<1>17. CASE ShutdownTimeout
  BY <1>17 DEF ShutdownTimeout
<1>18. CASE ShutdownLoadDepth
  BY <1>18 DEF ShutdownLoadDepth
<1>19. CASE ShutdownLoadInFlight
  BY <1>19 DEF ShutdownLoadInFlight
<1>20. CASE RecvMessage
  BY <1>20 DEF RecvMessage, ArmOf
<1>21. CASE RecvSetResource
  BY <1>21 DEF RecvSetResource
<1>22. CASE RecvTimeout
  BY <1>22 DEF RecvTimeout
<1>23. CASE RecvDisconnected
  BY <1>23 DEF RecvDisconnected
<1>24. CASE ClearExportPending
  BY <1>24 DEF ClearExportPending
<1>25. CASE LoadTarget
  BY <1>25 DEF LoadTarget
<1>26. CASE CheckRound
  BY <1>26 DEF CheckRound, MoreRounds
<1>27. CASE TakeSpan
  BY <1>27 DEF TakeSpan
<1>28. CASE PushSpan
  BY <1>28 DEF PushSpan, ReleaseDepth
<1>29. CASE CloseBatch
  BY <1>29 DEF CloseBatch
<1>30. CASE NoBatch
  BY <1>30 DEF NoBatch
<1>31. CASE StartAttempt
  BY <1>31 DEF StartAttempt, Retried, RetriesEnabled
<1>32. CASE ExportAborted
  BY <1>32 DEF ExportAborted, AbandonRound, LeaveRound
<1>33. CASE ExportReturned
  BY <1>33 DEF ExportReturned
<1>34. ASSUME NEW k \in 1 .. MaxExportBatchSize, BatchExported(k)
      PROVE  [Delivery!Next]_(Delivery!vars)
  BY <1>34 DEF BatchExported, TakeResult
<1>35. ASSUME NEW k \in 1 .. MaxExportBatchSize, BatchSetAside(k)
      PROVE  [Delivery!Next]_(Delivery!vars)
  BY <1>35 DEF BatchSetAside, TakeResult
<1>36. ASSUME NEW k \in 1 .. MaxExportBatchSize, BatchFailed(k)
      PROVE  [Delivery!Next]_(Delivery!vars)
  BY <1>36 DEF BatchFailed, TakeResult
<1>37. CASE RoundDone
  BY <1>37 DEF RoundDone, FailSetAside, LeaveRound
<1>38. CASE ScheduleRetry
  BY <1>38 DEF ScheduleRetry
<1>39. CASE BackoffAborted
  BY <1>39 DEF BackoffAborted, AbandonRound, LeaveRound
<1>40. CASE BackoffCutShort
  BY <1>40 DEF BackoffCutShort
<1>41. CASE BackoffElapsed
  BY <1>41 DEF BackoffElapsed
<1>42. CASE FinishExport
  BY <1>42 DEF FinishExport
<1>43. CASE FinishForceFlush
  BY <1>43 DEF FinishForceFlush, SendReply
<1>44. CASE FinishShutdown
  BY <1>44 DEF FinishShutdown, SendReply
<1>45. CASE WorkerExit
  BY <1>45 DEF WorkerExit
<1>46. CASE WorkerPanic
  BY <1>46 DEF WorkerPanic
<1>47. CASE UNCHANGED vars
  BY <1>47 DEF vars
<1>48. QED
  BY <1>1, <1>2, <1>3, <1>4, <1>5, <1>6, <1>7, <1>8, <1>9, <1>10, <1>11,
     <1>12, <1>13, <1>14, <1>15, <1>16, <1>17, <1>18, <1>19, <1>20, <1>21,
     <1>22, <1>23, <1>24, <1>25, <1>26, <1>27, <1>28, <1>29, <1>30, <1>31,
     <1>32, <1>33, <1>34, <1>35, <1>36, <1>37, <1>38, <1>39, <1>40, <1>41,
     <1>42, <1>43, <1>44, <1>45, <1>46, <1>47
     DEF Next, RequestCall, RequestStep, WorkerStep

\* The batch processor implements the safety part of SpanDelivery: no span is
\* delivered and dropped, or either of them twice.
THEOREM DeliverySafety == Spec => Delivery!SafeSpec
<1>1. Init => Delivery!Init
  BY DEF Init, Delivery!Init, Dropped
<1>2. IndInv /\ [Next]_vars => [Delivery!Next]_(Delivery!vars)
  BY DeliveryStep DEF IndInv
<1>3. QED
  BY Invariance, <1>1, <1>2, PTL DEF Spec, Delivery!SafeSpec

-----------------------------------------------------------------------------
\* Below: what the metrics say of exports and retries, when a forced shutdown stops
\* them, whose answer a flush gets, and when the worker is woken.

\* The steps of export_available and what it calls: the worker serves one message.
ExportSteps ==
  \/ ClearExportPending \/ LoadTarget \/ CheckRound
  \/ TakeSpan \/ PushSpan \/ CloseBatch \/ NoBatch
  \/ StartAttempt \/ ExportAborted \/ ExportReturned
  \/ \E k \in 1 .. MaxExportBatchSize :
       BatchExported(k) \/ BatchSetAside(k) \/ BatchFailed(k)
  \/ RoundDone \/ ScheduleRetry
  \/ BackoffAborted \/ BackoffCutShort \/ BackoffElapsed

\* The request thread exports nothing.
LEMMA RequestExportsNothing ==
  ASSUME RequestCall \/ RequestStep
  PROVE  UNCHANGED <<workerVars, exportMetrics, in_flight, abandoned, late_attempts>>
BY DEF RequestCall, RequestStep, OnStart, OnEndRefused, OnEndReserve,
   ForceFlushBegin, ShutdownBegin, SetResource, DropProcessor, SpanQueued,
   SpanRefusedFull, SpanRefusedDisconnected, NotifyExport, ForceFlushSend,
   ForceFlushReturn, ShutdownSend, ShutdownReply, ShutdownJoin, ShutdownTimeout,
   ShutdownLoadDepth, ShutdownLoadInFlight, ControlSend, ReleaseDepth, requestVars,
   gaugeVars, historyVars

\* While the worker exports it reads no control message and answers none.
LEMMA ExportFrame ==
  ASSUME ExportSteps
  PROVE  /\ UNCHANGED <<requestVars, message, control, abort_export, shutdown_started,
                        senders_dropped>>
         /\ wpc \notin {"recv", "finish", "exiting", "stopped", "dead"}
         /\ wpc' \notin {"recv", "exiting", "stopped", "dead"}
BY DEF ExportSteps, ClearExportPending, LoadTarget, CheckRound, TakeSpan, PushSpan,
   CloseBatch, NoBatch, StartAttempt, ExportAborted, ExportReturned, BatchExported,
   BatchSetAside, BatchFailed, RoundDone, ScheduleRetry, BackoffAborted,
   BackoffCutShort, BackoffElapsed, AbandonRound, LeaveRound, TakeResult, requestVars,
   channelVars, flagVars

-----------------------------------------------------------------------------
\* One more batch makes room for its spans.
LEMMA OneMoreBatch ==
  ASSUME NEW b \in Nat, NEW m \in Nat
  PROVE  (b + 1) * m = b * m + m
OBVIOUS

\* A round holds no more than the concurrent batches can.
LEMMA RoundBound ==
  ASSUME NEW b \in Nat, NEW c \in Nat, NEW m \in Nat, b <= c
  PROVE  b * m <= c * m
<1>1. PICK d \in Nat : c = b + d
  <2>1. c - b \in Nat /\ c = b + (c - b)
    OBVIOUS
  <2>2. QED
    BY <2>1
<1>2. c * m = b * m + d * m
  BY <1>1
<1>3. d * m \in Nat /\ b * m \in Nat
  OBVIOUS
<1>4. QED
  BY <1>2, <1>3

\* Every step keeps in_flight and the retry counters exact.
LEMMA RetryStep ==
  ASSUME TypeOK, RoundShape, BatchSizes, RecoveredWereRetried, [Next]_vars
  PROVE  BatchSizes' /\ RecoveredWereRetried'
<1> USE ConfigAssumption DEF TypeOK, FlagTypes, CounterTypes, RoundShape,
      BatchSizes, RecoveredWereRetried, requestVars, roundVars, exportVars,
      workerVars, channelVars, flagVars, spanMetrics, exportMetrics, gaugeVars,
      historyVars
<1>1. CASE RequestCall \/ RequestStep
  BY <1>1, RequestExportsNothing
<1>2. CASE RecvMessage
  BY <1>2 DEF RecvMessage, ArmOf
<1>3. CASE RecvSetResource
  BY <1>3 DEF RecvSetResource
<1>4. CASE RecvTimeout
  BY <1>4 DEF RecvTimeout
<1>5. CASE RecvDisconnected
  BY <1>5 DEF RecvDisconnected
<1>6. CASE ClearExportPending
  BY <1>6 DEF ClearExportPending
<1>7. CASE LoadTarget
  BY <1>7 DEF LoadTarget
<1>8. CASE CheckRound
  BY <1>8 DEF CheckRound, MoreRounds
<1>9. CASE TakeSpan
  BY <1>9 DEF TakeSpan
<1>10. CASE PushSpan
  BY <1>10 DEF PushSpan, ReleaseDepth
<1>11. CASE CloseBatch
  <2>1. (pending_batches + 1) * MaxExportBatchSize
          = pending_batches * MaxExportBatchSize + MaxExportBatchSize
    BY OneMoreBatch
  <2>2. pending_spans' <= pending_batches' * MaxExportBatchSize
    BY <1>11, <2>1 DEF CloseBatch
  <2>3. QED
    BY <1>11, <2>2 DEF CloseBatch
<1>12. CASE NoBatch
  BY <1>12 DEF NoBatch
<1>13. CASE StartAttempt
  <2>1. pending_batches * MaxExportBatchSize <= MaxConcurrentExports * MaxExportBatchSize
    BY RoundBound
  <2>2. in_flight' <= MaxConcurrentExports * MaxExportBatchSize
    BY <1>13, <2>1 DEF StartAttempt
  <2>3. BatchSizes'
    BY <1>13, <2>2 DEF StartAttempt
  <2>4. RecoveredWereRetried'
    BY <1>13 DEF StartAttempt, Retried
  <2>5. QED
    BY <2>3, <2>4
<1>14. CASE ExportAborted
  BY <1>14 DEF ExportAborted, AbandonRound, LeaveRound
<1>15. CASE ExportReturned
  BY <1>15 DEF ExportReturned
<1>16. ASSUME NEW k \in 1 .. MaxExportBatchSize, BatchExported(k)
      PROVE  BatchSizes' /\ RecoveredWereRetried'
  BY <1>16 DEF BatchExported, TakeResult
<1>17. ASSUME NEW k \in 1 .. MaxExportBatchSize, BatchSetAside(k)
      PROVE  BatchSizes' /\ RecoveredWereRetried'
  <2>1. (retry_batches + 1) * MaxExportBatchSize
          = retry_batches * MaxExportBatchSize + MaxExportBatchSize
    BY OneMoreBatch
  <2>2. retry_spans' <= retry_batches' * MaxExportBatchSize
    BY <1>17, <2>1 DEF BatchSetAside
  <2>3. QED
    BY <1>17, <2>2 DEF BatchSetAside, TakeResult
<1>18. ASSUME NEW k \in 1 .. MaxExportBatchSize, BatchFailed(k)
      PROVE  BatchSizes' /\ RecoveredWereRetried'
  BY <1>18 DEF BatchFailed, TakeResult
<1>19. CASE RoundDone
  BY <1>19 DEF RoundDone, FailSetAside, LeaveRound
<1>20. CASE ScheduleRetry
  <2>1. retry_batches * MaxExportBatchSize <= MaxConcurrentExports * MaxExportBatchSize
    BY RoundBound
  <2>2. in_flight' <= MaxConcurrentExports * MaxExportBatchSize
    BY <1>20, <2>1 DEF ScheduleRetry
  <2>3. QED
    BY <1>20, <2>2 DEF ScheduleRetry
<1>21. CASE BackoffAborted
  BY <1>21 DEF BackoffAborted, AbandonRound, LeaveRound
<1>22. CASE BackoffCutShort
  BY <1>22 DEF BackoffCutShort
<1>23. CASE BackoffElapsed
  BY <1>23 DEF BackoffElapsed
<1>24. CASE FinishExport
  BY <1>24 DEF FinishExport
<1>25. CASE FinishForceFlush
  BY <1>25 DEF FinishForceFlush, SendReply
<1>26. CASE FinishShutdown
  BY <1>26 DEF FinishShutdown, SendReply
<1>27. CASE WorkerExit
  BY <1>27 DEF WorkerExit
<1>28. CASE WorkerPanic
  BY <1>28 DEF WorkerPanic
<1>29. CASE UNCHANGED vars
  BY <1>29 DEF vars
<1>30. QED
  BY <1>1, <1>2, <1>3, <1>4, <1>5, <1>6, <1>7, <1>8, <1>9, <1>10, <1>11, <1>12,
     <1>13, <1>14, <1>15, <1>16, <1>17, <1>18, <1>19, <1>20, <1>21, <1>22, <1>23,
     <1>24, <1>25, <1>26, <1>27, <1>28, <1>29
     DEF Next, WorkerStep

\* abort_export is never lowered.
LEMMA AbortIsFinal ==
  ASSUME abort_export, RequestCall \/ RequestStep
  PROVE  abort_export'
BY DEF RequestCall, RequestStep, OnStart, OnEndRefused, OnEndReserve,
   ForceFlushBegin, ShutdownBegin, SetResource, DropProcessor, SpanQueued,
   SpanRefusedFull, SpanRefusedDisconnected, NotifyExport, ForceFlushSend,
   ForceFlushReturn, ShutdownSend, ShutdownReply, ShutdownJoin, ShutdownTimeout,
   ShutdownLoadDepth, ShutdownLoadInFlight, ControlSend, flagVars

\* Once an attempt is late, nothing leads back to another one.
LEMMA AbortStep ==
  ASSUME TypeOK, AbortShape, [Next]_vars
  PROVE  AbortShape'
<1> USE ConfigAssumption DEF TypeOK, FlagTypes, CounterTypes, AbortShape,
      requestVars, roundVars, exportVars, workerVars, channelVars, flagVars,
      spanMetrics, exportMetrics, gaugeVars, historyVars
<1>1. CASE RequestCall \/ RequestStep
  BY <1>1, RequestExportsNothing, AbortIsFinal
<1>2. CASE RecvMessage
  BY <1>2 DEF RecvMessage, ArmOf
<1>3. CASE RecvSetResource
  BY <1>3 DEF RecvSetResource
<1>4. CASE RecvTimeout
  BY <1>4 DEF RecvTimeout
<1>5. CASE RecvDisconnected
  BY <1>5 DEF RecvDisconnected
<1>6. CASE ClearExportPending
  BY <1>6 DEF ClearExportPending
<1>7. CASE LoadTarget
  BY <1>7 DEF LoadTarget
<1>8. CASE CheckRound
  BY <1>8 DEF CheckRound, MoreRounds
<1>9. CASE TakeSpan
  BY <1>9 DEF TakeSpan
<1>10. CASE PushSpan
  BY <1>10 DEF PushSpan, ReleaseDepth
<1>11. CASE CloseBatch
  BY <1>11 DEF CloseBatch
<1>12. CASE NoBatch
  BY <1>12 DEF NoBatch
<1>13. CASE StartAttempt
  BY <1>13 DEF StartAttempt, Retried, RetriesEnabled
<1>14. CASE ExportAborted
  BY <1>14 DEF ExportAborted, AbandonRound, LeaveRound
<1>15. CASE ExportReturned
  BY <1>15 DEF ExportReturned
<1>16. ASSUME NEW k \in 1 .. MaxExportBatchSize, BatchExported(k)
      PROVE  AbortShape'
  BY <1>16 DEF BatchExported, TakeResult
<1>17. ASSUME NEW k \in 1 .. MaxExportBatchSize, BatchSetAside(k)
      PROVE  AbortShape'
  BY <1>17 DEF BatchSetAside, TakeResult
<1>18. ASSUME NEW k \in 1 .. MaxExportBatchSize, BatchFailed(k)
      PROVE  AbortShape'
  BY <1>18 DEF BatchFailed, TakeResult
<1>19. CASE RoundDone
  BY <1>19 DEF RoundDone, FailSetAside, LeaveRound
<1>20. CASE ScheduleRetry
  BY <1>20 DEF ScheduleRetry
<1>21. CASE BackoffAborted
  BY <1>21 DEF BackoffAborted, AbandonRound, LeaveRound
<1>22. CASE BackoffCutShort
  BY <1>22 DEF BackoffCutShort
<1>23. CASE BackoffElapsed
  BY <1>23 DEF BackoffElapsed
<1>24. CASE FinishExport
  BY <1>24 DEF FinishExport
<1>25. CASE FinishForceFlush
  BY <1>25 DEF FinishForceFlush, SendReply
<1>26. CASE FinishShutdown
  BY <1>26 DEF FinishShutdown, SendReply
<1>27. CASE WorkerExit
  BY <1>27 DEF WorkerExit
<1>28. CASE WorkerPanic
  BY <1>28 DEF WorkerPanic
<1>29. CASE UNCHANGED vars
  BY <1>29 DEF vars
<1>30. QED
  BY <1>1, <1>2, <1>3, <1>4, <1>5, <1>6, <1>7, <1>8, <1>9, <1>10, <1>11, <1>12,
     <1>13, <1>14, <1>15, <1>16, <1>17, <1>18, <1>19, <1>20, <1>21, <1>22, <1>23,
     <1>24, <1>25, <1>26, <1>27, <1>28, <1>29
     DEF Next, WorkerStep

-----------------------------------------------------------------------------
\* What a send puts where in a channel.
LEMMA Appended ==
  ASSUME NEW S, NEW s \in Seq(S), NEW x \in S
  PROVE  /\ Append(s, x) \in Seq(S) /\ Len(Append(s, x)) = Len(s) + 1
         /\ \A i \in 1 .. Len(s) : Append(s, x)[i] = s[i]
         /\ Append(s, x)[Len(s) + 1] = x
OBVIOUS

\* What a receive takes and leaves.
LEMMA Popped ==
  ASSUME NEW S, NEW s \in Seq(S), s # <<>>
  PROVE  /\ Head(s) = s[1] /\ Head(s) \in S
         /\ Tail(s) \in Seq(S) /\ Len(s) > 0 /\ Len(Tail(s)) = Len(s) - 1
         /\ \A i \in 1 .. Len(s) - 1 : Tail(s)[i] = s[i + 1]
OBVIOUS

\* The fields of the messages under way.
LEMMA MessageFields ==
  ASSUME PlaceTypes
  PROVE  /\ message.id \in Nat /\ Timer.id = 0 /\ Timer.kind = "Timer"
         /\ \A i \in 1 .. Len(control) : control[i].id \in Nat
         /\ Timer \in Messages
         /\ \A m \in Messages : m.id \in Nat
         /\ \A k \in Kinds, n \in Nat :
              Message(k, n) \in Messages /\ Message(k, n).kind = k /\ Message(k, n).id = n
         /\ Len(control) \in Nat
<1>1. \A m \in Messages : m.id \in Nat
  BY DEF Messages
<1>2. \A i \in 1 .. Len(control) : control[i] \in Messages
  BY DEF PlaceTypes
<1>3. QED
  BY <1>1, <1>2 DEF PlaceTypes, Messages, Message, Timer, Kinds

\* The control channel is a queue and calls numbers the calls, so every step keeps
\* their orders the same.
LEMMA OrderStep ==
  ASSUME TypeOK, CallOrder, [Next]_vars
  PROVE  CallOrder'
<1> USE ConfigAssumption DEF TypeOK, FlagTypes, CounterTypes, CallOrder, Answered,
      requestVars, roundVars, exportVars, workerVars, channelVars, flagVars,
      spanMetrics, exportMetrics, gaugeVars, historyVars
<1>1. CASE OnStart \/ OnEndRefused \/ OnEndReserve \/ DropProcessor \/ SpanQueued \/
      SpanRefusedFull \/ SpanRefusedDisconnected \/ ForceFlushReturn \/
      ShutdownReply \/ ShutdownJoin \/ ShutdownLoadDepth \/ ShutdownLoadInFlight
  BY <1>1 DEF OnStart, Callable, OnEndRefused, Accepting, OnEndReserve,
     DropProcessor, SpanQueued, MaxOf, MinOf, SpanRefusedFull, ReleaseDepth,
     SpanRefusedDisconnected, ForceFlushReturn, ShutdownReply, ShutdownJoin,
     ShutdownLoadDepth, ShutdownLoadInFlight
<1>2. CASE ShutdownTimeout
  BY <1>2, MessageFields DEF ShutdownTimeout
<1>3. CASE ForceFlushBegin
  BY <1>3, MessageFields DEF ForceFlushBegin, Callable
<1>4. CASE ShutdownBegin
  BY <1>4, MessageFields DEF ShutdownBegin, Callable
<1>5. CASE SetResource
  <2> DEFINE m == Message("SetResource", 0)
  <2>1. m \in Messages /\ m.kind = "SetResource" /\ m.id = 0
    BY MessageFields DEF Kinds
  <2>2. /\ Len(control') = Len(control) + 1
        /\ \A i \in 1 .. Len(control) : control'[i] = control[i]
        /\ control'[Len(control) + 1] = m
    BY <1>5, <2>1, Appended DEF PlaceTypes, SetResource
  <2> HIDE DEF m
  <2>3. QED
    BY <1>5, <2>1, <2>2, MessageFields DEF SetResource, Callable, ControlAccepts
<1>6. CASE NotifyExport
  <2>1. CASE ~(~export_pending /\ ControlAccepts)
    BY <1>6, <2>1 DEF NotifyExport
  <2>2. CASE ~export_pending /\ ControlAccepts
    <3> DEFINE m == Message("Export", 0)
    <3>1. /\ rpc = "notify" /\ rpc' = "idle" 
          /\ UNCHANGED <<message, calls, wpc, abort_export, queue, reply>>
      BY <1>6, <2>2 DEF NotifyExport
    <3>2. control' = Append(control, m)
      BY <1>6, <2>2 DEF NotifyExport
    <3>3. m \in Messages /\ m.kind = "Export" /\ m.id = 0
      BY MessageFields DEF Kinds
    <3>4. /\ Len(control') = Len(control) + 1
          /\ \A i \in 1 .. Len(control) : control'[i] = control[i]
          /\ control'[Len(control) + 1] = m
      BY <3>2, <3>3, Appended DEF PlaceTypes
    <3>5. \A i \in 1 .. Len(control') :
             \/ i \in 1 .. Len(control) /\ control'[i] = control[i]
             \/ i = Len(control) + 1 /\ control'[i] = m
      BY <3>4, MessageFields
    <3> HIDE DEF m
    <3>6. \A i \in 1 .. Len(control') : control'[i].id <= calls
      BY <3>3, <3>5, MessageFields
    <3>7. \A i, j \in 1 .. Len(control') :
            i < j /\ Answered(control'[i]) /\ Answered(control'[j]) =>
              control'[i].id < control'[j].id
      BY <3>1, <3>3, <3>5, MessageFields
    <3>8. \A i \in 1 .. Len(control') :
            Answered(message) /\ Answered(control'[i]) => message.id < control'[i].id
      BY <3>1, <3>3, <3>5, MessageFields
    <3>9. QED
      BY <3>1, <3>6, <3>7, <3>8
  <2>3. QED
    BY <2>1, <2>2
<1>7. CASE ForceFlushSend
  <2>1. CASE ~(ControlAccepts)
    BY <1>7, <2>1 DEF ForceFlushSend, ControlSend
  <2>2. CASE ControlAccepts
    <3> DEFINE m == Message("ForceFlush", calls)
    <3>1. /\ rpc = "flushSend" /\ rpc' = "flushWait" 
          /\ UNCHANGED <<message, calls, wpc, abort_export, queue, reply>>
      BY <1>7, <2>2 DEF ForceFlushSend, ControlSend
    <3>2. control' = Append(control, m)
      BY <1>7, <2>2 DEF ForceFlushSend, ControlSend
    <3>3. m \in Messages /\ m.kind = "ForceFlush" /\ m.id = calls
      BY MessageFields DEF Kinds
    <3>4. /\ Len(control') = Len(control) + 1
          /\ \A i \in 1 .. Len(control) : control'[i] = control[i]
          /\ control'[Len(control) + 1] = m
      BY <3>2, <3>3, Appended DEF PlaceTypes
    <3>5. \A i \in 1 .. Len(control') :
             \/ i \in 1 .. Len(control) /\ control'[i] = control[i]
             \/ i = Len(control) + 1 /\ control'[i] = m
      BY <3>4, MessageFields
    <3> HIDE DEF m
    <3>6. \A i \in 1 .. Len(control') : control'[i].id <= calls
      BY <3>3, <3>5, MessageFields
    <3>7. \A i, j \in 1 .. Len(control') :
            i < j /\ Answered(control'[i]) /\ Answered(control'[j]) =>
              control'[i].id < control'[j].id
      BY <3>1, <3>3, <3>5, MessageFields
    <3>8. \A i \in 1 .. Len(control') :
            Answered(message) /\ Answered(control'[i]) => message.id < control'[i].id
      BY <3>1, <3>3, <3>5, MessageFields
    <3>9. QED
      BY <3>1, <3>6, <3>7, <3>8
  <2>3. QED
    BY <2>1, <2>2
<1>8. CASE ShutdownSend
  <2>1. CASE ~(ControlAccepts)
    BY <1>8, <2>1 DEF ShutdownSend, ControlSend
  <2>2. CASE ControlAccepts
    <3> DEFINE m == Message("Shutdown", calls)
    <3>1. /\ rpc = "shutSend" /\ rpc' = "shutWait" 
          /\ UNCHANGED <<message, calls, wpc, abort_export, queue, reply>>
      BY <1>8, <2>2 DEF ShutdownSend, ControlSend
    <3>2. control' = Append(control, m)
      BY <1>8, <2>2 DEF ShutdownSend, ControlSend
    <3>3. m \in Messages /\ m.kind = "Shutdown" /\ m.id = calls
      BY MessageFields DEF Kinds
    <3>4. /\ Len(control') = Len(control) + 1
          /\ \A i \in 1 .. Len(control) : control'[i] = control[i]
          /\ control'[Len(control) + 1] = m
      BY <3>2, <3>3, Appended DEF PlaceTypes
    <3>5. \A i \in 1 .. Len(control') :
             \/ i \in 1 .. Len(control) /\ control'[i] = control[i]
             \/ i = Len(control) + 1 /\ control'[i] = m
      BY <3>4, MessageFields
    <3> HIDE DEF m
    <3>6. \A i \in 1 .. Len(control') : control'[i].id <= calls
      BY <3>3, <3>5, MessageFields
    <3>7. \A i, j \in 1 .. Len(control') :
            i < j /\ Answered(control'[i]) /\ Answered(control'[j]) =>
              control'[i].id < control'[j].id
      BY <3>1, <3>3, <3>5, MessageFields
    <3>8. \A i \in 1 .. Len(control') :
            Answered(message) /\ Answered(control'[i]) => message.id < control'[i].id
      BY <3>1, <3>3, <3>5, MessageFields
    <3>9. QED
      BY <3>1, <3>6, <3>7, <3>8
  <2>3. QED
    BY <2>1, <2>2
<1>9. CASE ExportSteps
  BY <1>9, ExportFrame
<1>10. CASE RecvMessage
  <2>1. /\ Head(control) = control[1] /\ Len(control) > 0
        /\ Len(control') = Len(control) - 1
        /\ \A i \in 1 .. Len(control') : control'[i] = control[i + 1]
    BY <1>10, Popped DEF RecvMessage, ArmOf, PlaceTypes
  <2>2. QED
    BY <1>10, <2>1, MessageFields DEF RecvMessage, ArmOf
<1>11. CASE RecvSetResource
  <2>1. /\ Head(control) = control[1] /\ Len(control) > 0
        /\ Len(control') = Len(control) - 1
        /\ \A i \in 1 .. Len(control') : control'[i] = control[i + 1]
    BY <1>11, Popped DEF RecvSetResource, PlaceTypes
  <2>2. QED
    BY <1>11, <2>1, MessageFields DEF RecvSetResource
<1>12. CASE RecvTimeout
  BY <1>12, MessageFields DEF RecvTimeout
<1>13. CASE RecvDisconnected
  BY <1>13, MessageFields DEF RecvDisconnected
<1>14. CASE FinishExport
  BY <1>14, MessageFields DEF FinishExport
<1>15. CASE FinishForceFlush
  BY <1>15, MessageFields DEF FinishForceFlush, SendReply
<1>16. CASE FinishShutdown
  BY <1>16, MessageFields DEF FinishShutdown, SendReply
<1>17. CASE WorkerExit
  <2>1. Len(control') = 0
    BY <1>17 DEF WorkerExit
  <2>2. QED
    BY <1>17, <2>1, MessageFields DEF WorkerExit
<1>18. CASE WorkerPanic
  <2>1. Len(control') = 0
    BY <1>18 DEF WorkerPanic
  <2>2. QED
    BY <1>18, <2>1, MessageFields DEF WorkerPanic
<1>19. CASE UNCHANGED vars
  BY <1>19 DEF vars
<1>20. QED
  BY <1>1, <1>2, <1>3, <1>4, <1>5, <1>6, <1>7, <1>8, <1>9, <1>10, <1>11, <1>12,
     <1>13, <1>14, <1>15, <1>16, <1>17, <1>18, <1>19
     DEF Next, RequestCall, RequestStep, WorkerStep, ExportSteps

\* The call that waits for a flush made no Shutdown message.
LEMMA AnswerStep ==
  ASSUME TypeOK, CallOrder, OwnAnswer, [Next]_vars
  PROVE  OwnAnswer'
<1> USE ConfigAssumption DEF TypeOK, FlagTypes, CounterTypes, CallOrder, OwnAnswer,
      Answered, requestVars, roundVars, exportVars, workerVars, channelVars,
      flagVars, spanMetrics, exportMetrics, gaugeVars, historyVars
<1>1. CASE OnStart \/ OnEndRefused \/ OnEndReserve \/ DropProcessor \/ SpanQueued \/
      SpanRefusedFull \/ SpanRefusedDisconnected \/ ForceFlushReturn \/
      ShutdownReply \/ ShutdownJoin \/ ShutdownLoadDepth \/ ShutdownLoadInFlight
  BY <1>1 DEF OnStart, Callable, OnEndRefused, Accepting, OnEndReserve,
     DropProcessor, SpanQueued, MaxOf, MinOf, SpanRefusedFull, ReleaseDepth,
     SpanRefusedDisconnected, ForceFlushReturn, ShutdownReply, ShutdownJoin,
     ShutdownLoadDepth, ShutdownLoadInFlight
<1>2. CASE ShutdownTimeout
  BY <1>2, MessageFields DEF ShutdownTimeout
<1>3. CASE ForceFlushBegin
  BY <1>3, MessageFields DEF ForceFlushBegin, Callable
<1>4. CASE ShutdownBegin
  BY <1>4, MessageFields DEF ShutdownBegin, Callable
<1>5. CASE SetResource
  <2> DEFINE m == Message("SetResource", 0)
  <2>1. m \in Messages /\ m.kind = "SetResource" /\ m.id = 0
    BY MessageFields DEF Kinds
  <2>2. /\ Len(control') = Len(control) + 1
        /\ \A i \in 1 .. Len(control) : control'[i] = control[i]
        /\ control'[Len(control) + 1] = m
    BY <1>5, <2>1, Appended DEF PlaceTypes, SetResource
  <2> HIDE DEF m
  <2>3. QED
    BY <1>5, <2>1, <2>2, MessageFields DEF SetResource, Callable, ControlAccepts
<1>6. CASE NotifyExport
  <2>1. CASE ~(~export_pending /\ ControlAccepts)
    BY <1>6, <2>1 DEF NotifyExport
  <2>2. CASE ~export_pending /\ ControlAccepts
    <3> DEFINE m == Message("Export", 0)
    <3>1. /\ rpc = "notify" /\ rpc' = "idle" 
          /\ UNCHANGED <<message, calls, wpc, abort_export, queue, reply>>
      BY <1>6, <2>2 DEF NotifyExport
    <3>2. control' = Append(control, m)
      BY <1>6, <2>2 DEF NotifyExport
    <3>3. m \in Messages /\ m.kind = "Export" /\ m.id = 0
      BY MessageFields DEF Kinds
    <3>4. /\ Len(control') = Len(control) + 1
          /\ \A i \in 1 .. Len(control) : control'[i] = control[i]
          /\ control'[Len(control) + 1] = m
      BY <3>2, <3>3, Appended DEF PlaceTypes
    <3>5. \A i \in 1 .. Len(control') :
             \/ i \in 1 .. Len(control) /\ control'[i] = control[i]
             \/ i = Len(control) + 1 /\ control'[i] = m
      BY <3>4, MessageFields
    <3> HIDE DEF m
    <3>6. QED
      BY <3>1, <3>3, <3>4, <3>5, MessageFields
  <2>3. QED
    BY <2>1, <2>2
<1>7. CASE ForceFlushSend
  <2>1. CASE ~(ControlAccepts)
    BY <1>7, <2>1 DEF ForceFlushSend, ControlSend
  <2>2. CASE ControlAccepts
    <3> DEFINE m == Message("ForceFlush", calls)
    <3>1. /\ rpc = "flushSend" /\ rpc' = "flushWait" 
          /\ UNCHANGED <<message, calls, wpc, abort_export, queue, reply>>
      BY <1>7, <2>2 DEF ForceFlushSend, ControlSend
    <3>2. control' = Append(control, m)
      BY <1>7, <2>2 DEF ForceFlushSend, ControlSend
    <3>3. m \in Messages /\ m.kind = "ForceFlush" /\ m.id = calls
      BY MessageFields DEF Kinds
    <3>4. /\ Len(control') = Len(control) + 1
          /\ \A i \in 1 .. Len(control) : control'[i] = control[i]
          /\ control'[Len(control) + 1] = m
      BY <3>2, <3>3, Appended DEF PlaceTypes
    <3>5. \A i \in 1 .. Len(control') :
             \/ i \in 1 .. Len(control) /\ control'[i] = control[i]
             \/ i = Len(control) + 1 /\ control'[i] = m
      BY <3>4, MessageFields
    <3> HIDE DEF m
    <3>6. QED
      BY <3>1, <3>3, <3>4, <3>5, MessageFields
  <2>3. QED
    BY <2>1, <2>2
<1>8. CASE ShutdownSend
  <2>1. CASE ~(ControlAccepts)
    BY <1>8, <2>1 DEF ShutdownSend, ControlSend
  <2>2. CASE ControlAccepts
    <3> DEFINE m == Message("Shutdown", calls)
    <3>1. /\ rpc = "shutSend" /\ rpc' = "shutWait" 
          /\ UNCHANGED <<message, calls, wpc, abort_export, queue, reply>>
      BY <1>8, <2>2 DEF ShutdownSend, ControlSend
    <3>2. control' = Append(control, m)
      BY <1>8, <2>2 DEF ShutdownSend, ControlSend
    <3>3. m \in Messages /\ m.kind = "Shutdown" /\ m.id = calls
      BY MessageFields DEF Kinds
    <3>4. /\ Len(control') = Len(control) + 1
          /\ \A i \in 1 .. Len(control) : control'[i] = control[i]
          /\ control'[Len(control) + 1] = m
      BY <3>2, <3>3, Appended DEF PlaceTypes
    <3>5. \A i \in 1 .. Len(control') :
             \/ i \in 1 .. Len(control) /\ control'[i] = control[i]
             \/ i = Len(control) + 1 /\ control'[i] = m
      BY <3>4, MessageFields
    <3> HIDE DEF m
    <3>6. QED
      BY <3>1, <3>3, <3>4, <3>5, MessageFields
  <2>3. QED
    BY <2>1, <2>2
<1>9. CASE ExportSteps
  BY <1>9, ExportFrame
<1>10. CASE RecvMessage
  <2>1. /\ Head(control) = control[1] /\ Len(control) > 0
        /\ Len(control') = Len(control) - 1
        /\ \A i \in 1 .. Len(control') : control'[i] = control[i + 1]
    BY <1>10, Popped DEF RecvMessage, ArmOf, PlaceTypes
  <2>2. QED
    BY <1>10, <2>1, MessageFields DEF RecvMessage, ArmOf
<1>11. CASE RecvSetResource
  <2>1. /\ Head(control) = control[1] /\ Len(control) > 0
        /\ Len(control') = Len(control) - 1
        /\ \A i \in 1 .. Len(control') : control'[i] = control[i + 1]
    BY <1>11, Popped DEF RecvSetResource, PlaceTypes
  <2>2. QED
    BY <1>11, <2>1, MessageFields DEF RecvSetResource
<1>12. CASE RecvTimeout
  BY <1>12, MessageFields DEF RecvTimeout
<1>13. CASE RecvDisconnected
  BY <1>13, MessageFields DEF RecvDisconnected
<1>14. CASE FinishExport
  BY <1>14, MessageFields DEF FinishExport
<1>15. CASE FinishForceFlush
  BY <1>15, MessageFields DEF FinishForceFlush, SendReply
<1>16. CASE FinishShutdown
  BY <1>16, MessageFields DEF FinishShutdown, SendReply
<1>17. CASE WorkerExit
  <2>1. Len(control') = 0
    BY <1>17 DEF WorkerExit
  <2>2. QED
    BY <1>17, <2>1, MessageFields DEF WorkerExit
<1>18. CASE WorkerPanic
  <2>1. Len(control') = 0
    BY <1>18 DEF WorkerPanic
  <2>2. QED
    BY <1>18, <2>1, MessageFields DEF WorkerPanic
<1>19. CASE UNCHANGED vars
  BY <1>19 DEF vars
<1>20. QED
  BY <1>1, <1>2, <1>3, <1>4, <1>5, <1>6, <1>7, <1>8, <1>9, <1>10, <1>11, <1>12,
     <1>13, <1>14, <1>15, <1>16, <1>17, <1>18, <1>19
     DEF Next, RequestCall, RequestStep, WorkerStep, ExportSteps

\* Nothing but serving it, or the end of the worker, takes Shutdown off the channel.
LEMMA AheadStep ==
  ASSUME TypeOK, ShutdownAhead, [Next]_vars
  PROVE  ShutdownAhead'
<1> USE ConfigAssumption DEF TypeOK, FlagTypes, CounterTypes, ShutdownAhead,
      WorkerGone, requestVars, roundVars, exportVars, workerVars, channelVars,
      flagVars, spanMetrics, exportMetrics, gaugeVars, historyVars
<1>1. CASE OnStart
  BY <1>1 DEF OnStart, Callable
<1>2. CASE OnEndRefused
  BY <1>2 DEF OnEndRefused, Accepting, Callable
<1>3. CASE OnEndReserve
  BY <1>3 DEF OnEndReserve, Accepting, Callable
<1>4. CASE DropProcessor
  BY <1>4 DEF DropProcessor, Callable
<1>5. CASE SpanQueued
  BY <1>5 DEF SpanQueued, MaxOf, MinOf
<1>6. CASE SpanRefusedFull
  BY <1>6 DEF SpanRefusedFull, ReleaseDepth
<1>7. CASE SpanRefusedDisconnected
  BY <1>7 DEF SpanRefusedDisconnected, ReleaseDepth
<1>8. CASE ForceFlushReturn
  BY <1>8 DEF ForceFlushReturn
<1>9. CASE ShutdownReply
  BY <1>9 DEF ShutdownReply
<1>10. CASE ShutdownJoin
  BY <1>10 DEF ShutdownJoin
<1>11. CASE ShutdownLoadDepth
  BY <1>11 DEF ShutdownLoadDepth
<1>12. CASE ShutdownLoadInFlight
  BY <1>12 DEF ShutdownLoadInFlight
<1>13. CASE ShutdownTimeout
  BY <1>13, MessageFields DEF ShutdownTimeout
<1>14. CASE ForceFlushBegin
  BY <1>14, MessageFields DEF ForceFlushBegin, Callable
<1>15. CASE ShutdownBegin
  BY <1>15, MessageFields DEF ShutdownBegin, Callable
<1>16. CASE SetResource
  <2> DEFINE m == Message("SetResource", 0)
  <2>1. m \in Messages /\ m.kind = "SetResource" /\ m.id = 0
    BY MessageFields DEF Kinds
  <2>2. /\ Len(control') = Len(control) + 1
        /\ \A i \in 1 .. Len(control) : control'[i] = control[i]
        /\ control'[Len(control) + 1] = m
    BY <1>16, <2>1, Appended DEF PlaceTypes, SetResource
  <2> HIDE DEF m
  <2>3. QED
    BY <1>16, <2>1, <2>2, MessageFields DEF SetResource, Callable, ControlAccepts
<1>17. CASE NotifyExport
  <2>1. CASE ~(~export_pending /\ ControlAccepts)
    BY <1>17, <2>1 DEF NotifyExport
  <2>2. CASE ~export_pending /\ ControlAccepts
    <3> DEFINE m == Message("Export", 0)
    <3>1. /\ rpc = "notify" /\ rpc' = "idle" 
          /\ UNCHANGED <<message, calls, wpc, abort_export, queue, reply>>
      BY <1>17, <2>2 DEF NotifyExport
    <3>2. control' = Append(control, m)
      BY <1>17, <2>2 DEF NotifyExport
    <3>3. m \in Messages /\ m.kind = "Export" /\ m.id = 0
      BY MessageFields DEF Kinds
    <3>4. /\ Len(control') = Len(control) + 1
          /\ \A i \in 1 .. Len(control) : control'[i] = control[i]
          /\ control'[Len(control) + 1] = m
      BY <3>2, <3>3, Appended DEF PlaceTypes
    <3>5. \A i \in 1 .. Len(control') :
             \/ i \in 1 .. Len(control) /\ control'[i] = control[i]
             \/ i = Len(control) + 1 /\ control'[i] = m
      BY <3>4, MessageFields
    <3> HIDE DEF m
    <3>6. QED
      BY <3>1, <3>3, <3>4, <3>5, MessageFields
  <2>3. QED
    BY <2>1, <2>2
<1>18. CASE ForceFlushSend
  <2>1. CASE ~(ControlAccepts)
    BY <1>18, <2>1 DEF ForceFlushSend, ControlSend
  <2>2. CASE ControlAccepts
    <3> DEFINE m == Message("ForceFlush", calls)
    <3>1. /\ rpc = "flushSend" /\ rpc' = "flushWait" 
          /\ UNCHANGED <<message, calls, wpc, abort_export, queue, reply>>
      BY <1>18, <2>2 DEF ForceFlushSend, ControlSend
    <3>2. control' = Append(control, m)
      BY <1>18, <2>2 DEF ForceFlushSend, ControlSend
    <3>3. m \in Messages /\ m.kind = "ForceFlush" /\ m.id = calls
      BY MessageFields DEF Kinds
    <3>4. /\ Len(control') = Len(control) + 1
          /\ \A i \in 1 .. Len(control) : control'[i] = control[i]
          /\ control'[Len(control) + 1] = m
      BY <3>2, <3>3, Appended DEF PlaceTypes
    <3>5. \A i \in 1 .. Len(control') :
             \/ i \in 1 .. Len(control) /\ control'[i] = control[i]
             \/ i = Len(control) + 1 /\ control'[i] = m
      BY <3>4, MessageFields
    <3> HIDE DEF m
    <3>6. QED
      BY <3>1, <3>3, <3>4, <3>5, MessageFields
  <2>3. QED
    BY <2>1, <2>2
<1>19. CASE ShutdownSend
  <2>1. CASE ~(ControlAccepts)
    BY <1>19, <2>1 DEF ShutdownSend, ControlSend
  <2>2. CASE ControlAccepts
    <3> DEFINE m == Message("Shutdown", calls)
    <3>1. /\ rpc = "shutSend" /\ rpc' = "shutWait" 
          /\ UNCHANGED <<message, calls, wpc, abort_export, queue, reply>>
      BY <1>19, <2>2 DEF ShutdownSend, ControlSend
    <3>2. control' = Append(control, m)
      BY <1>19, <2>2 DEF ShutdownSend, ControlSend
    <3>3. m \in Messages /\ m.kind = "Shutdown" /\ m.id = calls
      BY MessageFields DEF Kinds
    <3>4. /\ Len(control') = Len(control) + 1
          /\ \A i \in 1 .. Len(control) : control'[i] = control[i]
          /\ control'[Len(control) + 1] = m
      BY <3>2, <3>3, Appended DEF PlaceTypes
    <3>5. \A i \in 1 .. Len(control') :
             \/ i \in 1 .. Len(control) /\ control'[i] = control[i]
             \/ i = Len(control) + 1 /\ control'[i] = m
      BY <3>4, MessageFields
    <3> HIDE DEF m
    <3>6. QED
      BY <3>1, <3>3, <3>4, <3>5, MessageFields
  <2>3. QED
    BY <2>1, <2>2
<1>20. CASE ExportSteps
  BY <1>20, ExportFrame
<1>21. CASE RecvMessage
  <2>1. /\ Head(control) = control[1] /\ Len(control) > 0
        /\ Len(control') = Len(control) - 1
        /\ \A i \in 1 .. Len(control') : control'[i] = control[i + 1]
    BY <1>21, Popped DEF RecvMessage, ArmOf, PlaceTypes
  <2>2. ASSUME NEW i \in 1 .. Len(control), control[i].kind = "Shutdown"
        PROVE  \/ message'.kind = "Shutdown"
               \/ \E k \in 1 .. Len(control') : control'[k].kind = "Shutdown"
    <3>1. CASE i = 1
      BY <1>21, <2>1, <2>2, <3>1 DEF RecvMessage
    <3>2. CASE i # 1
      <4>1. i - 1 \in 1 .. Len(control') /\ control'[i - 1] = control[i]
        BY <2>1, <3>2, MessageFields
      <4>2. QED
        BY <2>2, <4>1
    <3>3. QED
      BY <3>1, <3>2
  <2>3. UNCHANGED <<rpc, abort_export>> /\ wpc = "recv" /\ wpc' # "recv"
    BY <1>21 DEF RecvMessage, ArmOf
  <2>4. message.kind # "Shutdown"
    BY <2>3, MessageFields
  <2>5. QED
    BY <2>2, <2>3, <2>4
<1>22. CASE RecvSetResource
  <2>1. /\ Head(control) = control[1] /\ Len(control) > 0
        /\ Len(control') = Len(control) - 1
        /\ \A i \in 1 .. Len(control') : control'[i] = control[i + 1]
    BY <1>22, Popped DEF RecvSetResource, PlaceTypes
  <2>2. QED
    BY <1>22, <2>1, MessageFields DEF RecvSetResource
<1>23. CASE RecvTimeout
  BY <1>23, MessageFields DEF RecvTimeout
<1>24. CASE RecvDisconnected
  BY <1>24, MessageFields DEF RecvDisconnected
<1>25. CASE FinishExport
  BY <1>25, MessageFields DEF FinishExport
<1>26. CASE FinishForceFlush
  BY <1>26, MessageFields DEF FinishForceFlush, SendReply
<1>27. CASE FinishShutdown
  BY <1>27, MessageFields DEF FinishShutdown, SendReply
<1>28. CASE WorkerExit
  <2>1. Len(control') = 0
    BY <1>28 DEF WorkerExit
  <2>2. QED
    BY <1>28, <2>1, MessageFields DEF WorkerExit
<1>29. CASE WorkerPanic
  <2>1. Len(control') = 0
    BY <1>29 DEF WorkerPanic
  <2>2. QED
    BY <1>29, <2>1, MessageFields DEF WorkerPanic
<1>30. CASE UNCHANGED vars
  BY <1>30 DEF vars
<1>31. QED
  BY <1>1, <1>2, <1>3, <1>4, <1>5, <1>6, <1>7, <1>8, <1>9, <1>10, <1>11, <1>12,
     <1>13, <1>14, <1>15, <1>16, <1>17, <1>18, <1>19, <1>20, <1>21, <1>22, <1>23,
     <1>24, <1>25, <1>26, <1>27, <1>28, <1>29, <1>30
     DEF Next, RequestCall, RequestStep, WorkerStep, ExportSteps

\* While the worker serves the flush that is waited for, no budget has expired: the
\* Shutdown that could expire would be a later call.
LEMMA FlushNotAborted ==
  ASSUME TypeOK, CallOrder, ShutdownAhead, rpc = "flushWait",
         message.kind = "ForceFlush", message.id = calls,
         wpc \notin {"exiting", "stopped", "dead"}
  PROVE  ~abort_export
<1>1. ASSUME NEW i \in 1 .. Len(control), control[i].kind = "Shutdown"
      PROVE  FALSE
  <2>1. message.id < control[i].id /\ control[i].id <= calls
    BY <1>1 DEF CallOrder, Answered
  <2>2. QED
    BY <1>1, <2>1, MessageFields DEF TypeOK, CounterTypes
<1>2. QED
  BY <1>1 DEF ShutdownAhead, TypeOK, FlagTypes

\* While force_flush waits nothing is queued, and what the worker takes it settles.
LEMMA FlushStep ==
  ASSUME TypeOK, RoundShape, DepthExact, CallOrder, OwnAnswer, ShutdownAhead, FlushShape,
         [Next]_vars
  PROVE  FlushShape'
<1> USE ConfigAssumption DEF TypeOK, FlagTypes, CounterTypes, RoundShape,
      DepthExact, FlushShape, FlushIsBarrier, Covered, Working, Waiting, WorkerGone,
      InHand, Here, requestVars, roundVars, exportVars, workerVars, channelVars,
      flagVars, spanMetrics, exportMetrics, gaugeVars, historyVars
<1>1. CASE OnStart
  BY <1>1 DEF OnStart, Callable
<1>2. CASE OnEndRefused
  BY <1>2 DEF OnEndRefused, Accepting, Callable
<1>3. CASE OnEndReserve
  BY <1>3 DEF OnEndReserve, Accepting, Callable
<1>4. CASE ForceFlushBegin
  BY <1>4 DEF ForceFlushBegin, Callable
<1>5. CASE ShutdownBegin
  BY <1>5 DEF ShutdownBegin, Callable
<1>6. CASE SetResource
  BY <1>6 DEF SetResource, Callable, ControlAccepts
<1>7. CASE DropProcessor
  BY <1>7 DEF DropProcessor, Callable
<1>8. CASE SpanQueued
  BY <1>8 DEF SpanQueued, MaxOf, MinOf
<1>9. CASE SpanRefusedFull
  BY <1>9 DEF SpanRefusedFull, ReleaseDepth
<1>10. CASE SpanRefusedDisconnected
  BY <1>10 DEF SpanRefusedDisconnected, ReleaseDepth
<1>11. CASE NotifyExport
  BY <1>11 DEF NotifyExport, ControlAccepts
<1>12. CASE ForceFlushSend
  <2>1. reply = "none"
    BY <1>12 DEF ForceFlushSend, ControlSend
  <2>2. ~(message.kind = "ForceFlush" /\ message.id = calls)
    BY <1>12, MessageFields DEF ForceFlushSend, ControlSend, CallOrder, Answered
  <2>3. QED
    BY <1>12, <2>1, <2>2 DEF ForceFlushSend, ControlSend
<1>13. CASE ForceFlushReturn
  BY <1>13 DEF ForceFlushReturn
<1>14. CASE ShutdownSend
  BY <1>14 DEF ShutdownSend, ControlSend
<1>15. CASE ShutdownReply
  BY <1>15 DEF ShutdownReply
<1>16. CASE ShutdownJoin
  BY <1>16 DEF ShutdownJoin
<1>17. CASE ShutdownTimeout
  BY <1>17 DEF ShutdownTimeout
<1>18. CASE ShutdownLoadDepth
  BY <1>18 DEF ShutdownLoadDepth
<1>19. CASE ShutdownLoadInFlight
  BY <1>19 DEF ShutdownLoadInFlight
<1>20. CASE ClearExportPending
  BY <1>20 DEF ClearExportPending
<1>21. CASE LoadTarget
  BY <1>21 DEF LoadTarget
<1>22. CASE CheckRound
  <2>1. rpc = "flushWait" /\ message.kind = "ForceFlush" /\ message.id = calls =>
          ~abort_export
    BY <1>22, FlushNotAborted DEF CheckRound
  <2>2. QED
    BY <1>22, <2>1 DEF CheckRound, MoreRounds
<1>23. CASE TakeSpan
  BY <1>23 DEF TakeSpan
<1>24. CASE PushSpan
  BY <1>24 DEF PushSpan, ReleaseDepth
<1>25. CASE CloseBatch
  BY <1>25 DEF CloseBatch
<1>26. CASE NoBatch
  BY <1>26 DEF NoBatch
<1>27. CASE StartAttempt
  BY <1>27 DEF StartAttempt, Retried, RetriesEnabled
<1>28. CASE ExportAborted
  BY <1>28 DEF ExportAborted, AbandonRound, LeaveRound
<1>29. CASE ExportReturned
  BY <1>29 DEF ExportReturned
<1>30. ASSUME NEW k \in 1 .. MaxExportBatchSize, BatchExported(k)
      PROVE  FlushShape'
  BY <1>30 DEF BatchExported, TakeResult
<1>31. ASSUME NEW k \in 1 .. MaxExportBatchSize, BatchSetAside(k)
      PROVE  FlushShape'
  BY <1>31 DEF BatchSetAside, TakeResult
<1>32. ASSUME NEW k \in 1 .. MaxExportBatchSize, BatchFailed(k)
      PROVE  FlushShape'
  BY <1>32 DEF BatchFailed, TakeResult
<1>33. CASE RoundDone
  BY <1>33 DEF RoundDone, FailSetAside, LeaveRound
<1>34. CASE ScheduleRetry
  BY <1>34 DEF ScheduleRetry
<1>35. CASE BackoffAborted
  BY <1>35 DEF BackoffAborted, AbandonRound, LeaveRound
<1>36. CASE BackoffCutShort
  BY <1>36 DEF BackoffCutShort
<1>37. CASE BackoffElapsed
  BY <1>37 DEF BackoffElapsed
<1>38. CASE RecvMessage
  <2>1. wpc' \in {"clear", "load"}
    BY <1>38 DEF RecvMessage, ArmOf
  <2>2. QED
    BY <1>38, <2>1 DEF RecvMessage
<1>39. CASE RecvSetResource
  BY <1>39 DEF RecvSetResource
<1>40. CASE RecvTimeout
  <2>1. wpc' = "load"
    BY <1>40 DEF RecvTimeout
  <2>2. QED
    BY <1>40, <2>1 DEF RecvTimeout
<1>41. CASE RecvDisconnected
  BY <1>41 DEF RecvDisconnected
<1>42. CASE FinishExport
  BY <1>42 DEF FinishExport
<1>43. CASE FinishForceFlush
  BY <1>43 DEF FinishForceFlush, SendReply
<1>44. CASE FinishShutdown
  <2>1. rpc = "flushWait" => message.id # calls
    BY <1>44 DEF OwnAnswer, FinishShutdown
  <2>2. rpc = "flushWait" => reply' = reply
    BY <1>44, <2>1 DEF FinishShutdown, SendReply
  <2>3. message'.kind # "ForceFlush"
    BY <1>44, MessageFields DEF FinishShutdown
  <2>4. reply' # "none" => Waiting'
    BY <1>44 DEF FinishShutdown, SendReply
  <2>5. rpc = "flushWait" /\ reply' # "none" => queue' = 0 /\ InHand' = 0
    BY <1>44, <2>2 DEF FinishShutdown
  <2>6. QED
    BY <1>44, <2>3, <2>4, <2>5 DEF FinishShutdown
<1>45. CASE WorkerExit
  BY <1>45 DEF WorkerExit
<1>46. CASE WorkerPanic
  BY <1>46 DEF WorkerPanic
<1>47. CASE UNCHANGED vars
  BY <1>47 DEF vars
<1>48. QED
  BY <1>1, <1>2, <1>3, <1>4, <1>5, <1>6, <1>7, <1>8, <1>9, <1>10, <1>11, <1>12,
     <1>13, <1>14, <1>15, <1>16, <1>17, <1>18, <1>19, <1>20, <1>21, <1>22, <1>23,
     <1>24, <1>25, <1>26, <1>27, <1>28, <1>29, <1>30, <1>31, <1>32, <1>33, <1>34,
     <1>35, <1>36, <1>37, <1>38, <1>39, <1>40, <1>41, <1>42, <1>43, <1>44, <1>45,
     <1>46, <1>47
     DEF Next, RequestCall, RequestStep, WorkerStep

\* A full batch is always reported, and the report is served by a round whose target
\* covers it, unless it came while the store to export_pending was late.
LEMMA TriggerStep ==
  ASSUME TypeOK, RoundShape, DepthExact, ControlShape, TriggerShape, [Next]_vars
  PROVE  TriggerShape'
<1> USE ConfigAssumption DEF TypeOK, FlagTypes, CounterTypes, RoundShape,
      DepthExact, TriggerShape, Working, WorkerGone, Here, requestVars, roundVars,
      exportVars, workerVars, channelVars, flagVars, spanMetrics, exportMetrics,
      gaugeVars, historyVars
<1>1. CASE OnStart
  BY <1>1 DEF OnStart, Callable, ToServe
<1>2. CASE OnEndRefused
  BY <1>2 DEF OnEndRefused, Accepting, Callable, ToServe
<1>3. CASE OnEndReserve
  BY <1>3 DEF OnEndReserve, Accepting, Callable, ToServe
<1>4. CASE ForceFlushBegin
  BY <1>4 DEF ForceFlushBegin, Callable, ToServe
<1>5. CASE ShutdownBegin
  BY <1>5 DEF ShutdownBegin, Callable, ToServe
<1>6. CASE SetResource
  <2>1. /\ Len(control) = 0
        /\ UNCHANGED <<requestVars, workerVars, flagVars, queue, queue_depth, late_notice>>
    BY <1>6 DEF SetResource, Callable, ControlAccepts, ToServe
  <2>2. ~ToServe /\ ~\E i \in 1 .. Len(control) : control[i].kind = "Export"
    BY <2>1 DEF ToServe
  <2>3. QED
    BY <2>1, <2>2
<1>7. CASE DropProcessor
  BY <1>7 DEF DropProcessor, Callable, ToServe
<1>8. CASE SpanQueued
  BY <1>8 DEF SpanQueued, MaxOf, MinOf, ToServe
<1>9. CASE SpanRefusedFull
  BY <1>9 DEF SpanRefusedFull, ReleaseDepth, ToServe
<1>10. CASE SpanRefusedDisconnected
  BY <1>10 DEF SpanRefusedDisconnected, ReleaseDepth, ToServe
<1>11. CASE NotifyExport
  <2>1. CASE export_pending \/ WorkerGone
    BY <1>11, <2>1 DEF NotifyExport, ToServe, ControlAccepts
  <2>2. CASE ~export_pending /\ ~WorkerGone /\ ~ControlAccepts
    <3>1. Len(control) \in 1 .. Len(control) /\ Len(control) # 1
      <4>1. Len(control) \in Nat /\ Len(control) >= ControlCapacity
        BY <2>2, MessageFields DEF ControlAccepts
      <4>2. \A n \in Nat : n >= ControlCapacity => n \in 1 .. n /\ n # 1
        <5>1. ControlCapacity \in Nat \ {0, 1}
          BY ConfigAssumption
        <5> HIDE ConfigAssumption
        <5>2. QED
          BY <5>1
      <4>3. QED
        BY <4>1, <4>2
    <3>2. control[Len(control)].kind # "SetResource"
      BY <3>1 DEF ControlShape
    <3>3. ToServe /\ UNCHANGED control
      BY <1>11, <2>2, <3>1, <3>2 DEF ToServe, NotifyExport
    <3>4. QED
      BY <1>11, <2>2, <3>3 DEF NotifyExport, ToServe
  <2>3. CASE ~export_pending /\ ControlAccepts
    <3> DEFINE m == Message("Export", 0)
    <3>1. /\ rpc = "notify" /\ rpc' = "idle" /\ control' = Append(control, m)
          /\ UNCHANGED <<workerVars, depth, abort_export, queue, queue_depth>>
      BY <1>11, <2>3 DEF NotifyExport
    <3>2. m \in Messages /\ m.kind = "Export"
      BY MessageFields DEF Kinds
    <3>3. Len(control') \in 1 .. Len(control') /\ control'[Len(control')] = m
      BY <3>1, <3>2, Appended, MessageFields DEF PlaceTypes
    <3>4. ToServe'
      BY <3>2, <3>3 DEF ToServe
    <3>5. \E i \in 1 .. Len(control') : control'[i].kind = "Export"
      BY <3>2, <3>3
    <3> HIDE DEF m
    <3>6. QED
      BY <3>1, <3>4, <3>5
  <2>4. QED
    BY <2>1, <2>2, <2>3
<1>12. CASE ForceFlushSend
  <2>1. CASE ~(ControlAccepts)
    BY <1>12, <2>1 DEF ForceFlushSend, ControlSend, ToServe
  <2>2. CASE ControlAccepts
    <3> DEFINE m == Message("ForceFlush", calls)
    <3>1. /\ rpc = "flushSend" /\ rpc' = "flushWait" /\ UNCHANGED export_pending
          /\ UNCHANGED <<workerVars, depth, abort_export, queue, queue_depth>>
      BY <1>12, <2>2 DEF ForceFlushSend, ControlSend
    <3>2. control' = Append(control, m)
      BY <1>12, <2>2 DEF ForceFlushSend, ControlSend
    <3>3. m \in Messages /\ m.kind = "ForceFlush"
      BY MessageFields DEF Kinds
    <3>4. /\ Len(control') = Len(control) + 1 /\ Len(control) \in Nat
          /\ \A i \in 1 .. Len(control) : control'[i] = control[i]
          /\ control'[Len(control) + 1] = m
      BY <3>2, <3>3, Appended, MessageFields DEF PlaceTypes
    <3>5. Len(control) + 1 \in 1 .. Len(control')
      BY <3>4
    <3>6. ToServe'
      BY <3>3, <3>4, <3>5 DEF ToServe
    <3>7. (\E i \in 1 .. Len(control) : control[i].kind = "Export") =>
             \E i \in 1 .. Len(control') : control'[i].kind = "Export"
      BY <3>4
    <3> HIDE DEF m
    <3>8. QED
      BY <3>1, <3>6, <3>7
  <2>3. QED
    BY <2>1, <2>2
<1>13. CASE ForceFlushReturn
  BY <1>13 DEF ForceFlushReturn, ToServe
<1>14. CASE ShutdownSend
  <2>1. CASE ~(ControlAccepts)
    BY <1>14, <2>1 DEF ShutdownSend, ControlSend, ToServe
  <2>2. CASE ControlAccepts
    <3> DEFINE m == Message("Shutdown", calls)
    <3>1. /\ rpc = "shutSend" /\ rpc' = "shutWait" /\ UNCHANGED export_pending
          /\ UNCHANGED <<workerVars, depth, abort_export, queue, queue_depth>>
      BY <1>14, <2>2 DEF ShutdownSend, ControlSend
    <3>2. control' = Append(control, m)
      BY <1>14, <2>2 DEF ShutdownSend, ControlSend
    <3>3. m \in Messages /\ m.kind = "Shutdown"
      BY MessageFields DEF Kinds
    <3>4. /\ Len(control') = Len(control) + 1 /\ Len(control) \in Nat
          /\ \A i \in 1 .. Len(control) : control'[i] = control[i]
          /\ control'[Len(control) + 1] = m
      BY <3>2, <3>3, Appended, MessageFields DEF PlaceTypes
    <3>5. Len(control) + 1 \in 1 .. Len(control')
      BY <3>4
    <3>6. ToServe'
      BY <3>3, <3>4, <3>5 DEF ToServe
    <3>7. (\E i \in 1 .. Len(control) : control[i].kind = "Export") =>
             \E i \in 1 .. Len(control') : control'[i].kind = "Export"
      BY <3>4
    <3> HIDE DEF m
    <3>8. QED
      BY <3>1, <3>6, <3>7
  <2>3. QED
    BY <2>1, <2>2
<1>15. CASE ShutdownReply
  BY <1>15 DEF ShutdownReply, ToServe
<1>16. CASE ShutdownJoin
  BY <1>16 DEF ShutdownJoin, ToServe
<1>17. CASE ShutdownTimeout
  BY <1>17 DEF ShutdownTimeout, ToServe
<1>18. CASE ShutdownLoadDepth
  BY <1>18 DEF ShutdownLoadDepth, ToServe
<1>19. CASE ShutdownLoadInFlight
  BY <1>19 DEF ShutdownLoadInFlight, ToServe
<1>20. CASE ClearExportPending
  BY <1>20 DEF ClearExportPending, ToServe
<1>21. CASE LoadTarget
  BY <1>21 DEF LoadTarget, ToServe
<1>22. CASE CheckRound
  BY <1>22 DEF CheckRound, MoreRounds, ToServe
<1>23. CASE TakeSpan
  BY <1>23 DEF TakeSpan, ToServe
<1>24. CASE PushSpan
  BY <1>24 DEF PushSpan, ReleaseDepth, ToServe
<1>25. CASE CloseBatch
  BY <1>25 DEF CloseBatch, ToServe
<1>26. CASE NoBatch
  BY <1>26 DEF NoBatch, ToServe
<1>27. CASE StartAttempt
  BY <1>27 DEF StartAttempt, Retried, RetriesEnabled, ToServe
<1>28. CASE ExportAborted
  BY <1>28 DEF ExportAborted, AbandonRound, LeaveRound, ToServe
<1>29. CASE ExportReturned
  BY <1>29 DEF ExportReturned, ToServe
<1>30. ASSUME NEW k \in 1 .. MaxExportBatchSize, BatchExported(k)
      PROVE  TriggerShape'
  BY <1>30 DEF BatchExported, TakeResult, ToServe
<1>31. ASSUME NEW k \in 1 .. MaxExportBatchSize, BatchSetAside(k)
      PROVE  TriggerShape'
  BY <1>31 DEF BatchSetAside, TakeResult, ToServe
<1>32. ASSUME NEW k \in 1 .. MaxExportBatchSize, BatchFailed(k)
      PROVE  TriggerShape'
  BY <1>32 DEF BatchFailed, TakeResult, ToServe
<1>33. CASE RoundDone
  BY <1>33 DEF RoundDone, FailSetAside, LeaveRound, ToServe
<1>34. CASE ScheduleRetry
  BY <1>34 DEF ScheduleRetry, ToServe
<1>35. CASE BackoffAborted
  BY <1>35 DEF BackoffAborted, AbandonRound, LeaveRound, ToServe
<1>36. CASE BackoffCutShort
  BY <1>36 DEF BackoffCutShort, ToServe
<1>37. CASE BackoffElapsed
  BY <1>37 DEF BackoffElapsed, ToServe
<1>38. CASE RecvMessage
  <2>1. /\ Head(control) = control[1] /\ Len(control) > 0
        /\ Len(control') = Len(control) - 1
        /\ \A i \in 1 .. Len(control') : control'[i] = control[i + 1]
    BY <1>38, Popped DEF RecvMessage, PlaceTypes
  <2>2. ASSUME NEW i \in 1 .. Len(control), control[i].kind = "Export"
        PROVE  \/ wpc' \in {"clear", "lateClear"}
               \/ \E j \in 1 .. Len(control') : control'[j].kind = "Export"
    <3>1. CASE i = 1
      BY <1>38, <2>1, <2>2, <3>1 DEF RecvMessage, ArmOf, ToServe
    <3>2. CASE i # 1
      <4>1. i - 1 \in 1 .. Len(control') /\ control'[i - 1] = control[i]
        BY <2>1, <3>2, MessageFields
      <4>2. QED
        BY <2>2, <4>1
    <3>3. QED
      BY <3>1, <3>2
  <2>3. wpc' \in {"clear", "load"}
    BY <1>38 DEF RecvMessage, ArmOf, ToServe
  <2>4. QED
    BY <1>38, <2>2, <2>3 DEF RecvMessage
<1>39. CASE RecvSetResource
  <2>1. /\ Head(control) = control[1] /\ Len(control) > 0
        /\ Len(control') = Len(control) - 1
        /\ \A i \in 1 .. Len(control') : control'[i] = control[i + 1]
    BY <1>39, Popped DEF RecvSetResource, PlaceTypes
  <2>2. \A i \in 1 .. Len(control) :
          control[i].kind # "SetResource" => i - 1 \in 1 .. Len(control') /\ control'[i - 1] = control[i]
    BY <1>39, <2>1, MessageFields DEF RecvSetResource
  <2>3. ToServe => ToServe'
    BY <2>2 DEF ToServe
  <2>4. (\E i \in 1 .. Len(control) : control[i].kind = "Export") =>
          \E i \in 1 .. Len(control') : control'[i].kind = "Export"
    BY <2>2
  <2>5. QED
    BY <1>39, <2>3, <2>4 DEF RecvSetResource
<1>40. CASE RecvTimeout
  BY <1>40 DEF RecvTimeout, ToServe
<1>41. CASE RecvDisconnected
  BY <1>41 DEF RecvDisconnected, ToServe
<1>42. CASE FinishExport
  BY <1>42 DEF FinishExport, ToServe
<1>43. CASE FinishForceFlush
  BY <1>43 DEF FinishForceFlush, SendReply, ToServe
<1>44. CASE FinishShutdown
  BY <1>44 DEF FinishShutdown, SendReply, ToServe
<1>45. CASE WorkerExit
  BY <1>45 DEF WorkerExit, ToServe
<1>46. CASE WorkerPanic
  BY <1>46 DEF WorkerPanic, ToServe
<1>47. CASE UNCHANGED vars
  BY <1>47 DEF vars, ToServe
<1>48. QED
  BY <1>1, <1>2, <1>3, <1>4, <1>5, <1>6, <1>7, <1>8, <1>9, <1>10, <1>11, <1>12,
     <1>13, <1>14, <1>15, <1>16, <1>17, <1>18, <1>19, <1>20, <1>21, <1>22, <1>23,
     <1>24, <1>25, <1>26, <1>27, <1>28, <1>29, <1>30, <1>31, <1>32, <1>33, <1>34,
     <1>35, <1>36, <1>37, <1>38, <1>39, <1>40, <1>41, <1>42, <1>43, <1>44, <1>45,
     <1>46, <1>47
     DEF Next, RequestCall, RequestStep, WorkerStep

-----------------------------------------------------------------------------
\* BoundedBatchSpanProcessor::new establishes every shape.
LEMMA FlowInit == Init => FlowInv
<1> SUFFICES ASSUME Init PROVE FlowInv
  OBVIOUS
<1> USE ConfigAssumption DEF Init
<1>1. Timer.id = 0 /\ Timer.kind = "Timer"
  BY DEF Timer, Message
<1>2. 0 \in Nat /\ 0 * MaxExportBatchSize = 0
      /\ 0 <= MaxConcurrentExports * MaxExportBatchSize
  <2>1. 0 * MaxExportBatchSize <= MaxConcurrentExports * MaxExportBatchSize
    BY RoundBound
  <2>2. 0 * MaxExportBatchSize = 0
    OBVIOUS
  <2>3. QED
    BY <2>1, <2>2
<1>3. BatchSizes /\ RecoveredWereRetried /\ AbortShape
  BY <1>2 DEF BatchSizes, RecoveredWereRetried, AbortShape
<1>4. CallOrder /\ OwnAnswer /\ ShutdownAhead
  BY <1>1 DEF CallOrder, OwnAnswer, ShutdownAhead, Answered
<1>5. FlushShape
  BY <1>1 DEF FlushShape, FlushIsBarrier
<1>6. TriggerShape
  BY DEF TriggerShape, Here
<1>7. QED
  BY <1>3, <1>4, <1>5, <1>6 DEF FlowInv

\* Both invariants hold in every reachable state of both threads.
THEOREM FlowInvariance == Spec => [](IndInv /\ FlowInv)
<1>1. IndInv /\ FlowInv /\ [Next]_vars => FlowInv'
  BY RetryStep, AbortStep, OrderStep, AnswerStep, AheadStep, FlushStep, TriggerStep
     DEF IndInv, FlowInv
<1>2. QED
  BY Invariance, FlowInit, <1>1, PTL DEF Spec

\* What export_round reports is exact through partial failures, retries and aborts:
\* in_flight is what an attempt or its backoff holds, nothing is in flight between
\* rounds, never more than the concurrent batches hold, and a batch is recovered only
\* after a retry counted it.
THEOREM RetriesAccounted == Spec => []RetryAccounting
<1>1. FlowInv => RetryAccounting
  BY DEF FlowInv, BatchSizes, RetryAccounting, InFlightExact
<1>2. QED
  BY FlowInvariance, <1>1, PTL

\* After shutdown_with_timeout has set abort_export, export_round calls the exporter at
\* most once more, wherever the worker was.
THEOREM AbortIsPrompt == Spec => []AbortStopsExports
<1>1. FlowInv => AbortStopsExports
  BY DEF FlowInv, AbortShape, AbortStopsExports
<1>2. QED
  BY FlowInvariance, <1>1, PTL

\* An answered force_flush is a barrier: the answer is to this call, not to an earlier
\* one that timed out, and everything ended before it has left the processor.
THEOREM FlushBarrier == Spec => []FlushIsBarrier
<1>1. FlowInv => FlushIsBarrier
  BY DEF FlowInv, FlushShape
<1>2. QED
  BY FlowInvariance, <1>1, PTL

\* notify_export arms again and loses no trigger, also when the worker's Relaxed accesses
\* are reordered: the worker sleeps on a full batch only if that batch was reported
\* between the load of queue_depth and a store to export_pending that came late, and
\* then the next full batch wakes it.
THEOREM TriggersWake == Spec => []FullBatchWakesWorker
<1>1. IndInv /\ FlowInv => FullBatchWakesWorker
  <2> SUFFICES ASSUME IndInv, FlowInv PROVE FullBatchWakesWorker
    OBVIOUS
  <2>1. ASSUME wpc = "recv", control = <<>>, rpc = "idle"
        PROVE  queue_depth < MaxExportBatchSize \/ late_notice
    <3>1. ~ToServe /\ ~abort_export
      <4>1. PlaceTypes
        BY DEF IndInv, TypeOK
      <4>2. message.kind # "Shutdown"
        BY <2>1, <4>1, MessageFields DEF FlowInv, ShutdownAhead
      <4>3. QED
        BY <2>1, <4>2 DEF ToServe, FlowInv, ShutdownAhead
    <3>2. queue_depth - 0 < MaxExportBatchSize \/ late_notice
      BY <2>1, <3>1 DEF FlowInv, TriggerShape, Working, Here
    <3>3. QED
      BY <3>2, ConfigAssumption DEF IndInv, TypeOK, CounterTypes
  <2>2. QED
    BY <2>1 DEF FlowInv, TriggerShape, FullBatchWakesWorker
<1>2. QED
  BY FlowInvariance, <1>1, PTL
=============================================================================
