------------------------- MODULE AnalysisJobProofs -------------------------
(***************************************************************************)
(* Proofs about AnalysisJob for any jobs, slots, handlers and budgets.     *)
(***************************************************************************)
EXTENDS AnalysisJob, TLAPS

\* The variables keep their types under every step: in particular a retry
\* never carries more than MaxRetries and an active slot always has a message.
THEOREM TypeCorrect == Spec => []TypeOK
<1> USE RetriesAssumption, BudgetAssumption, NoMessageAssumption
<1>1. Init => TypeOK
  BY DEF Init, TypeOK, Status, Cancellable, Terminal, Stage, Active, Faults, NoRequest
<1>2. TypeOK /\ [Next]_vars => TypeOK'
  <2> SUFFICES ASSUME TypeOK, [Next]_vars PROVE TypeOK'
    OBVIOUS
  <2> USE DEF TypeOK, Status, Cancellable, Terminal, Active, jobVars, brokerVars, slotVars
  <2>1. ASSUME NEW j \in Jobs, SubmitCommit(j) \/ Dispatch(j) \/ DispatchFails(j)
        PROVE  TypeOK'
    BY <2>1 DEF SubmitCommit, Dispatch, DispatchFails, Fault, Messages, Faults
  <2>2. ASSUME NEW h \in Handlers, NEW j \in Jobs, CancelLoad(h, j)
        PROVE  TypeOK'
    BY <2>2 DEF CancelLoad, Requests
  <2>3. ASSUME NEW h \in Handlers, HandlerStep(h) \/ CancelRevokeFails(h)
        PROVE  TypeOK'
    <3>1. request[h] \in Requests
      BY <2>3 DEF HandlerStep, CancelCommit, CancelRevoke, CancelRevokeFails, NoRequest
    <3>2. CASE CancelCommit(h)
      BY <3>1, <3>2 DEF CancelCommit, Requests
    <3>3. CASE CancelRevoke(h)
      <4> DEFINE t == request[h].seen = "running"
      <4>1. /\ request[h].job \in Jobs
            /\ control' = control \cup {[job |-> request[h].job, terminate |-> t]}
        BY <3>1, <3>3 DEF CancelRevoke, Requests
      <4>2. t \in BOOLEAN
        OBVIOUS
      <4> HIDE DEF t
      <4>3. control' \subseteq Commands
        BY <4>1, <4>2 DEF Commands
      <4> QED BY <3>3, <4>3 DEF CancelRevoke
    <3>4. CASE CancelRevokeFails(h)
      BY <3>1, <3>4 DEF CancelRevokeFails, Fault, Faults
    <3> QED BY <2>3, <3>2, <3>3, <3>4 DEF HandlerStep
  <2>4. ASSUME NEW w \in Slots, SlotStep(w)
        PROVE  TypeOK'
    <3> USE DEF Finish, SendRetry, Retries, Move, ReadStatus, Raise, Stage
    <3>1. CASE Deliver(w)
      BY <3>1 DEF Deliver
    <3>2. CASE MarkRunningRead(w)
      BY <3>2 DEF MarkRunningRead, Messages
    <3>3. CASE MarkRunningCommit(w)
      BY <3>3 DEF MarkRunningCommit, Messages
    <3>4. CASE FetchRangeRaises(w)
      BY <3>4 DEF FetchRangeRaises
    <3>5. CASE AnalysisFails(w)
      BY <3>5 DEF AnalysisFails, Messages
    <3>6. CASE MarkFailedCommit(w)
      BY <3>6 DEF MarkFailedCommit, Messages
    <3>7. CASE FirstGuard(w)
      BY <3>7 DEF FirstGuard
    <3>8. CASE Upload(w)
      BY <3>8 DEF Upload, Messages
    <3>9. CASE SecondGuard(w)
      BY <3>9 DEF SecondGuard, Messages
    <3>10. CASE MarkSuccessCommit(w)
      BY <3>10 DEF MarkSuccessCommit, Messages
    <3>11. CASE Acknowledge(w)
      BY <3>11 DEF Acknowledge, Release
    <3> QED BY <2>4, <3>1, <3>2, <3>3, <3>4, <3>5, <3>6, <3>7, <3>8, <3>9, <3>10, <3>11
            DEF SlotStep
  <2>5. ASSUME NEW c \in Commands, ApplyRevoke(c)
        PROVE  TypeOK'
    BY <2>5 DEF ApplyRevoke, Commands, Holds, Stage
  <2>6. ASSUME NEW w \in Slots, TaskError(w)
        PROVE  TypeOK'
    BY <2>6 DEF TaskError, Raise, SendRetry, Retries, Finish, Move, Fault, Faults, Stage
  <2>7. ASSUME NEW w \in Slots, KillSlot(w) \/ Redeliver(w)
        PROVE  TypeOK'
    BY <2>7 DEF KillSlot, Redeliver, Release, Move, Fault, Faults, Stage
  <2>8. CASE Crash \/ CrashAfterRetry
    BY <2>8 DEF Crash, CrashAfterRetry, WorkerDies, Fault, Faults, Stage
  <2>9. CASE UNCHANGED vars
    BY <2>9 DEF vars
  <2> QED BY <2>1, <2>2, <2>3, <2>4, <2>5, <2>6, <2>7, <2>8, <2>9 DEF Next, Misbehave
<1> QED BY <1>1, <1>2, PTL DEF Spec

-----------------------------------------------------------------------------
\* A result served by GET /jobs/{id}/result is in the object store, whatever
\* fails or is delivered twice: the upload comes before mark_success, and
\* nothing deletes an artifact.
THEOREM ServedResultsStored == Spec => []ServedResultIsStored
<1>1. Init => KeyedIsStored
  BY DEF Init, KeyedIsStored
<1>2. TypeOK /\ KeyedIsStored /\ [Next]_vars => KeyedIsStored'
  <2> SUFFICES ASSUME TypeOK, KeyedIsStored, [Next]_vars PROVE KeyedIsStored'
    OBVIOUS
  <2> USE DEF TypeOK, KeyedIsStored, Active, jobVars, brokerVars, slotVars
  <2>1. ASSUME NEW j \in Jobs, SubmitCommit(j) \/ Dispatch(j) \/ DispatchFails(j)
        PROVE  KeyedIsStored'
    BY <2>1 DEF SubmitCommit, Dispatch, DispatchFails
  <2>2. ASSUME NEW h \in Handlers,
               \/ \E j \in Jobs : CancelLoad(h, j)
               \/ HandlerStep(h) \/ CancelRevokeFails(h)
        PROVE  KeyedIsStored'
    BY <2>2 DEF CancelLoad, HandlerStep, CancelCommit, CancelRevoke, CancelRevokeFails
  <2>3. ASSUME NEW w \in Slots, SlotStep(w)
        PROVE  KeyedIsStored'
    <3> USE DEF Finish, SendRetry, Release, Move, ReadStatus, Raise
    <3>1. CASE Deliver(w) \/ Acknowledge(w)
      BY <3>1 DEF Deliver, Acknowledge
    <3>2. CASE MarkRunningRead(w) \/ MarkRunningCommit(w)
      BY <3>2 DEF MarkRunningRead, MarkRunningCommit
    <3>3. CASE FetchRangeRaises(w) \/ AnalysisFails(w) \/ MarkFailedCommit(w)
      BY <3>3 DEF FetchRangeRaises, AnalysisFails, MarkFailedCommit
    <3>4. CASE FirstGuard(w)
      BY <3>4 DEF FirstGuard
    <3>5. CASE Upload(w)
      BY <3>5 DEF Upload
    <3>6. CASE SecondGuard(w)
      BY <3>6 DEF SecondGuard
    <3>7. CASE MarkSuccessCommit(w)
      BY <3>7 DEF MarkSuccessCommit
    <3> QED BY <2>3, <3>1, <3>2, <3>3, <3>4, <3>5, <3>6, <3>7 DEF SlotStep
  <2>4. ASSUME NEW c \in Commands, ApplyRevoke(c)
        PROVE  KeyedIsStored'
    BY <2>4 DEF ApplyRevoke
  <2>5. CASE Misbehave
    BY <2>1, <2>2, <2>5
       DEF Misbehave, TaskError, KillSlot, Redeliver, Crash, CrashAfterRetry,
           WorkerDies, Raise, SendRetry, Finish, Release, Move
  <2>6. CASE UNCHANGED vars
    BY <2>6 DEF vars
  <2> QED BY <2>1, <2>2, <2>3, <2>4, <2>5, <2>6 DEF Next
<1>3. KeyedIsStored => ServedResultIsStored
  BY DEF KeyedIsStored, ServedResultIsStored, ResultReady
<1> QED BY TypeCorrect, <1>1, <1>2, <1>3, PTL DEF Spec

-----------------------------------------------------------------------------
(* While the broker duplicates nothing, a job has one carrier at a time.    *)

\* The task's retry replaces the slot as the carrier of its job.
LEMMA RaiseKeepsCarrier ==
  ASSUME TypeOK, OneCarrier, NEW w \in Slots, Runs(w, msg[w].job), Raise(w),
         status' = status, submitting' = submitting
  PROVE  OneCarrier'
<1> USE DEF TypeOK, Active, Holds, Runs
<1> DEFINE again == Retries(w)
<1>1. \A m, n \in again : m = n
  BY DEF Retries, Messages
<1>2. /\ \A m \in queue' : m \in queue \/ m \in again
      /\ \A m \in again : m.job = msg[w].job
      /\ pc' = [pc EXCEPT ![w] = IF again = {} THEN "ended" ELSE "retried"]
      /\ msg' = msg
  BY DEF Raise, SendRetry, Retries, Finish, Move
<1> HIDE DEF again
<1>3. \A v \in Slots, j \in Jobs : Runs(v, j)' =>
        Runs(v, j) /\ (v = w => again = {})
  BY <1>2
<1>4. msg[w] \in Messages /\ msg[w].job \in Jobs
  BY DEF Messages
<1>5. OneMessage'
  BY <1>1, <1>2 DEF OneCarrier, OneMessage, MessageOrSlot
<1>6. AtMostOneExecutor'
  BY <1>3 DEF OneCarrier, AtMostOneExecutor
<1>7. MessageOrSlot'
  <2> SUFFICES ASSUME NEW m \in queue', NEW v \in Slots, Runs(v, m.job)' PROVE FALSE
    BY DEF MessageOrSlot
  <2>1. m.job \in Jobs
    BY <1>2, <1>4 DEF Messages
  <2>2. Runs(v, m.job) /\ (v = w => again = {})
    BY <1>3, <2>1
  <2> QED BY <1>2, <1>4, <2>2 DEF OneCarrier, MessageOrSlot, AtMostOneExecutor
<1>8. NoneBeforeDispatch'
  BY <1>2, <1>3, <1>4 DEF OneCarrier, NoneBeforeDispatch
<1> QED BY <1>5, <1>6, <1>7, <1>8 DEF OneCarrier

\* A step that adds no message, gives no slot another job, and neither forgets a
\* row nor starts a submission keeps one carrier.
LEMMA NoNewCarrier ==
  ASSUME TypeOK, OneCarrier,
         queue' \subseteq queue, submitting' \subseteq submitting,
         \A v \in Slots : Active(v)' /\ pc'[v] # "retried" =>
           Active(v) /\ pc[v] # "retried" /\ msg'[v] = msg[v],
         \A j \in Jobs : status'[j] = "none" => status[j] = "none"
  PROVE  OneCarrier'
<1> USE DEF Runs, Holds
<1>1. OneMessage'
  BY DEF OneCarrier, OneMessage
<1>2. AtMostOneExecutor'
  BY DEF OneCarrier, AtMostOneExecutor
<1>3. MessageOrSlot'
  BY DEF OneCarrier, MessageOrSlot
<1>4. NoneBeforeDispatch'
  BY DEF OneCarrier, NoneBeforeDispatch, TypeOK
<1> QED BY <1>1, <1>2, <1>3, <1>4 DEF OneCarrier

LEMMA CarrierStep ==
  ASSUME Budget["duplicate"] = 0, TypeOK, OneCarrier, [Next]_vars
  PROVE  OneCarrier'
<1> USE DEF TypeOK, Active, Holds, jobVars, brokerVars, slotVars
<1>1. ASSUME NEW j \in Jobs, SubmitCommit(j)
      PROVE  OneCarrier'
  <2>1. UNCHANGED <<queue, pc, msg>> /\ \A i \in Jobs : i # j => status'[i] = status[i]
    BY <1>1 DEF SubmitCommit
  <2>2. NoneBeforeDispatch'
    BY <1>1, <2>1 DEF SubmitCommit, OneCarrier, NoneBeforeDispatch, Runs
  <2> QED BY <2>1, <2>2
          DEF OneCarrier, OneMessage, AtMostOneExecutor, MessageOrSlot, Runs
<1>2. ASSUME NEW j \in Jobs, Dispatch(j)
      PROVE  OneCarrier'
  <2> DEFINE first == [job |-> j, retries |-> 0]
  <2>1. /\ \A m \in queue' : m \in queue \/ m = first
        /\ first.job = j /\ j \in submitting /\ j \notin submitting'
        /\ submitting' \subseteq submitting
        /\ UNCHANGED <<status, pc, msg>>
    BY <1>2 DEF Dispatch
  <2>2. /\ \A m \in queue : m.job # j
        /\ \A w \in Slots : ~Runs(w, j)
        /\ status[j] # "none"
    BY <2>1, <1>2 DEF OneCarrier, NoneBeforeDispatch
  <2> HIDE DEF first
  <2> QED BY <2>1, <2>2
          DEF OneCarrier, OneMessage, AtMostOneExecutor, MessageOrSlot,
              NoneBeforeDispatch, Runs
<1>3. ASSUME NEW j \in Jobs, DispatchFails(j)
      PROVE  OneCarrier'
  BY <1>3, NoNewCarrier DEF DispatchFails
<1>4. ASSUME NEW h \in Handlers,
             \/ \E j \in Jobs : CancelLoad(h, j)
             \/ HandlerStep(h) \/ CancelRevokeFails(h)
      PROVE  OneCarrier'
  BY <1>4, NoNewCarrier
     DEF CancelLoad, HandlerStep, CancelCommit, CancelRevoke, CancelRevokeFails
<1>5. ASSUME NEW w \in Slots, SlotStep(w)
      PROVE  OneCarrier'
  <2> USE DEF Finish, Release, Move, ReadStatus
  <2>1. CASE Deliver(w)
    <3>1. PICK m \in queue :
            /\ queue' = queue \ {m}
            /\ \/ UNCHANGED slotVars
               \/ pc' = [pc EXCEPT ![w] = "accepted"] /\ msg' = [msg EXCEPT ![w] = m]
      BY <2>1 DEF Deliver
    <3>2. UNCHANGED <<status, submitting>>
      BY <2>1 DEF Deliver
    <3>3. CASE UNCHANGED slotVars
      BY <3>1, <3>2, <3>3, NoNewCarrier
    <3>4. CASE pc' = [pc EXCEPT ![w] = "accepted"] /\ msg' = [msg EXCEPT ![w] = m]
      BY <3>1, <3>2, <3>4
         DEF OneCarrier, OneMessage, AtMostOneExecutor, MessageOrSlot,
             NoneBeforeDispatch, Runs
    <3> QED BY <3>1, <3>3, <3>4
  <2>2. CASE MarkRunningRead(w)
    <3>1. CASE Raise(w)
      BY <2>2, <3>1, RaiseKeepsCarrier DEF MarkRunningRead, Runs
    <3>2. CASE ~Raise(w)
      BY <2>2, <3>2, NoNewCarrier DEF MarkRunningRead
    <3> QED BY <3>1, <3>2
  <2>3. CASE FetchRangeRaises(w)
    BY <2>3, RaiseKeepsCarrier DEF FetchRangeRaises, Runs
  <2>4. CASE MarkRunningCommit(w) \/ AnalysisFails(w) \/ MarkFailedCommit(w)
    BY <2>4, NoNewCarrier DEF MarkRunningCommit, AnalysisFails, MarkFailedCommit
  <2>5. CASE FirstGuard(w) \/ Upload(w)
    BY <2>5, NoNewCarrier DEF FirstGuard, Upload
  <2>6. CASE SecondGuard(w) \/ MarkSuccessCommit(w)
    BY <2>6, NoNewCarrier DEF SecondGuard, MarkSuccessCommit
  <2>7. CASE Acknowledge(w)
    BY <2>7, NoNewCarrier DEF Acknowledge
  <2> QED BY <1>5, <2>1, <2>2, <2>3, <2>4, <2>5, <2>6, <2>7 DEF SlotStep
<1>6. ASSUME NEW c \in Commands, ApplyRevoke(c)
      PROVE  OneCarrier'
  BY <1>6, NoNewCarrier DEF ApplyRevoke
<1>7. ASSUME NEW w \in Slots, TaskError(w)
      PROVE  OneCarrier'
  BY <1>7, RaiseKeepsCarrier DEF TaskError, Over, Runs
<1>8. ASSUME NEW w \in Slots, KillSlot(w)
      PROVE  OneCarrier'
  BY <1>8, NoNewCarrier DEF KillSlot, Release, Move
<1>9. ASSUME CrashAfterRetry \/ \E w \in Slots : Redeliver(w)
      PROVE  FALSE
  BY <1>9 DEF CrashAfterRetry, Redeliver, Fault, Faults
<1>10. CASE Crash
  <2>1. /\ \A m \in queue' :
             m \in queue \/ \E w \in Slots : Active(w) /\ pc[w] # "retried" /\ m = msg[w]
        /\ \A w \in Slots : ~Active(w)'
        /\ UNCHANGED <<status, submitting>>
    BY <1>10 DEF Crash, WorkerDies
  <2>2. \A w \in Slots : Active(w) => msg[w].job \in Jobs
    BY DEF Messages
  <2>3. OneMessage'
    BY <2>1, <2>2 DEF OneCarrier, OneMessage, MessageOrSlot, AtMostOneExecutor, Runs
  <2>4. NoneBeforeDispatch'
    BY <2>1, <2>2 DEF OneCarrier, NoneBeforeDispatch, Runs
  <2> QED BY <2>1, <2>3, <2>4 DEF OneCarrier, AtMostOneExecutor, MessageOrSlot, Runs
<1>11. CASE UNCHANGED vars
  BY <1>11, NoNewCarrier DEF vars
<1> QED BY <1>1, <1>2, <1>3, <1>4, <1>5, <1>6, <1>7, <1>8, <1>9, <1>10, <1>11
        DEF Next, Misbehave


-----------------------------------------------------------------------------
\* No step of one carrier lets another's pending write hit a finished job.
LEMMA FreshStep ==
  ASSUME Budget["duplicate"] = 0, TypeOK, OneCarrier, OverwritesFresh, [Next]_vars
  PROVE  OverwritesFresh'
<1> USE DEF TypeOK, Active, OverwritesFresh, Running, jobVars, brokerVars, slotVars
<1>1. ASSUME NEW j \in Jobs, SubmitCommit(j)
      PROVE  OverwritesFresh'
  BY <1>1 DEF SubmitCommit, OneCarrier, NoneBeforeDispatch, Runs, Holds
<1>2. ASSUME NEW j \in Jobs, Dispatch(j) \/ DispatchFails(j)
      PROVE  OverwritesFresh'
  BY <1>2 DEF Dispatch, DispatchFails
<1>3. ASSUME NEW h \in Handlers,
             \/ \E j \in Jobs : CancelLoad(h, j)
             \/ HandlerStep(h) \/ CancelRevokeFails(h)
      PROVE  OverwritesFresh'
  BY <1>3 DEF CancelLoad, HandlerStep, CancelCommit, CancelRevoke,
              CancelRevokeFails, Messages
<1>4. ASSUME NEW w \in Slots, SlotStep(w)
      PROVE  OverwritesFresh'
  <2> USE DEF Finish, SendRetry, Release, Move, ReadStatus, Raise
  <2>1. CASE Deliver(w) \/ Acknowledge(w)
    BY <2>1 DEF Deliver, Acknowledge
  <2>2. CASE MarkRunningRead(w) \/ FetchRangeRaises(w) \/ AnalysisFails(w)
    BY <2>2 DEF MarkRunningRead, FetchRangeRaises, AnalysisFails
  <2>3. CASE FirstGuard(w) \/ Upload(w) \/ SecondGuard(w)
    BY <2>3 DEF FirstGuard, Upload, SecondGuard
  <2>4. \A v \in Slots :
          /\ v # w /\ Active(v) /\ Active(w)
          /\ pc[v] # "retried" /\ pc[w] # "retried"
          => msg[v].job # msg[w].job
    BY DEF OneCarrier, AtMostOneExecutor, Runs, Holds, Messages
  <2>5. CASE MarkRunningCommit(w)
    <3>1. msg[w].job \in Jobs /\ status' = [status EXCEPT ![msg[w].job] = "running"]
      BY <2>5 DEF MarkRunningCommit, Messages
    <3>2. pc' = [pc EXCEPT ![w] = "analysing"] /\ msg' = msg
      BY <2>5 DEF MarkRunningCommit
    <3> QED BY <3>1, <3>2, <2>4, <2>5 DEF MarkRunningCommit
  <2>6. CASE MarkFailedCommit(w)
    BY <2>6, <2>4 DEF MarkFailedCommit
  <2>7. CASE MarkSuccessCommit(w)
    BY <2>7, <2>4 DEF MarkSuccessCommit
  <2> QED BY <1>4, <2>1, <2>2, <2>3, <2>5, <2>6, <2>7 DEF SlotStep
<1>5. ASSUME NEW c \in Commands, ApplyRevoke(c)
      PROVE  OverwritesFresh'
  BY <1>5 DEF ApplyRevoke
<1>6. ASSUME NEW w \in Slots, TaskError(w) \/ KillSlot(w) \/ Redeliver(w)
      PROVE  OverwritesFresh'
  BY <1>6 DEF TaskError, KillSlot, Redeliver, Raise, SendRetry, Finish, Release, Move
<1>7. CASE Crash \/ CrashAfterRetry
  BY <1>7 DEF Crash, CrashAfterRetry, WorkerDies
<1>8. CASE UNCHANGED vars
  BY <1>8 DEF vars
<1> QED BY <1>1, <1>2, <1>3, <1>4, <1>5, <1>6, <1>7, <1>8 DEF Next, Misbehave

\* No step forgets a row, and a handler only takes up a job that has one.
LEMMA RequestedStep ==
  ASSUME TypeOK, OneCarrier, RequestedExists, [Next]_vars
  PROVE  RequestedExists'
<1> USE DEF TypeOK, RequestedExists, jobVars, brokerVars, slotVars
<1>1. ASSUME NEW j \in Jobs, SubmitCommit(j) \/ Dispatch(j) \/ DispatchFails(j)
      PROVE  RequestedExists'
  BY <1>1 DEF SubmitCommit, Dispatch, DispatchFails, Requests
<1>2. ASSUME NEW h \in Handlers, NEW j \in Jobs, CancelLoad(h, j)
      PROVE  RequestedExists'
  BY <1>2 DEF CancelLoad, Cancellable
<1>3. ASSUME NEW h \in Handlers, HandlerStep(h) \/ CancelRevokeFails(h)
      PROVE  RequestedExists'
  <2>1. request[h] \in Requests /\ request[h] # NoRequest
    BY <1>3 DEF HandlerStep, CancelCommit, CancelRevoke, CancelRevokeFails, NoRequest
  <2> QED BY <1>3, <2>1
          DEF HandlerStep, CancelCommit, CancelRevoke, CancelRevokeFails, Requests
<1>4. ASSUME NEW w \in Slots, SlotStep(w)
      PROVE  RequestedExists'
  <2>1. request' = request /\ \A j \in Jobs : status[j] # "none" => status'[j] # "none"
    BY <1>4 DEF SlotStep, Deliver, MarkRunningRead, MarkRunningCommit,
                FetchRangeRaises, AnalysisFails, MarkFailedCommit, FirstGuard,
                Upload, SecondGuard, MarkSuccessCommit, Acknowledge
  <2> QED BY <2>1 DEF Requests
<1>5. ASSUME NEW c \in Commands, ApplyRevoke(c)
      PROVE  RequestedExists'
  BY <1>5 DEF ApplyRevoke
<1>6. CASE Misbehave
  BY <1>1, <1>3, <1>6
     DEF Misbehave, TaskError, KillSlot, Redeliver, Crash, CrashAfterRetry, WorkerDies
<1>7. CASE UNCHANGED vars
  BY <1>7 DEF vars
<1> QED BY <1>1, <1>2, <1>3, <1>4, <1>5, <1>6, <1>7 DEF Next

\* The four parts together are inductive when no message is duplicated.
THEOREM ExecutionSafe ==
  ASSUME Budget["duplicate"] = 0
  PROVE  Spec => []ExecutionInvariant
<1>1. Init => OneCarrier /\ OverwritesFresh /\ RequestedExists
  BY DEF Init, OneCarrier, OneMessage, AtMostOneExecutor, MessageOrSlot,
         NoneBeforeDispatch, OverwritesFresh, RequestedExists, Runs, Holds, Active, Running
<1>2. TypeOK /\ OneCarrier /\ OverwritesFresh /\ RequestedExists /\ [Next]_vars
      => OneCarrier' /\ OverwritesFresh' /\ RequestedExists'
  BY CarrierStep, FreshStep, RequestedStep
<1> QED BY TypeCorrect, <1>1, <1>2, PTL DEF Spec, ExecutionInvariant

\* While no message is delivered twice, no two pool processes execute one job.
THEOREM OneExecutor ==
  ASSUME Budget["duplicate"] = 0
  PROVE  Spec => []AtMostOneExecutor
<1>1. ExecutionInvariant => AtMostOneExecutor
  BY DEF ExecutionInvariant, OneCarrier
<1> QED BY ExecutionSafe, <1>1, PTL

\* While no message is delivered twice, a cancellation committed when no slot
\* holds a row read before it is never undone.
THEOREM SettledCancelIsFinal ==
  ASSUME Budget["duplicate"] = 0
  PROVE  Spec => CancelIsFinal
<1> DEFINE Keeps == \A j \in Jobs : CancelSettled(j) => CancelSettled(j)'
<1>1. ASSUME ExecutionInvariant, [Next]_vars, NEW j \in Jobs, CancelSettled(j)
      PROVE  CancelSettled(j)'
  <2> USE <1>1 DEF ExecutionInvariant, TypeOK, Active, CancelSettled, Holds, Runs,
                   jobVars, brokerVars, slotVars
  <2>1. ASSUME NEW i \in Jobs, SubmitCommit(i) \/ Dispatch(i) \/ DispatchFails(i)
        PROVE  CancelSettled(j)'
    BY <2>1 DEF SubmitCommit, Dispatch, DispatchFails
  <2>2. ASSUME NEW h \in Handlers,
               \/ \E i \in Jobs : CancelLoad(h, i)
               \/ HandlerStep(h) \/ CancelRevokeFails(h)
        PROVE  CancelSettled(j)'
    BY <2>2 DEF CancelLoad, HandlerStep, CancelCommit, CancelRevoke, CancelRevokeFails
  <2>3. ASSUME NEW w \in Slots, SlotStep(w)
        PROVE  CancelSettled(j)'
    <3> USE DEF Finish, SendRetry, Release, Move, ReadStatus, Raise
    <3>1. CASE Deliver(w) \/ Acknowledge(w)
      BY <3>1 DEF Deliver, Acknowledge
    <3>2. CASE MarkRunningRead(w)
      BY <3>2 DEF MarkRunningRead
    <3>3. CASE MarkRunningCommit(w)
      BY <3>3 DEF MarkRunningCommit
    <3>4. CASE FetchRangeRaises(w) \/ AnalysisFails(w) \/ MarkFailedCommit(w)
      BY <3>4 DEF FetchRangeRaises, AnalysisFails, MarkFailedCommit
    <3>5. CASE FirstGuard(w) \/ Upload(w)
      BY <3>5 DEF FirstGuard, Upload
    <3>6. CASE SecondGuard(w)
      BY <3>6 DEF SecondGuard, OverwritesFresh, Running
    <3>7. CASE MarkSuccessCommit(w)
      BY <3>7 DEF MarkSuccessCommit
    <3> QED BY <2>3, <3>1, <3>2, <3>3, <3>4, <3>5, <3>6, <3>7 DEF SlotStep
  <2>4. ASSUME NEW c \in Commands, ApplyRevoke(c)
        PROVE  CancelSettled(j)'
    BY <2>4 DEF ApplyRevoke
  <2>5. ASSUME NEW w \in Slots, TaskError(w) \/ KillSlot(w) \/ Redeliver(w)
        PROVE  CancelSettled(j)'
    BY <2>5 DEF TaskError, KillSlot, Redeliver, Raise, SendRetry, Finish, Release, Move
  <2>6. CASE Crash \/ CrashAfterRetry
    BY <2>6 DEF Crash, CrashAfterRetry, WorkerDies
  <2>7. CASE UNCHANGED vars
    BY <2>7 DEF vars
  <2> QED BY <2>1, <2>2, <2>3, <2>4, <2>5, <2>6, <2>7 DEF Next, Misbehave
<1>2. ExecutionInvariant /\ [Next]_vars => [Keeps]_vars
  BY <1>1
<1> QED BY ExecutionSafe, <1>2, PTL DEF Spec, CancelIsFinal

-----------------------------------------------------------------------------
\* While no message is delivered twice, the status column takes only the steps
\* of JobLifecycle, whatever is cancelled, raises, crashes, is killed or is lost.
THEOREM Implementation ==
  ASSUME Budget["duplicate"] = 0
  PROVE  Spec => ImplementsLifecycle
<1> USE DEF Lifecycle!Change
<1>1. Init => Lifecycle!Init
  BY DEF Init, Lifecycle!Init
<1>2. ASSUME ExecutionInvariant, [Next]_vars
      PROVE  [Lifecycle!Next]_status
  <2> USE <1>2 DEF ExecutionInvariant, TypeOK, Active, Messages, OverwritesFresh, Running, jobVars
  <2>1. ASSUME NEW j \in Jobs, SubmitCommit(j) \/ Dispatch(j) \/ DispatchFails(j)
        PROVE  [Lifecycle!Next]_status
    BY <2>1 DEF SubmitCommit, Dispatch, DispatchFails, Lifecycle!Next, Lifecycle!Submit
  <2>2. ASSUME NEW h \in Handlers, CancelCommit(h)
        PROVE  [Lifecycle!Next]_status
    <3>1. request[h] \in Requests /\ request[h] # NoRequest
      BY <2>2 DEF CancelCommit, NoRequest
    <3> DEFINE j == request[h].job
    <3>2. /\ j \in Jobs
          /\ status[j] \in Status \ {"none"}
          /\ status' = [status EXCEPT ![j] = "cancelled"]
      BY <2>2, <3>1 DEF CancelCommit, Requests, RequestedExists
    <3> HIDE DEF j
    <3>3. CASE status[j] = "cancelled"
      BY <3>2, <3>3
    <3>4. CASE status[j] # "cancelled"
      BY <3>2, <3>4 DEF Lifecycle!Next, Lifecycle!Cancel, Status, Cancellable, Terminal
    <3> QED BY <3>3, <3>4
  <2>3. ASSUME NEW h \in Handlers,
               \/ \E j \in Jobs : CancelLoad(h, j)
               \/ CancelRevoke(h) \/ CancelRevokeFails(h)
        PROVE  [Lifecycle!Next]_status
    BY <2>3 DEF CancelLoad, CancelRevoke, CancelRevokeFails
  <2>4. ASSUME NEW w \in Slots, SlotStep(w)
        PROVE  [Lifecycle!Next]_status
    <3>1. CASE MarkRunningCommit(w)
      BY <3>1 DEF MarkRunningCommit, Lifecycle!Next, Lifecycle!Start
    <3>2. CASE MarkFailedCommit(w)
      BY <3>2 DEF MarkFailedCommit, Lifecycle!Next, Lifecycle!Fail
    <3>3. CASE MarkSuccessCommit(w)
      BY <3>3 DEF MarkSuccessCommit, Lifecycle!Next, Lifecycle!Succeed
    <3> QED BY <2>4, <3>1, <3>2, <3>3
            DEF SlotStep, Deliver, MarkRunningRead, FetchRangeRaises,
                AnalysisFails, FirstGuard, Upload, SecondGuard, Acknowledge
  <2>5. ASSUME NEW c \in Commands, ApplyRevoke(c)
        PROVE  [Lifecycle!Next]_status
    BY <2>5 DEF ApplyRevoke
  <2>6. CASE Misbehave
    BY <2>1, <2>3, <2>6
       DEF Misbehave, TaskError, KillSlot, Redeliver, Crash, CrashAfterRetry, WorkerDies
  <2>7. CASE UNCHANGED vars
    BY <2>7 DEF vars
  <2> QED BY <2>1, <2>2, <2>3, <2>4, <2>5, <2>6, <2>7 DEF Next, HandlerStep
<1> QED BY ExecutionSafe, <1>1, <1>2, PTL DEF Spec, ImplementsLifecycle, Lifecycle!Spec

-----------------------------------------------------------------------------
(* Pending jobs, with or without duplicates.                                *)

\* No step of the routes or the task writes pending or deletes a row: a job that
\* has a row keeps one, and one that left pending never returns.
LEMMA RowsMoveOn ==
  ASSUME TypeOK, [Next]_vars, NEW j \in Jobs
  PROVE  /\ status[j] # "none" => status'[j] # "none"
         /\ LeftPending(j) => LeftPending(j)'
<1> USE DEF TypeOK, LeftPending, jobVars, brokerVars, slotVars
<1>1. ASSUME NEW i \in Jobs, SubmitCommit(i) \/ Dispatch(i) \/ DispatchFails(i)
      PROVE  status'[j] = status[j] \/ status[j] = "none"
  BY <1>1 DEF SubmitCommit, Dispatch, DispatchFails
<1>2. ASSUME NEW h \in Handlers,
             \/ \E i \in Jobs : CancelLoad(h, i)
             \/ HandlerStep(h) \/ CancelRevokeFails(h)
      PROVE  status'[j] = status[j] \/ status'[j] = "cancelled"
  BY <1>2 DEF CancelLoad, HandlerStep, CancelCommit, CancelRevoke, CancelRevokeFails
<1>3. ASSUME NEW w \in Slots, SlotStep(w)
      PROVE  status'[j] = status[j] \/ status'[j] \in {"running", "failed", "success"}
  BY <1>3 DEF SlotStep, Deliver, MarkRunningRead, MarkRunningCommit,
              FetchRangeRaises, AnalysisFails, MarkFailedCommit, FirstGuard,
              Upload, SecondGuard, MarkSuccessCommit, Acknowledge
<1>4. ASSUME \/ \E c \in Commands : ApplyRevoke(c)
             \/ \E w \in Slots : TaskError(w) \/ KillSlot(w) \/ Redeliver(w)
             \/ Crash \/ CrashAfterRetry
             \/ UNCHANGED vars
      PROVE  status'[j] = status[j]
  BY <1>4 DEF ApplyRevoke, TaskError, KillSlot, Redeliver, Crash, CrashAfterRetry,
              WorkerDies, vars
<1> QED BY <1>1, <1>2, <1>3, <1>4 DEF Next, Misbehave

\* Faults are only ever added to.
LEMMA FaultsAddUp ==
  ASSUME TypeOK, [Next]_vars
  PROVE  /\ \A k \in Faults : spent'[k] \in Nat /\ spent'[k] >= spent[k]
         /\ WithinRetries' => WithinRetries
<1> USE RetriesAssumption DEF TypeOK, Faults, jobVars, brokerVars, slotVars
<1>1. spent' = spent \/ \E k \in Faults : spent' = [spent EXCEPT ![k] = @ + 1]
  <2>1. ASSUME NEW j \in Jobs, SubmitCommit(j) \/ Dispatch(j)
        PROVE  spent' = spent
    BY <2>1 DEF SubmitCommit, Dispatch
  <2>2. ASSUME NEW h \in Handlers, (\E j \in Jobs : CancelLoad(h, j)) \/ HandlerStep(h)
        PROVE  spent' = spent
    BY <2>2 DEF CancelLoad, HandlerStep, CancelCommit, CancelRevoke
  <2>3. ASSUME NEW w \in Slots, SlotStep(w)
        PROVE  spent' = spent
    BY <2>3 DEF SlotStep, Deliver, MarkRunningRead, MarkRunningCommit,
                FetchRangeRaises, AnalysisFails, MarkFailedCommit, FirstGuard,
                Upload, SecondGuard, MarkSuccessCommit, Acknowledge
  <2>4. ASSUME (\E c \in Commands : ApplyRevoke(c)) \/ UNCHANGED vars
        PROVE  spent' = spent
    BY <2>4 DEF ApplyRevoke, vars
  <2>5. CASE Misbehave
    BY <2>5 DEF Misbehave, DispatchFails, CancelRevokeFails, TaskError, KillSlot,
                Redeliver, Crash, CrashAfterRetry, Fault
  <2> QED BY <2>1, <2>2, <2>3, <2>4, <2>5 DEF Next
<1>2. \A k \in Faults : spent'[k] \in Nat /\ spent'[k] >= spent[k]
  BY <1>1
<1> QED BY <1>2 DEF WithinRetries

\* A step that gives work only to jobs that have a row.
LEMMA WorkHasRowStep ==
  ASSUME TypeOK, WorkHasRow, [Next]_vars
  PROVE  WorkHasRow'
<1> USE RowsMoveOn DEF TypeOK, Active, jobVars, brokerVars, slotVars
<1> DEFINE Known(j) == status[j] # "none"
<1>1. ASSUME \A j \in submitting' : j \in submitting \/ (j \in Jobs /\ Known(j)'),
             \A m \in queue' :
               \/ m \in queue
               \/ \E w \in Slots : Active(w) /\ m.job = msg[w].job
               \/ \E j \in submitting : m.job = j,
             \A w \in Slots : Active(w)' =>
               (Active(w) /\ msg'[w] = msg[w]) \/ msg'[w] \in queue,
             \A h \in Handlers : request'[h] # NoRequest =>
               \/ request[h] # NoRequest /\ request'[h].job = request[h].job
               \/ request'[h].job \in Jobs /\ Known(request'[h].job)
      PROVE  WorkHasRow'
  <2>1. /\ \A m \in queue : m.job \in Jobs
        /\ \A w \in Slots : Active(w) => msg[w].job \in Jobs
        /\ \A h \in Handlers : request[h] # NoRequest => request[h].job \in Jobs
    BY DEF Messages, Requests
  <2>2. \A j \in Jobs : Known(j) => Known(j)'
    OBVIOUS
  <2>3. \A j \in submitting' : Known(j)'
    BY <1>1, <2>2 DEF WorkHasRow
  <2>4. \A m \in queue' : Known(m.job)'
    BY <1>1, <2>1, <2>2 DEF WorkHasRow
  <2>5. \A w \in Slots : Active(w)' => Known(msg[w].job)'
    BY <1>1, <2>1, <2>2 DEF WorkHasRow
  <2>6. RequestedExists'
    BY <1>1, <2>1, <2>2 DEF WorkHasRow, RequestedExists
  <2> QED BY <2>3, <2>4, <2>5, <2>6 DEF WorkHasRow
<1>2. ASSUME NEW j \in Jobs, SubmitCommit(j) \/ Dispatch(j) \/ DispatchFails(j)
      PROVE  WorkHasRow'
  BY <1>1, <1>2 DEF SubmitCommit, Dispatch, DispatchFails
<1>3. ASSUME NEW h \in Handlers,
             \/ \E j \in Jobs : CancelLoad(h, j)
             \/ HandlerStep(h) \/ CancelRevokeFails(h)
      PROVE  WorkHasRow'
  <2>1. \A g \in Handlers : request'[g] # NoRequest =>
          \/ request[g] # NoRequest /\ request'[g].job = request[g].job
          \/ request'[g].job \in Jobs /\ Known(request'[g].job)
    BY <1>3 DEF CancelLoad, HandlerStep, CancelCommit, CancelRevoke, CancelRevokeFails,
                Requests, NoRequest, Cancellable
  <2> QED BY <1>1, <1>3, <2>1
          DEF CancelLoad, HandlerStep, CancelCommit, CancelRevoke, CancelRevokeFails
<1>4. ASSUME NEW w \in Slots, SlotStep(w) \/ TaskError(w) \/ KillSlot(w) \/ Redeliver(w)
      PROVE  WorkHasRow'
  <2> USE DEF Finish, Release, Move, ReadStatus, Raise, SendRetry, Retries
  <2>1. CASE Deliver(w) \/ Acknowledge(w)
    BY <1>1, <2>1 DEF Deliver, Acknowledge, Over
  <2>2. CASE MarkRunningRead(w) \/ MarkRunningCommit(w) \/ FetchRangeRaises(w)
    BY <1>1, <2>2 DEF MarkRunningRead, MarkRunningCommit, FetchRangeRaises
  <2>3. CASE AnalysisFails(w) \/ MarkFailedCommit(w)
    BY <1>1, <2>3 DEF AnalysisFails, MarkFailedCommit
  <2>4. CASE FirstGuard(w) \/ Upload(w)
    BY <1>1, <2>4 DEF FirstGuard, Upload
  <2>5. CASE SecondGuard(w) \/ MarkSuccessCommit(w)
    BY <1>1, <2>5 DEF SecondGuard, MarkSuccessCommit
  <2>6. CASE TaskError(w) \/ KillSlot(w) \/ Redeliver(w)
    BY <1>1, <2>6 DEF TaskError, KillSlot, Redeliver
  <2> QED BY <1>4, <2>1, <2>2, <2>3, <2>4, <2>5, <2>6 DEF SlotStep
<1>5. ASSUME NEW c \in Commands, ApplyRevoke(c)
      PROVE  WorkHasRow'
  BY <1>1, <1>5 DEF ApplyRevoke
<1>6. CASE Crash \/ CrashAfterRetry
  BY <1>1, <1>6 DEF Crash, CrashAfterRetry, WorkerDies
<1>7. CASE UNCHANGED vars
  BY <1>1, <1>7 DEF vars
<1> QED BY <1>2, <1>3, <1>4, <1>5, <1>6, <1>7 DEF Next, Misbehave

\* A revocation is asked for, broadcast and remembered for cancelled jobs only.
LEMMA RevokedStep ==
  ASSUME TypeOK, RevokedLeftPending, [Next]_vars
  PROVE  RevokedLeftPending'
<1> USE DEF TypeOK, jobVars, brokerVars, slotVars
<1>1. ASSUME \A h \in Handlers : request'[h].stage = "cancelled" =>
               \/ request[h].stage = "cancelled" /\ request'[h].job = request[h].job
               \/ LeftPending(request[h].job)',
             \A c \in control' :
               c \in control \/ \E h \in Handlers :
                 request[h].stage = "cancelled" /\ c.job = request[h].job,
             \A j \in revoked' : j \in revoked \/ \E c \in control : j = c.job
      PROVE  RevokedLeftPending'
  <2>1. /\ \A c \in control : c.job \in Jobs
        /\ \A h \in Handlers : request[h].stage = "cancelled" => request[h].job \in Jobs
    BY DEF Commands, Requests, NoRequest
  <2>2. \A j \in Jobs : LeftPending(j) => LeftPending(j)'
    BY RowsMoveOn
  <2>3. \A h \in Handlers : request'[h].stage = "cancelled" => LeftPending(request[h].job)'
    BY <1>1, <2>1, <2>2 DEF RevokedLeftPending
  <2>4. \A c \in control' : LeftPending(c.job)'
    BY <1>1, <2>1, <2>2 DEF RevokedLeftPending
  <2>5. \A j \in revoked' : LeftPending(j)'
    BY <1>1, <2>1, <2>2 DEF RevokedLeftPending
  <2> QED BY <2>3, <2>4, <2>5 DEF RevokedLeftPending
<1>2. ASSUME NEW j \in Jobs, SubmitCommit(j) \/ Dispatch(j) \/ DispatchFails(j)
      PROVE  RevokedLeftPending'
  BY <1>1, <1>2 DEF SubmitCommit, Dispatch, DispatchFails
<1>3. ASSUME NEW h \in Handlers, NEW j \in Jobs, CancelLoad(h, j)
      PROVE  RevokedLeftPending'
  BY <1>1, <1>3 DEF CancelLoad
<1>4. ASSUME NEW h \in Handlers, HandlerStep(h) \/ CancelRevokeFails(h)
      PROVE  RevokedLeftPending'
  <2>1. request[h] \in Requests
    BY <1>4 DEF HandlerStep, CancelCommit, CancelRevoke, CancelRevokeFails, NoRequest
  <2>2. CASE CancelCommit(h)
    BY <1>1, <2>1, <2>2 DEF CancelCommit, Requests, LeftPending
  <2>3. CASE CancelRevoke(h) \/ CancelRevokeFails(h)
    BY <1>1, <2>1, <2>3 DEF CancelRevoke, CancelRevokeFails, NoRequest
  <2> QED BY <1>4, <2>2, <2>3 DEF HandlerStep
<1>5. ASSUME NEW w \in Slots, SlotStep(w) \/ TaskError(w) \/ KillSlot(w) \/ Redeliver(w)
      PROVE  RevokedLeftPending'
  <2>1. UNCHANGED <<request, control, revoked>>
    BY <1>5 DEF SlotStep, Deliver, MarkRunningRead, MarkRunningCommit,
                FetchRangeRaises, AnalysisFails, MarkFailedCommit, FirstGuard,
                Upload, SecondGuard, MarkSuccessCommit, Acknowledge,
                TaskError, KillSlot, Redeliver
  <2> QED BY <1>1, <2>1
<1>6. ASSUME NEW c \in Commands, ApplyRevoke(c)
      PROVE  RevokedLeftPending'
  BY <1>1, <1>6 DEF ApplyRevoke
<1>7. CASE Crash \/ CrashAfterRetry
  BY <1>1, <1>7 DEF Crash, CrashAfterRetry, WorkerDies
<1>8. CASE UNCHANGED vars
  BY <1>1, <1>8 DEF vars
<1> QED BY <1>2, <1>3, <1>4, <1>5, <1>6, <1>7, <1>8 DEF Next, Misbehave

\* The only way to stop a task without a retry is to have used all of them.
LEMMA RaiseEnds ==
  ASSUME TypeOK, NEW w \in Slots, Active(w), Raise(w)
  PROVE  \/ /\ msg[w].retries = MaxRetries
            /\ queue' = queue
            /\ pc' = [pc EXCEPT ![w] = "ended"]
            /\ msg' = msg
         \/ \E m \in Messages :
              /\ m.job = msg[w].job /\ m.retries = msg[w].retries + 1
              /\ queue' = queue \cup {m}
              /\ pc' = [pc EXCEPT ![w] = "retried"]
              /\ msg' = msg
<1> USE RetriesAssumption DEF TypeOK, Raise, SendRetry, Finish, Move
<1>1. msg[w] \in Messages
  OBVIOUS
<1>2. CASE Retries(w) = {}
  <2>1. msg[w].retries = MaxRetries
    <3> DEFINE next == [job |-> msg[w].job, retries |-> msg[w].retries + 1]
    <3>1. msg[w].retries # MaxRetries => next \in Messages
      BY <1>1 DEF Messages
    <3>2. next.job = msg[w].job /\ next.retries = msg[w].retries + 1
      OBVIOUS
    <3> HIDE DEF next
    <3> QED BY <1>2, <3>1, <3>2 DEF Retries
  <2> QED BY <1>2, <2>1
<1>3. CASE Retries(w) # {}
  <2>1. PICK m \in Retries(w) : TRUE
    BY <1>3
  <2>2. \A n \in Retries(w) : n = m
    BY <2>1 DEF Retries, Messages
  <2>3. Retries(w) = {m}
    BY <2>1, <2>2
  <2>4. m \in Messages /\ m.job = msg[w].job /\ m.retries = msg[w].retries + 1
    BY <2>1 DEF Retries
  <2> QED BY <1>3, <2>3, <2>4
<1> QED BY <1>2, <1>3

\* Inside a task the status its job was read with is behind it, and a task that
\* ends without a retry leaves a job that is not pending any more.
LEMMA TaskStep ==
  ASSUME TypeOK, WorkHasRow, RetriesArePaid, TaskLeftPending, [Next]_vars
  PROVE  TaskLeftPending'
<1> USE DEF TypeOK, Active, Running, jobVars, brokerVars, slotVars
<1> DEFINE Good(w) ==
      Active(w) =>
        /\ pc[w] \in Running => LeftPending(msg[w].job)
        /\ WithinRetries /\ pc[w] = "ended" => LeftPending(msg[w].job)
<1>1. ASSUME NEW w \in Slots, UNCHANGED <<pc[w], msg[w]>>
      PROVE  Good(w)'
  <2>1. Active(w) => msg[w].job \in Jobs
    BY DEF Messages
  <2> QED BY <1>1, <2>1, RowsMoveOn, FaultsAddUp DEF TaskLeftPending
<1>3. ASSUME NEW w \in Slots, \A v \in Slots \ {w} : UNCHANGED <<pc[v], msg[v]>>, Good(w)'
      PROVE  TaskLeftPending'
  BY <1>3, <1>1 DEF TaskLeftPending
<1>4. ASSUME UNCHANGED <<pc, msg>>
      PROVE  TaskLeftPending'
  BY <1>4, <1>1 DEF TaskLeftPending
<1>5. ASSUME NEW j \in Jobs, SubmitCommit(j) \/ Dispatch(j) \/ DispatchFails(j)
      PROVE  TaskLeftPending'
  BY <1>4, <1>5 DEF SubmitCommit, Dispatch, DispatchFails
<1>6. ASSUME NEW h \in Handlers,
             \/ \E j \in Jobs : CancelLoad(h, j)
             \/ HandlerStep(h) \/ CancelRevokeFails(h)
      PROVE  TaskLeftPending'
  BY <1>4, <1>6
     DEF CancelLoad, HandlerStep, CancelCommit, CancelRevoke, CancelRevokeFails
<1>7. ASSUME NEW w \in Slots, Active(w), Raise(w),
             \/ LeftPending(msg[w].job)
             \/ spent' = [spent EXCEPT !["error"] = @ + 1]
      PROVE  TaskLeftPending'
  <2>1. msg[w] \in Messages /\ msg[w].job \in Jobs
    BY <1>7 DEF Messages
  <2>2. CASE pc' = [pc EXCEPT ![w] = "retried"] /\ msg' = msg
    BY <1>3, <2>2
  <2>3. CASE /\ pc' = [pc EXCEPT ![w] = "ended"] /\ msg' = msg
             /\ msg[w].retries = MaxRetries
    <3>1. CASE LeftPending(msg[w].job)
      BY <1>3, <2>1, <2>3, <3>1, RowsMoveOn
    <3>2. CASE status[msg[w].job] = "pending" /\ ~LeftPending(msg[w].job)
      <4>1. msg[w].retries <= spent["error"]
        BY <1>7, <3>2 DEF RetriesArePaid
      <4>2. spent'["error"] > MaxRetries
        BY <1>7, <2>3, <3>2, <4>1, RetriesAssumption DEF Faults
      <4> QED BY <1>3, <2>3, <4>2, RetriesAssumption, FaultsAddUp DEF WithinRetries, Faults
    <3> QED BY <1>7, <3>1, <3>2 DEF LeftPending, WorkHasRow
  <2> QED BY <1>7, <2>2, <2>3, RaiseEnds
<1>8. ASSUME NEW w \in Slots, SlotStep(w)
      PROVE  TaskLeftPending'
  <2> USE DEF Finish, Release, Move, ReadStatus
  <2>1. CASE Deliver(w)
    BY <1>3, <2>1 DEF Deliver
  <2>2. CASE MarkRunningRead(w)
    <3>1. CASE Raise(w) /\ status[msg[w].job] # "pending"
      BY <1>7, <2>2, <3>1 DEF MarkRunningRead, LeftPending, WorkHasRow
    <3> QED BY <1>3, <2>2, <3>1 DEF MarkRunningRead
  <2>3. CASE MarkRunningCommit(w)
    <3>1. LeftPending(msg[w].job)'
      BY <2>3 DEF MarkRunningCommit, LeftPending, Messages
    <3> QED BY <1>3, <2>3, <3>1 DEF MarkRunningCommit
  <2>4. ASSUME pc[w] \in Running
        PROVE  LeftPending(msg[w].job) /\ msg[w].job \in Jobs
    BY <2>4 DEF TaskLeftPending, Messages
  <2>5. CASE FetchRangeRaises(w)
    BY <1>7, <2>4, <2>5 DEF FetchRangeRaises
  <2>6. CASE AnalysisFails(w) \/ MarkFailedCommit(w)
    BY <1>3, <2>4, <2>6, RowsMoveOn DEF AnalysisFails, MarkFailedCommit
  <2>7. CASE FirstGuard(w) \/ Upload(w)
    BY <1>3, <2>4, <2>7, RowsMoveOn DEF FirstGuard, Upload
  <2>8. CASE SecondGuard(w) \/ MarkSuccessCommit(w)
    BY <1>3, <2>4, <2>8, RowsMoveOn DEF SecondGuard, MarkSuccessCommit
  <2>9. CASE Acknowledge(w)
    BY <1>3, <2>9 DEF Acknowledge
  <2> QED BY <1>8, <2>1, <2>2, <2>3, <2>5, <2>6, <2>7, <2>8, <2>9 DEF SlotStep
<1>9. ASSUME NEW c \in Commands, ApplyRevoke(c)
      PROVE  TaskLeftPending'
  <2>1. \A w \in Slots : ~Active(w)' \/ UNCHANGED <<pc[w], msg[w]>>
    BY <1>9 DEF ApplyRevoke
  <2> QED BY <1>1, <2>1 DEF TaskLeftPending
<1>10. ASSUME NEW w \in Slots, TaskError(w)
       PROVE  TaskLeftPending'
  BY <1>7, <1>10 DEF TaskError, Fault
<1>11. ASSUME NEW w \in Slots, KillSlot(w) \/ Redeliver(w)
       PROVE  TaskLeftPending'
  BY <1>3, <1>4, <1>11 DEF KillSlot, Redeliver, Release, Move
<1>12. CASE Crash \/ CrashAfterRetry
  BY <1>12 DEF Crash, CrashAfterRetry, WorkerDies, TaskLeftPending
<1>13. CASE UNCHANGED vars
  BY <1>4, <1>13 DEF vars
<1> QED BY <1>5, <1>6, <1>8, <1>9, <1>10, <1>11, <1>12, <1>13 DEF Next, Misbehave

\* The retries of the work on a job still pending stay within its errors: a raise
\* that no error caused found the job in another status.
LEMMA PaidStep ==
  ASSUME TypeOK, WorkHasRow, TaskLeftPending, RetriesArePaid, [Next]_vars
  PROVE  RetriesArePaid'
<1> USE DEF TypeOK, Active, jobVars, brokerVars, slotVars
<1> DEFINE Pending(j) == status[j] = "pending"
<1>1. \A j \in Jobs : status[j] # "none" /\ Pending(j)' => Pending(j)
  BY RowsMoveOn DEF LeftPending
<1>2. spent'["error"] \in Nat /\ spent'["error"] >= spent["error"]
  BY FaultsAddUp DEF Faults
<1>3. /\ spent["error"] \in Nat
      /\ \A m \in queue : m \in Messages
      /\ \A m \in Messages : m.job \in Jobs /\ m.retries \in Nat
      /\ \A w \in Slots : Active(w) => msg[w].job \in Jobs /\ msg[w].retries \in Nat
  BY RetriesAssumption DEF Messages, Faults
<1>4. ASSUME \A m \in queue' :
               \/ m \in queue \/ \E w \in Slots : Active(w) /\ m = msg[w]
               \/ Pending(m.job)' => m.retries <= spent'["error"],
             \A w \in Slots : Active(w)' =>
               (Active(w) /\ msg'[w] = msg[w]) \/ msg'[w] \in queue
      PROVE  RetriesArePaid'
  <2>1. \A m \in queue' : Pending(m.job)' => m.retries <= spent'["error"]
    BY <1>1, <1>2, <1>3, <1>4 DEF RetriesArePaid, WorkHasRow
  <2>2. \A w \in Slots : Active(w)' /\ Pending(msg[w].job)' => msg'[w].retries <= spent'["error"]
    BY <1>1, <1>2, <1>3, <1>4 DEF RetriesArePaid, WorkHasRow
  <2> QED BY <2>1, <2>2 DEF RetriesArePaid
<1>5. ASSUME NEW j \in Jobs, SubmitCommit(j) \/ Dispatch(j) \/ DispatchFails(j)
      PROVE  RetriesArePaid'
  BY <1>2, <1>4, <1>5 DEF SubmitCommit, Dispatch, DispatchFails
<1>6. ASSUME NEW h \in Handlers,
             \/ \E j \in Jobs : CancelLoad(h, j)
             \/ HandlerStep(h) \/ CancelRevokeFails(h)
      PROVE  RetriesArePaid'
  BY <1>4, <1>6
     DEF CancelLoad, HandlerStep, CancelCommit, CancelRevoke, CancelRevokeFails
<1>7. ASSUME NEW w \in Slots, Active(w), Raise(w), status' = status,
             \/ LeftPending(msg[w].job)
             \/ spent' = [spent EXCEPT !["error"] = @ + 1]
      PROVE  RetriesArePaid'
  <2>1. UNCHANGED msg /\ \A v \in Slots : Active(v)' => Active(v)
    BY <1>7 DEF Raise, SendRetry, Finish, Move
  <2>2. ASSUME NEW m \in Messages, m.job = msg[w].job, m.retries = msg[w].retries + 1
        PROVE  Pending(m.job)' => m.retries <= spent'["error"]
    BY <1>3, <1>7, <2>2 DEF LeftPending, RetriesArePaid, Faults
  <2> QED BY <1>4, <1>7, <2>1, <2>2, RaiseEnds
<1>8. ASSUME NEW w \in Slots, SlotStep(w)
      PROVE  RetriesArePaid'
  <2> USE DEF Finish, Release, Move, ReadStatus
  <2>1. CASE Deliver(w) \/ Acknowledge(w)
    BY <1>4, <2>1 DEF Deliver, Acknowledge, Over
  <2>2. CASE MarkRunningRead(w)
    <3>1. CASE Raise(w) /\ status[msg[w].job] # "pending"
      BY <1>7, <2>2, <3>1 DEF MarkRunningRead, LeftPending, WorkHasRow
    <3> QED BY <1>4, <2>2, <3>1 DEF MarkRunningRead
  <2>3. CASE FetchRangeRaises(w)
    BY <1>7, <2>3 DEF FetchRangeRaises, TaskLeftPending, Running
  <2>4. CASE MarkRunningCommit(w) \/ AnalysisFails(w) \/ MarkFailedCommit(w)
    BY <1>4, <2>4 DEF MarkRunningCommit, AnalysisFails, MarkFailedCommit
  <2>5. CASE FirstGuard(w) \/ Upload(w)
    BY <1>4, <2>5 DEF FirstGuard, Upload
  <2>6. CASE SecondGuard(w) \/ MarkSuccessCommit(w)
    BY <1>4, <2>6 DEF SecondGuard, MarkSuccessCommit
  <2> QED BY <1>8, <2>1, <2>2, <2>3, <2>4, <2>5, <2>6 DEF SlotStep
<1>9. ASSUME NEW c \in Commands, ApplyRevoke(c)
      PROVE  RetriesArePaid'
  BY <1>4, <1>9 DEF ApplyRevoke
<1>10. ASSUME NEW w \in Slots, TaskError(w)
       PROVE  RetriesArePaid'
  BY <1>7, <1>10 DEF TaskError, Fault
<1>11. ASSUME NEW w \in Slots, KillSlot(w) \/ Redeliver(w)
       PROVE  RetriesArePaid'
  BY <1>4, <1>11 DEF KillSlot, Redeliver, Release, Move
<1>12. CASE Crash \/ CrashAfterRetry
  BY <1>4, <1>12 DEF Crash, CrashAfterRetry, WorkerDies
<1>13. CASE UNCHANGED vars
  BY <1>4, <1>13 DEF vars
<1> QED BY <1>5, <1>6, <1>8, <1>9, <1>10, <1>11, <1>12, <1>13 DEF Next, Misbehave

\* Whoever lets go of a message hands its job on or knows that it is not pending.
LEMMA PendingStep ==
  ASSUME CarrierInvariant, [Next]_vars
  PROVE  PendingHasCarrier'
<1> USE DEF CarrierInvariant, TypeOK, Active, Holds, jobVars, brokerVars, slotVars
<1> DEFINE Carried(j) ==
      j \in submitting \/ (\E m \in queue : m.job = j) \/ \E w \in Slots : Runs(w, j)
<1> SUFFICES ASSUME NEW j \in Jobs, WithinRetries', status'[j] = "pending"
             PROVE  Carried(j)'
  BY DEF PendingHasCarrier
<1>1. WithinRetries
  BY FaultsAddUp
<1>2. ~LeftPending(j)
  BY RowsMoveOn DEF LeftPending
<1>3. CASE status[j] = "none"
  <2>1. ASSUME NEW i \in Jobs, SubmitCommit(i)
        PROVE  Carried(j)'
    BY <1>3, <2>1 DEF SubmitCommit
  <2>2. ASSUME NEW w \in Slots, SlotStep(w)
        PROVE  FALSE
    BY <1>3, <2>2
       DEF SlotStep, Deliver, MarkRunningRead, MarkRunningCommit, FetchRangeRaises,
           AnalysisFails, MarkFailedCommit, FirstGuard, Upload, SecondGuard,
           MarkSuccessCommit, Acknowledge
  <2>3. ASSUME NEW h \in Handlers, (\E i \in Jobs : CancelLoad(h, i)) \/ HandlerStep(h)
        PROVE  FALSE
    BY <1>3, <2>3 DEF CancelLoad, HandlerStep, CancelCommit, CancelRevoke
  <2>4. ASSUME \/ \E c \in Commands : ApplyRevoke(c)
               \/ \E i \in Jobs : Dispatch(i)
               \/ Misbehave \/ UNCHANGED vars
        PROVE  FALSE
    BY <1>3, <2>4 DEF ApplyRevoke, Dispatch, Misbehave, DispatchFails, CancelRevokeFails,
                      TaskError, KillSlot, Redeliver, Crash, CrashAfterRetry, WorkerDies, vars
  <2> QED BY <2>1, <2>2, <2>3, <2>4 DEF Next
<1>4. CASE status[j] # "none"
  <2>1. Carried(j) /\ status[j] = "pending"
    BY <1>1, <1>2, <1>4 DEF PendingHasCarrier, LeftPending
  <2>2. ASSUME NEW i \in Jobs, SubmitCommit(i)
        PROVE  Carried(j)'
    BY <2>1, <2>2 DEF SubmitCommit, Runs
  <2>3. ASSUME NEW i \in Jobs, Dispatch(i)
        PROVE  Carried(j)'
    <3> DEFINE first == [job |-> i, retries |-> 0]
    <3>1. first.job = i /\ queue' = queue \cup {first}
      BY <2>3 DEF Dispatch
    <3> HIDE DEF first
    <3> QED BY <2>1, <2>3, <3>1 DEF Dispatch, Runs
  <2>4. ASSUME \/ \E i \in Jobs : DispatchFails(i)
               \/ \E w \in Slots : KillSlot(w)
        PROVE  FALSE
    BY <2>4 DEF DispatchFails, KillSlot, Fault, WithinRetries, Faults
  <2>5. ASSUME NEW h \in Handlers,
               \/ \E i \in Jobs : CancelLoad(h, i)
               \/ HandlerStep(h) \/ CancelRevokeFails(h)
        PROVE  Carried(j)'
    BY <2>1, <2>5
       DEF CancelLoad, HandlerStep, CancelCommit, CancelRevoke, CancelRevokeFails, Runs
  <2>6. ASSUME NEW w \in Slots, Active(w), Raise(w), submitting' = submitting
        PROVE  Carried(j)'
    <3>1. CASE \E m \in Messages : /\ m.job = msg[w].job
                                   /\ queue' = queue \cup {m}
                                   /\ pc' = [pc EXCEPT ![w] = "retried"]
                                   /\ msg' = msg
      BY <2>1, <2>6, <3>1 DEF Runs
    <3>2. CASE queue' = queue /\ pc' = [pc EXCEPT ![w] = "ended"] /\ msg' = msg
      BY <2>1, <2>6, <3>2 DEF Runs
    <3> QED BY <2>6, <3>1, <3>2, RaiseEnds
  <2>7. ASSUME NEW w \in Slots, SlotStep(w)
        PROVE  Carried(j)'
    <3> USE DEF Finish, Release, Move, ReadStatus
    <3>1. CASE Deliver(w)
      <4>1. PICK m \in queue :
              /\ queue' = queue \ {m}
              /\ \/ m.job \in revoked /\ UNCHANGED slotVars
                 \/ /\ pc' = [pc EXCEPT ![w] = "accepted"]
                    /\ msg' = [msg EXCEPT ![w] = m]
        BY <3>1 DEF Deliver
      <4>2. m.job = j => m.job \notin revoked
        BY <1>2 DEF RevokedLeftPending
      <4>3. pc[w] = "idle" /\ submitting' = submitting
        BY <3>1 DEF Deliver
      <4>4. CASE UNCHANGED slotVars /\ m.job # j
        BY <2>1, <4>1, <4>3, <4>4 DEF Runs
      <4>5. CASE pc' = [pc EXCEPT ![w] = "accepted"] /\ msg' = [msg EXCEPT ![w] = m]
        BY <2>1, <4>1, <4>3, <4>5 DEF Runs
      <4> QED BY <4>1, <4>2, <4>4, <4>5
    <3>2. CASE MarkRunningRead(w)
      <4>1. CASE Raise(w)
        BY <2>6, <3>2, <4>1 DEF MarkRunningRead
      <4> QED BY <2>1, <3>2, <4>1 DEF MarkRunningRead, Runs
    <3>3. CASE FetchRangeRaises(w)
      BY <2>6, <3>3 DEF FetchRangeRaises
    <3>4. CASE MarkRunningCommit(w) \/ AnalysisFails(w) \/ MarkFailedCommit(w)
      BY <2>1, <3>4 DEF MarkRunningCommit, AnalysisFails, MarkFailedCommit, Runs
    <3>5. CASE FirstGuard(w) \/ Upload(w)
      BY <2>1, <3>5 DEF FirstGuard, Upload, Runs
    <3>6. CASE SecondGuard(w) \/ MarkSuccessCommit(w)
      BY <2>1, <3>6 DEF SecondGuard, MarkSuccessCommit, Runs
    <3>7. CASE Acknowledge(w)
      <4>1. pc[w] = "ended" => msg[w].job # j
        BY <1>1, <1>2 DEF TaskLeftPending
      <4> QED BY <2>1, <3>7, <4>1 DEF Acknowledge, Over, Runs
    <3> QED BY <2>7, <3>1, <3>2, <3>3, <3>4, <3>5, <3>6, <3>7 DEF SlotStep
  <2>8. ASSUME NEW c \in Commands, ApplyRevoke(c)
        PROVE  Carried(j)'
    <3>1. c.job # j
      BY <1>2, <2>8 DEF ApplyRevoke, RevokedLeftPending
    <3>2. \A w \in Slots : msg[w].job = j /\ Active(w) => UNCHANGED <<pc[w], msg[w]>>
      BY <2>8, <3>1 DEF ApplyRevoke
    <3>3. UNCHANGED <<submitting, queue>>
      BY <2>8 DEF ApplyRevoke
    <3> QED BY <2>1, <3>2, <3>3 DEF Runs
  <2>9. ASSUME NEW w \in Slots, TaskError(w) \/ Redeliver(w)
        PROVE  Carried(j)'
    BY <2>1, <2>6, <2>9 DEF TaskError, Redeliver, Runs
  <2>10. CASE Crash \/ CrashAfterRetry
    BY <2>1, <2>10 DEF Crash, CrashAfterRetry, WorkerDies, Runs
  <2>11. CASE UNCHANGED vars
    BY <2>1, <2>11 DEF vars, Runs
  <2> QED BY <2>2, <2>3, <2>4, <2>5, <2>7, <2>8, <2>9, <2>10, <2>11 DEF Next, Misbehave
<1> QED BY <1>3, <1>4

\* Whatever is delivered twice, retried, crashes or is cancelled: as long as no
\* message is lost on the way to the broker, no pool process is killed and no more
\* errors happen than a task has retries, no job is left pending with nobody to run it.
THEOREM PendingIsCarried == Spec => []PendingHasCarrier
<1>1. Init => CarrierInvariant
  <2>1. Init => TypeOK
    BY NoMessageAssumption DEF Init, TypeOK, Status, Cancellable, Terminal, Stage,
       Active, Faults, NoRequest
  <2>2. Init => WorkHasRow /\ RevokedLeftPending /\ TaskLeftPending
    BY DEF Init, WorkHasRow, RevokedLeftPending, TaskLeftPending, RequestedExists,
           Active, NoRequest
  <2>3. Init => RetriesArePaid /\ PendingHasCarrier
    BY DEF Init, RetriesArePaid, PendingHasCarrier, Active
  <2> QED BY <2>1, <2>2, <2>3 DEF CarrierInvariant
<1>2. TypeOK' /\ CarrierInvariant /\ [Next]_vars => CarrierInvariant'
  BY WorkHasRowStep, RevokedStep, TaskStep, PaidStep, PendingStep DEF CarrierInvariant
<1>3. CarrierInvariant => PendingHasCarrier
  BY DEF CarrierInvariant
<1> QED BY TypeCorrect, <1>1, <1>2, <1>3, PTL DEF Spec

-----------------------------------------------------------------------------
(* Running jobs, while the broker duplicates nothing.                       *)

\* A slot starts marking only a job that is pending.
LEMMA MarkingBegins ==
  ASSUME TypeOK, [Next]_vars, NEW w \in Slots, NEW j \in Jobs,
         Runs(w, j)', pc'[w] = "marking"
  PROVE  /\ Runs(w, j)
         /\ pc[w] = "marking" \/ (pc[w] = "accepted" /\ status[j] = "pending")
<1> USE DEF TypeOK, Runs, Holds, Active, brokerVars, slotVars
<1>1. ASSUME NEW v \in Slots, SlotStep(v)
      PROVE  /\ Runs(w, j)
             /\ pc[w] = "marking" \/ (pc[w] = "accepted" /\ status[j] = "pending")
  <2> USE <1>1 DEF Move, Finish, Release
  <2>1. CASE Deliver(v) \/ Acknowledge(v)
    BY <2>1 DEF Deliver, Acknowledge
  <2>2. CASE MarkRunningRead(v)
    BY <2>2 DEF MarkRunningRead, Raise, SendRetry
  <2>3. CASE \/ MarkRunningCommit(v) \/ FetchRangeRaises(v) \/ AnalysisFails(v)
             \/ MarkFailedCommit(v) \/ MarkSuccessCommit(v)
    BY <2>3 DEF MarkRunningCommit, FetchRangeRaises, AnalysisFails, MarkFailedCommit,
                MarkSuccessCommit, Raise, SendRetry
  <2>4. CASE FirstGuard(v) \/ Upload(v) \/ SecondGuard(v)
    BY <2>4 DEF FirstGuard, Upload, SecondGuard
  <2> QED BY <1>1, <2>1, <2>2, <2>3, <2>4 DEF SlotStep
<1>2. ASSUME UNCHANGED slotVars
      PROVE  Runs(w, j) /\ pc[w] = "marking"
  BY <1>2
<1>3. ASSUME \/ \E c \in Commands : ApplyRevoke(c)
             \/ \E v \in Slots : TaskError(v) \/ KillSlot(v)
             \/ Crash \/ CrashAfterRetry
      PROVE  Runs(w, j) /\ pc[w] = "marking"
  BY <1>3 DEF ApplyRevoke, TaskError, Raise, SendRetry, Finish, KillSlot, Release, Move,
              Crash, CrashAfterRetry, WorkerDies
<1> QED BY <1>1, <1>2, <1>3
        DEF Next, Misbehave, SubmitCommit, Dispatch, DispatchFails, CancelLoad, HandlerStep,
            CancelCommit, CancelRevoke, CancelRevokeFails, Redeliver, vars

\* Only the commit of mark_running turns a row to running.
LEMMA RunningBegins ==
  ASSUME TypeOK, [Next]_vars, NEW j \in Jobs, status'[j] = "running", status[j] # "running"
  PROVE  \E w \in Slots : /\ MarkRunningCommit(w)
                          /\ Runs(w, j) /\ pc[w] = "marking"
<1> USE DEF TypeOK, Runs, Holds, Active, jobVars
<1>1. ASSUME NEW w \in Slots, SlotStep(w)
      PROVE  MarkRunningCommit(w) /\ msg[w].job = j
  BY <1>1 DEF SlotStep, Deliver, MarkRunningRead, MarkRunningCommit,
              FetchRangeRaises, AnalysisFails, MarkFailedCommit, FirstGuard,
              Upload, SecondGuard, MarkSuccessCommit, Acknowledge
<1>2. \E w \in Slots : SlotStep(w)
  BY DEF Next, Misbehave, SubmitCommit, Dispatch, DispatchFails, CancelLoad, HandlerStep,
         CancelCommit, CancelRevoke, CancelRevokeFails, ApplyRevoke, TaskError, KillSlot,
         Redeliver, Crash, CrashAfterRetry, WorkerDies, vars
<1> QED BY <1>1, <1>2 DEF MarkRunningCommit

\* What was marked running is never marked again, so what was stopped stays so.
LEMMA StoppedStays ==
  ASSUME TypeOK, TypeOK', [Next]_vars, NEW j \in Jobs
  PROVE  /\ Marked(j) => Marked(j)'
         /\ StoppedJob(j) => StoppedJob(j)'
<1>1. ASSUME Marked(j) PROVE Marked(j)'
  <2>1. LeftPending(j)'
    BY <1>1, RowsMoveOn DEF Marked
  <2> QED BY <1>1, <2>1, MarkingBegins DEF Marked, LeftPending
<1>2. ASSUME StoppedJob(j) PROVE StoppedJob(j)'
  BY <1>1, <1>2, RunningBegins DEF StoppedJob, Marked
<1> QED BY <1>1, <1>2

\* A cancel handler asks for a kill only when the job it loaded was running.
LEMMA StoppedStep ==
  ASSUME TypeOK, TypeOK', ExecutionInvariant, StoppedIsOver, [Next]_vars
  PROVE  StoppedIsOver'
<1> USE DEF TypeOK, jobVars, brokerVars, slotVars
<1>1. \A h \in Handlers : request[h] # NoRequest =>
        request[h] \in Requests /\ request[h].job \in Jobs /\ request[h].stage # "idle"
  BY DEF Requests
<1>2. \A c \in control : c.job \in Jobs
  BY DEF Commands
<1>3. ASSUME UNCHANGED request, control' \subseteq control
      PROVE  StoppedIsOver'
  BY <1>1, <1>2, <1>3, StoppedStays DEF StoppedIsOver
<1>4. ASSUME NEW h \in Handlers, NEW j \in Jobs, CancelLoad(h, j)
      PROVE  StoppedIsOver'
  <2>1. /\ request' = [request EXCEPT ![h] = [stage |-> "loaded", job |-> j, seen |-> status[j]]]
        /\ UNCHANGED <<status, control, slotVars>>
    BY <1>4 DEF CancelLoad
  <2>2. status[j] = "running" => Marked(j)
    BY DEF Marked, LeftPending, ExecutionInvariant, OverwritesFresh, Runs, Holds
  <2>3. status[j] = "running" => Marked(j)'
    BY <2>2, StoppedStays
  <2>4. request'[h].job = j /\ request'[h].seen = status[j] /\ request'[h].stage = "loaded"
    BY <2>1
  <2> QED BY <1>1, <1>2, <2>1, <2>3, <2>4, StoppedStays DEF StoppedIsOver
<1>5. ASSUME NEW h \in Handlers, CancelCommit(h)
      PROVE  StoppedIsOver'
  <2> DEFINE j == request[h].job
  <2>1. /\ request[h] # NoRequest /\ request[h].stage = "loaded"
        /\ request' = [request EXCEPT ![h].stage = "cancelled"]
        /\ status' = [status EXCEPT ![j] = "cancelled"]
        /\ UNCHANGED control
    BY <1>5 DEF CancelCommit, NoRequest
  <2>2. j \in Jobs
    BY <1>1, <2>1
  <2>3. /\ request'[h].stage = "cancelled" /\ request'[h].job = j
        /\ request'[h].seen = request[h].seen
    BY <1>1, <2>1 DEF Requests
  <2>4. request[h].seen = "running" => StoppedJob(j)'
    <3>1. request[h].seen = "running" => Marked(j)
      BY <2>1 DEF StoppedIsOver
    <3>2. status'[j] = "cancelled"
      BY <2>1, <2>2
    <3>3. Marked(j) => \A w \in Slots : Runs(w, j)' => pc'[w] # "marking"
      BY <1>5 DEF CancelCommit, Marked, Runs, Holds, Active
    <3> QED BY <2>3, <3>1, <3>2, <3>3 DEF StoppedJob, Marked, LeftPending
  <2> QED BY <1>1, <1>2, <2>1, <2>2, <2>3, <2>4, StoppedStays DEF StoppedIsOver
<1>6. ASSUME NEW h \in Handlers, CancelRevoke(h) \/ CancelRevokeFails(h)
      PROVE  StoppedIsOver'
  <2> DEFINE asked == [job |-> request[h].job, terminate |-> request[h].seen = "running"]
  <2>1. /\ request[h] # NoRequest /\ request[h].stage = "cancelled"
        /\ request' = [request EXCEPT ![h] = NoRequest]
        /\ \A c \in control' : c \in control \/ c = asked
    BY <1>6 DEF CancelRevoke, CancelRevokeFails, NoRequest
  <2>2. asked.job = request[h].job /\ (asked.terminate <=> request[h].seen = "running")
    OBVIOUS
  <2> HIDE DEF asked
  <2> QED BY <1>1, <1>2, <2>1, <2>2, StoppedStays DEF StoppedIsOver
<1>7. ASSUME NEW j \in Jobs, SubmitCommit(j) \/ Dispatch(j) \/ DispatchFails(j)
      PROVE  StoppedIsOver'
  BY <1>3, <1>7 DEF SubmitCommit, Dispatch, DispatchFails
<1>8. ASSUME NEW w \in Slots, SlotStep(w)
      PROVE  StoppedIsOver'
  BY <1>3, <1>8 DEF SlotStep, Deliver, MarkRunningRead, MarkRunningCommit,
              FetchRangeRaises, AnalysisFails, MarkFailedCommit, FirstGuard,
              Upload, SecondGuard, MarkSuccessCommit, Acknowledge
<1>9. ASSUME \/ \E c \in Commands : ApplyRevoke(c)
             \/ \E w \in Slots : TaskError(w) \/ KillSlot(w) \/ Redeliver(w)
             \/ Crash \/ CrashAfterRetry
             \/ UNCHANGED vars
      PROVE  StoppedIsOver'
  BY <1>3, <1>9 DEF ApplyRevoke, TaskError, KillSlot, Redeliver, Crash, CrashAfterRetry,
              WorkerDies, vars
<1> QED BY <1>4, <1>5, <1>6, <1>7, <1>8, <1>9 DEF Next, HandlerStep, Misbehave

\* The slot that marked a job running keeps it until it writes an outcome.
LEMMA RunningStep ==
  ASSUME TypeOK, TypeOK', ExecutionInvariant, StoppedIsOver, RunningHasSlot, [Next]_vars
  PROVE  RunningHasSlot'
<1> SUFFICES ASSUME NEW j \in Jobs \ RangedJobs, Undisturbed', status'[j] = "running"
             PROVE  \E w \in Slots : Runs(w, j)' /\ WillFinish(w)'
  BY DEF RunningHasSlot
<1> USE DEF TypeOK, Runs, Holds, Active, WillFinish, Running
<1>1. Undisturbed /\ \A k \in Faults \ {"broker"} : ~Fault(k)
  BY FaultsAddUp DEF Undisturbed, Fault, Faults
<1>2. CASE status[j] # "running"
  <2>1. PICK w \in Slots : MarkRunningCommit(w) /\ Runs(w, j)
    BY <1>2, RunningBegins
  <2> QED BY <2>1 DEF MarkRunningCommit, Move
<1>3. CASE status[j] = "running"
  <2>1. PICK w \in Slots : Runs(w, j) /\ WillFinish(w)
    BY <1>1, <1>3 DEF RunningHasSlot
  <2>2. ASSUME NEW v \in Slots \ {w}, SlotStep(v)
        PROVE  Runs(w, j)' /\ WillFinish(w)'
    BY <2>1, <2>2
       DEF SlotStep, Deliver, MarkRunningRead, MarkRunningCommit, FetchRangeRaises,
           AnalysisFails, MarkFailedCommit, FirstGuard, Upload, SecondGuard,
           MarkSuccessCommit, Acknowledge, Raise, SendRetry, Finish, Release, Move,
           ReadStatus, slotVars
  <2>3. CASE SlotStep(w)
    <3>1. CASE \/ Deliver(w) \/ Acknowledge(w) \/ MarkRunningRead(w)
               \/ MarkRunningCommit(w) \/ FetchRangeRaises(w)
      BY <2>1, <3>1 DEF Deliver, Acknowledge, MarkRunningRead, MarkRunningCommit,
                        FetchRangeRaises, Over
    <3>2. CASE AnalysisFails(w)
      BY <1>3, <2>1, <3>2 DEF AnalysisFails, Move, ReadStatus
    <3>3. CASE FirstGuard(w) \/ Upload(w) \/ SecondGuard(w)
      BY <1>3, <2>1, <3>3 DEF FirstGuard, Upload, SecondGuard, Move, ReadStatus, Finish
    <3>4. CASE MarkFailedCommit(w) \/ MarkSuccessCommit(w)
      BY <2>1, <3>4 DEF MarkFailedCommit, MarkSuccessCommit
    <3> QED BY <2>3, <3>1, <3>2, <3>3, <3>4 DEF SlotStep
  <2>4. ASSUME NEW c \in Commands, ApplyRevoke(c)
        PROVE  Runs(w, j)' /\ WillFinish(w)'
    <3>1. ~(c.terminate /\ Holds(w, c.job))
      BY <1>3, <2>1, <2>4 DEF ApplyRevoke, StoppedIsOver, StoppedJob
    <3> QED BY <2>1, <2>4, <3>1 DEF ApplyRevoke
  <2>5. CASE UNCHANGED slotVars
    BY <2>1, <2>5 DEF slotVars
  <2>6. CASE Misbehave
    <3>1. \/ \E i \in Jobs : DispatchFails(i)
          \/ \E h \in Handlers : CancelRevokeFails(h)
      BY <1>1, <2>6 DEF Misbehave, TaskError, KillSlot, Redeliver, Crash, CrashAfterRetry,
                        Faults
    <3> QED BY <2>5, <3>1 DEF DispatchFails, CancelRevokeFails
  <2> QED BY <2>1, <2>2, <2>3, <2>4, <2>5, <2>6
          DEF Next, SubmitCommit, Dispatch, CancelLoad, HandlerStep, CancelCommit,
              CancelRevoke, vars
<1> QED BY <1>2, <1>3

\* While nothing fails or is delivered twice, no cancellation leaves a job running
\* with no slot to finish it, whenever it is asked for.
THEOREM RunningIsExecuted ==
  ASSUME Budget["duplicate"] = 0
  PROVE  Spec => []RunningHasSlot
<1>1. Init => StoppedIsOver /\ RunningHasSlot
  BY DEF Init, StoppedIsOver, RunningHasSlot
<1>2. /\ TypeOK /\ TypeOK' /\ ExecutionInvariant /\ StoppedIsOver /\ RunningHasSlot
      /\ [Next]_vars
      => StoppedIsOver' /\ RunningHasSlot'
  BY StoppedStep, RunningStep
<1> QED BY TypeCorrect, ExecutionSafe, <1>1, <1>2, PTL DEF Spec
=============================================================================
