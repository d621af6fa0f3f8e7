---------------------------- MODULE AnalysisJob ----------------------------
(***************************************************************************)
(* The life of an analysis job: the HTTP handlers that submit and cancel   *)
(* it (app/routers/analysis.py), the Celery task that runs it              *)
(* (app/tasks/analysis_tasks.py), the row both of them write through       *)
(* app/services/analysis_service.py, the broker between them, and the      *)
(* object store that keeps the artifact.                                   *)
(*                                                                         *)
(* Every database transaction is a read step and a commit step, because    *)
(* the code reads the row, decides, and updates it by primary key: under   *)
(* READ COMMITTED nothing re-checks what was read.  SQLAlchemy writes a    *)
(* column only when the new value differs from the value loaded.           *)
(***************************************************************************)
EXTENDS Naturals

CONSTANTS
  Jobs,        \* ids of rows of analysis_jobs
  Slots,       \* pool processes of the worker (celery worker -c 4)
  Handlers,    \* concurrent executions of POST /jobs/{id}/cancel
  RangedJobs,  \* jobs whose params carry start and end
  MaxRetries,  \* max_retries of run_analysis_job
  Budget,      \* how often the environment may misbehave, by kind
  NoMessage    \* what an idle slot holds

Faults == {"error", "broker", "crash", "kill", "duplicate"}

Messages == [job : Jobs, retries : 0..MaxRetries]

ASSUME RetriesAssumption == MaxRetries \in Nat
ASSUME RangedAssumption == RangedJobs \subseteq Jobs
ASSUME BudgetAssumption == Budget \in [Faults -> Nat]
ASSUME NoMessageAssumption == NoMessage \notin Messages

VARIABLES
  status,      \* the status column, "none" before the row exists
  resultKey,   \* jobs whose result_key column is set
  objects,     \* jobs whose artifact is in MinIO under analysis/{id}/...
  submitting,  \* jobs committed by submit_job and not yet handed to Celery
  queue,       \* messages of the analysis queue
  control,     \* revoke commands broadcast and not yet received
  revoked,     \* the worker's in-memory set of revoked task ids
  pc,          \* where each slot is in run_analysis_job
  msg,         \* the message each slot is executing
  seen,        \* the status each slot read last
  keyed,       \* slots whose plugin produced an artifact
  request,     \* each cancel handler: its stage, its job and the status it loaded
  spent        \* how often each kind of fault has happened

jobVars == <<status, resultKey, objects>>
brokerVars == <<submitting, queue, control, revoked>>
slotVars == <<pc, msg, seen, keyed>>
vars == <<jobVars, brokerVars, slotVars, request, spent>>

Cancellable == {"pending", "running"}
Terminal == {"success", "failed", "cancelled"}
Status == {"none"} \cup Cancellable \cup Terminal

\* accepted: the message is taken, the row not yet read by mark_running
\* marking, succeeding, failing: a row was read and its update not committed
\* analysing: mark_running committed; guarded, stored: past a cancel guard
\* ended, retried: the task is over, a retry was sent; its message is still to be
\* acknowledged
Stage == {"idle", "accepted", "marking", "analysing", "guarded", "stored",
          "succeeding", "failing", "ended", "retried"}
Over == {"ended", "retried"}
Running == {"analysing", "guarded", "stored", "succeeding", "failing"}

Commands == [job : Jobs, terminate : BOOLEAN]
NoRequest == [stage |-> "idle"]
Requests == [stage : {"loaded", "cancelled"}, job : Jobs, seen : Cancellable]

Active(w) == pc[w] # "idle"
Holds(w, j) == Active(w) /\ msg[w].job = j
\* The slot's message is the only one of the job: no retry replaced it.
Runs(w, j) == Holds(w, j) /\ pc[w] # "retried"

TypeOK ==
  /\ status \in [Jobs -> Status]
  /\ resultKey \subseteq Jobs
  /\ objects \subseteq Jobs
  /\ submitting \subseteq Jobs
  /\ queue \subseteq Messages
  /\ control \subseteq Commands
  /\ revoked \subseteq Jobs
  /\ pc \in [Slots -> Stage]
  /\ msg \in [Slots -> Messages \cup {NoMessage}]
  /\ \A w \in Slots : Active(w) => msg[w] \in Messages
  /\ seen \in [Slots -> Status]
  /\ keyed \subseteq Slots
  /\ request \in [Handlers -> Requests \cup {NoRequest}]
  /\ spent \in [Faults -> Nat]

Init ==
  /\ status = [j \in Jobs |-> "none"]
  /\ resultKey = {}
  /\ objects = {}
  /\ submitting = {}
  /\ queue = {}
  /\ control = {}
  /\ revoked = {}
  /\ pc = [w \in Slots |-> "idle"]
  /\ msg = [w \in Slots |-> NoMessage]
  /\ seen = [w \in Slots |-> "none"]
  /\ keyed = {}
  /\ request = [h \in Handlers |-> NoRequest]
  /\ spent = [k \in Faults |-> 0]

Fault(k) ==
  /\ spent[k] < Budget[k]
  /\ spent' = [spent EXCEPT ![k] = @ + 1]

-----------------------------------------------------------------------------
(* POST /analysis/jobs: the row is committed first, the message sent after. *)

SubmitCommit(j) ==
  /\ status[j] = "none"
  /\ status' = [status EXCEPT ![j] = "pending"]
  /\ submitting' = submitting \cup {j}
  /\ UNCHANGED <<resultKey, objects, queue, control, revoked, slotVars, request, spent>>

Dispatch(j) ==
  /\ j \in submitting
  /\ submitting' = submitting \ {j}
  /\ queue' = queue \cup {[job |-> j, retries |-> 0]}
  /\ UNCHANGED <<jobVars, control, revoked, slotVars, request, spent>>

\* apply_async raised and the exception was only logged.
DispatchFails(j) ==
  /\ j \in submitting
  /\ Fault("broker")
  /\ submitting' = submitting \ {j}
  /\ UNCHANGED <<jobVars, queue, control, revoked, slotVars, request>>

-----------------------------------------------------------------------------
(* POST /analysis/jobs/{id}/cancel.  The route loads the row, awaits two    *)
(* permission queries, and cancel_job's get_job returns the same loaded     *)
(* object from the session's identity map: the status tested is the one     *)
(* loaded first.  Statuses outside CANCELLABLE answer 409.                  *)

CancelLoad(h, j) ==
  /\ request[h] = NoRequest
  /\ status[j] \in Cancellable
  /\ request' = [request EXCEPT ![h] =
       [stage |-> "loaded", job |-> j, seen |-> status[j]]]
  /\ UNCHANGED <<jobVars, brokerVars, slotVars, spent>>

CancelCommit(h) ==
  /\ request[h].stage = "loaded"
  /\ status' = [status EXCEPT ![request[h].job] = "cancelled"]
  /\ request' = [request EXCEPT ![h].stage = "cancelled"]
  /\ UNCHANGED <<resultKey, objects, brokerVars, slotVars, spent>>

CancelRevoke(h) ==
  /\ request[h].stage = "cancelled"
  /\ control' = control \cup
       {[job |-> request[h].job, terminate |-> request[h].seen = "running"]}
  /\ request' = [request EXCEPT ![h] = NoRequest]
  /\ UNCHANGED <<jobVars, submitting, queue, revoked, slotVars, spent>>

\* control.revoke raised: the cancellation stays committed, nobody is told.
CancelRevokeFails(h) ==
  /\ request[h].stage = "cancelled"
  /\ Fault("broker")
  /\ request' = [request EXCEPT ![h] = NoRequest]
  /\ UNCHANGED <<jobVars, brokerVars, slotVars>>

-----------------------------------------------------------------------------
(* The worker.  A task that ends, for whatever reason, leaves its message   *)
(* to be acknowledged (task_acks_late).                                     *)

Move(w, stage) == pc' = [pc EXCEPT ![w] = stage]

Finish(w, stage) ==
  /\ Move(w, stage)
  /\ seen' = [seen EXCEPT ![w] = "none"]
  /\ keyed' = keyed \ {w}
  /\ UNCHANGED msg

Release(w) ==
  /\ Move(w, "idle")
  /\ msg' = [msg EXCEPT ![w] = NoMessage]
  /\ seen' = [seen EXCEPT ![w] = "none"]
  /\ keyed' = keyed \ {w}

ReadStatus(w) == seen' = [seen EXCEPT ![w] = status[msg[w].job]]

\* A message whose task id is revoked is dropped on arrival.
Deliver(w) ==
  /\ pc[w] = "idle"
  /\ \E m \in queue :
       /\ queue' = queue \ {m}
       /\ IF m.job \in revoked
          THEN UNCHANGED slotVars
          ELSE /\ Move(w, "accepted")
               /\ msg' = [msg EXCEPT ![w] = m]
               /\ UNCHANGED <<seen, keyed>>
  /\ UNCHANGED <<jobVars, submitting, control, revoked, request, spent>>

Acknowledge(w) ==
  /\ pc[w] \in Over
  /\ Release(w)
  /\ UNCHANGED <<jobVars, brokerVars, request, spent>>

Retries(w) == {m \in Messages : m.job = msg[w].job /\ m.retries = msg[w].retries + 1}
SendRetry(w, again) ==
  /\ queue' = queue \cup again
  /\ Finish(w, IF again = {} THEN "ended" ELSE "retried")

\* Mutants of Raise: the retry carries on without stopping the attempt; the
\* retries are not counted; the last permitted retry is not made.
RaiseCarriesOn(w) == queue' = queue \cup Retries(w) /\ UNCHANGED slotVars
RaiseUncounted(w) == SendRetry(w, {[msg[w] EXCEPT !.retries = @ + 1]})
RaiseOneShort(w) == SendRetry(w, {m \in Retries(w) : m.retries < MaxRetries})

\* `except Exception as exc: raise self.retry(exc=exc)` : a new message with
\* the same task id until the retries are used up, then nothing.
Raise(w) == SendRetry(w, Retries(w))

\* Mutant of MarkRunningRead: the status is not tested.
MarkRunningUntested(w) ==
  /\ pc[w] = "accepted"
  /\ Move(w, "marking")
  /\ ReadStatus(w)
  /\ UNCHANGED <<jobVars, brokerVars, msg, keyed, request, spent>>

\* mark_running reads the row.  A status other than pending raises
\* celery.exceptions.Ignore, an Exception like any other to run_analysis_job.
MarkRunningRead(w) ==
  /\ pc[w] = "accepted"
  /\ \/ /\ status[msg[w].job] = "pending"
        /\ Move(w, "marking")
        /\ ReadStatus(w)
        /\ UNCHANGED <<queue, msg, keyed>>
     \/ /\ status[msg[w].job] # "pending"
        /\ Raise(w)
  /\ UNCHANGED <<jobVars, submitting, control, revoked, request, spent>>

MarkRunningCommit(w) ==
  /\ pc[w] = "marking"
  /\ status' = [status EXCEPT ![msg[w].job] = "running"]
  /\ Move(w, "analysing")
  /\ UNCHANGED <<resultKey, objects, brokerVars, msg, seen, keyed, request, spent>>

\* asyncpg refuses the ISO strings of a time range: _fetch_samples raises
\* outside every handler of _run.
FetchRangeRaises(w) ==
  /\ pc[w] = "analysing"
  /\ msg[w].job \in RangedJobs
  /\ Raise(w)
  /\ UNCHANGED <<jobVars, submitting, control, revoked, request, spent>>

\* Mutant of AnalysisFails: the exception is logged and the row left alone.
AnalysisFailsSilently(w) ==
  /\ pc[w] = "analysing"
  /\ Finish(w, "ended")
  /\ UNCHANGED <<jobVars, brokerVars, request, spent>>

\* Unknown plugin, wrong channel count, bad channels, too few samples, or an
\* exception of plugin.analyze: mark_failed reads the row.
AnalysisFails(w) ==
  /\ pc[w] = "analysing"
  /\ Move(w, "failing")
  /\ ReadStatus(w)
  /\ UNCHANGED <<jobVars, brokerVars, msg, keyed, request, spent>>

\* mark_failed tests nothing; it writes unless the row already said failed.
MarkFailedCommit(w) ==
  /\ pc[w] = "failing"
  /\ status' = IF seen[w] = "failed" THEN status
               ELSE [status EXCEPT ![msg[w].job] = "failed"]
  /\ Finish(w, "ended")
  /\ UNCHANGED <<resultKey, objects, brokerVars, request, spent>>

\* plugin.analyze returned; the first guard reads the row in its own session.
FirstGuard(w) ==
  /\ pc[w] = "analysing"
  /\ msg[w].job \notin RangedJobs
  /\ \/ /\ status[msg[w].job] = "cancelled"
        /\ Finish(w, "ended")
     \/ /\ status[msg[w].job] # "cancelled"
        /\ \/ Move(w, "guarded") /\ keyed' = keyed \cup {w}
           \/ Move(w, "stored") /\ keyed' = keyed
        /\ UNCHANGED <<msg, seen>>
  /\ UNCHANGED <<jobVars, brokerVars, request, spent>>

\* Mutant of Upload: an error of put_bytes is swallowed.
UploadSwallowed(w) ==
  /\ pc[w] = "guarded"
  /\ Move(w, "stored")
  /\ UNCHANGED <<jobVars, brokerVars, msg, seen, keyed, request, spent>>

Upload(w) ==
  /\ pc[w] = "guarded"
  /\ objects' = objects \cup {msg[w].job}
  /\ Move(w, "stored")
  /\ UNCHANGED <<status, resultKey, brokerVars, msg, seen, keyed, request, spent>>

\* Mutant of SecondGuard: the cancellation during the upload is not looked for.
SecondGuardDropped(w) ==
  /\ pc[w] = "stored"
  /\ Move(w, "succeeding")
  /\ ReadStatus(w)
  /\ UNCHANGED <<jobVars, brokerVars, msg, keyed, request, spent>>

\* The second guard.  mark_success's get_job then returns the same loaded row,
\* so this read is the only one before the update.
SecondGuard(w) ==
  /\ pc[w] = "stored"
  /\ \/ /\ status[msg[w].job] = "cancelled"
        /\ Finish(w, "ended")
     \/ /\ status[msg[w].job] # "cancelled"
        /\ Move(w, "succeeding")
        /\ ReadStatus(w)
        /\ UNCHANGED <<msg, keyed>>
  /\ UNCHANGED <<jobVars, brokerVars, request, spent>>

MarkSuccessCommit(w) ==
  /\ pc[w] = "succeeding"
  /\ status' = IF seen[w] = "success" THEN status
               ELSE [status EXCEPT ![msg[w].job] = "success"]
  /\ resultKey' = IF w \in keyed THEN resultKey \cup {msg[w].job}
                  ELSE resultKey \ {msg[w].job}
  /\ Finish(w, "ended")
  /\ UNCHANGED <<objects, brokerVars, request, spent>>

\* A database or object-store call of _run raised; nothing is committed.
TaskError(w) ==
  /\ pc[w] \notin Over \cup {"idle"}
  /\ Fault("error")
  /\ Raise(w)
  /\ UNCHANGED <<jobVars, submitting, control, revoked, request>>

-----------------------------------------------------------------------------
(* Revocation and the failures of the worker and the broker.                *)

ApplyRevoke(c) ==
  /\ c \in control
  /\ control' = control \ {c}
  /\ revoked' = revoked \cup {c.job}
  /\ LET killed == {w \in Slots : c.terminate /\ Holds(w, c.job)}
     IN /\ pc' = [w \in Slots |-> IF w \in killed THEN "idle" ELSE pc[w]]
        /\ msg' = [w \in Slots |-> IF w \in killed THEN NoMessage ELSE msg[w]]
        /\ seen' = [w \in Slots |-> IF w \in killed THEN "none" ELSE seen[w]]
        /\ keyed' = keyed \ killed
  /\ UNCHANGED <<jobVars, submitting, queue, request, spent>>

\* The worker dies: unacknowledged messages come back, its memory does not.
WorkerDies ==
  /\ queue' = queue \cup {msg[w] : w \in {v \in Slots : Active(v)}}
  /\ control' = {}
  /\ revoked' = {}
  /\ pc' = [w \in Slots |-> "idle"]
  /\ msg' = [w \in Slots |-> NoMessage]
  /\ seen' = [w \in Slots |-> "none"]
  /\ keyed' = {}
  /\ UNCHANGED <<jobVars, submitting, request>>

Crash ==
  /\ \A w \in Slots : pc[w] # "retried"
  /\ Fault("crash")
  /\ WorkerDies

\* When it dies between sending a retry and acknowledging the message that raised,
\* the broker delivers both.
CrashAfterRetry ==
  /\ \E w \in Slots : pc[w] = "retried"
  /\ Fault("duplicate")
  /\ WorkerDies

\* A pool process is killed (out of memory): the worker acknowledges its message.
KillSlot(w) ==
  /\ Active(w)
  /\ Fault("kill")
  /\ Release(w)
  /\ UNCHANGED <<jobVars, brokerVars, request>>

\* The Redis visibility timeout expires on a message not yet acknowledged.
Redeliver(w) ==
  /\ Active(w)
  /\ Fault("duplicate")
  /\ queue' = queue \cup {msg[w]}
  /\ UNCHANGED <<jobVars, submitting, control, revoked, slotVars, request>>

-----------------------------------------------------------------------------
SlotStep(w) ==
  \/ Deliver(w) \/ MarkRunningRead(w) \/ MarkRunningCommit(w)
  \/ FetchRangeRaises(w) \/ AnalysisFails(w) \/ MarkFailedCommit(w)
  \/ FirstGuard(w) \/ Upload(w) \/ SecondGuard(w) \/ MarkSuccessCommit(w)
  \/ Acknowledge(w)

HandlerStep(h) == CancelCommit(h) \/ CancelRevoke(h)

Misbehave ==
  \/ \E j \in Jobs : DispatchFails(j)
  \/ \E h \in Handlers : CancelRevokeFails(h)
  \/ \E w \in Slots : TaskError(w) \/ KillSlot(w) \/ Redeliver(w)
  \/ Crash \/ CrashAfterRetry

Next ==
  \/ \E j \in Jobs : SubmitCommit(j) \/ Dispatch(j)
  \/ \E h \in Handlers : (\E j \in Jobs : CancelLoad(h, j)) \/ HandlerStep(h)
  \/ \E w \in Slots : SlotStep(w)
  \/ \E c \in Commands : ApplyRevoke(c)
  \/ Misbehave

Spec == Init /\ [][Next]_vars

\* A started handler runs to its end, a free slot takes a waiting message, a
\* running task goes on, and the worker reads its control queue.  Nobody has
\* to submit or cancel, and no fault has to happen.
Fairness ==
  /\ \A j \in Jobs : WF_vars(Dispatch(j))
  /\ \A h \in Handlers : WF_vars(HandlerStep(h))
  /\ \A w \in Slots : WF_vars(SlotStep(w))
  /\ WF_vars(\E c \in Commands : ApplyRevoke(c))

FairSpec == Spec /\ Fairness

-----------------------------------------------------------------------------
(* Properties that hold.                                                    *)

\* While the broker holds a message of a job once at a time, no two pool processes
\* execute the same job: not after a retry, a crash or a redelivery.
AtMostOneExecutor ==
  \A v, w \in Slots, j \in Jobs : Runs(v, j) /\ Runs(w, j) => v = w

\* A result that GET /jobs/{id}/result would serve is in the object store.
ResultReady(j) == status[j] = "success" /\ j \in resultKey
ServedResultIsStored == \A j \in Jobs : ResultReady(j) => j \in objects

\* As long as the broker took every message, no pool process was killed and no
\* task raised more often than it may be retried, a pending job is about to be
\* dispatched, waits in the queue or is in a slot: neither retries, nor a crash,
\* nor revoking other jobs leaves it behind.
WithinRetries ==
  spent["broker"] = 0 /\ spent["kill"] = 0 /\ spent["error"] <= MaxRetries
PendingHasCarrier ==
  \A j \in Jobs : WithinRetries /\ status[j] = "pending" =>
    \/ j \in submitting
    \/ \E m \in queue : m.job = j
    \/ \E w \in Slots : Runs(w, j)

\* Once a cancellation is committed and no slot holds a row read before it, no
\* later step of any slot, handler or crash turns the job into a running or
\* successful one.
CancelSettled(j) ==
  /\ status[j] \in {"cancelled", "failed"}
  /\ \A w \in Slots : Runs(w, j) => pc[w] \notin {"marking", "succeeding"}
CancelIsFinal == [][\A j \in Jobs : CancelSettled(j) => CancelSettled(j)']_vars

\* While the broker holds a message of a job once at a time, the status column follows
\* the lifecycle of JobLifecycle, whatever fails, is retried, crashes, is killed
\* or is cancelled: no finished job starts again and no outcome replaces another.
Lifecycle == INSTANCE JobLifecycle WITH Jobs <- Jobs, status <- status
ImplementsLifecycle == Lifecycle!Spec

\* Unless a call fails, a process dies or a message is duplicated, every submitted job
\* ends, except one with a time range.  That one fails if its plugin or channels are
\* refused and ends if it is cancelled; otherwise _fetch_samples raises outside every
\* handler of _run after mark_running was committed, each retry is refused by
\* mark_running, and when the last one is acknowledged the row still says running and
\* nothing of the job is left that would ever change it: that it is left so, and in no
\* other way, is part of the property.
LeftRunning(j) ==
  /\ status[j] = "running"
  /\ j \notin submitting
  /\ \A m \in queue : m.job # j
  /\ \A w \in Slots : ~Holds(w, j)
EveryJobSettles ==
  \A j \in Jobs : (status[j] \in Cancellable) ~>
    \/ status[j] \in Terminal
    \/ j \in RangedJobs /\ LeftRunning(j)
    \/ \E k \in Faults : spent[k] > 0

-----------------------------------------------------------------------------
(* The inductive invariant behind the safety properties: a job has at most  *)
(* one carrier (its submitter, one message or one slot), and what a slot is *)
(* about to write over depends on how far it is.                            *)

OneMessage == \A m, n \in queue : m.job = n.job => m = n
MessageOrSlot == \A m \in queue, w \in Slots : ~Runs(w, m.job)
NoneBeforeDispatch ==
  /\ \A j \in submitting : status[j] # "none"
  /\ \A j \in Jobs : status[j] = "none" \/ j \in submitting =>
       /\ \A m \in queue : m.job # j
       /\ \A w \in Slots : ~Runs(w, j)
OneCarrier ==
  OneMessage /\ AtMostOneExecutor /\ MessageOrSlot /\ NoneBeforeDispatch

OverwritesFresh ==
  \A w \in Slots : Active(w) =>
    /\ pc[w] = "marking" => status[msg[w].job] \in {"pending", "cancelled"}
    /\ pc[w] \in Running => status[msg[w].job] \in {"running", "cancelled"}

\* Only slots past the first guard are keyed, those past the upload have their
\* artifact stored, and so has every committed key.
KeyedIsStored ==
  /\ \A w \in keyed : /\ pc[w] \in {"guarded", "stored", "succeeding"}
                      /\ pc[w] # "guarded" => msg[w].job \in objects
  /\ resultKey \subseteq objects

\* A cancel handler works on a job that was submitted.
RequestedExists ==
  \A h \in Handlers : request[h] # NoRequest => status[request[h].job] # "none"

ExecutionInvariant == TypeOK /\ OneCarrier /\ OverwritesFresh /\ RequestedExists

-----------------------------------------------------------------------------
(* The inductive invariant behind PendingHasCarrier, with or without        *)
(* duplicates: nothing puts a row back to pending, so whoever may drop a     *)
(* message does it for a job that left that status, and the retries of a     *)
(* job still pending are paid for by errors.                                *)

LeftPending(j) == status[j] \notin {"none", "pending"}

\* Whatever the broker, a slot or a handler works on was committed before.
WorkHasRow ==
  /\ \A j \in submitting : status[j] # "none"
  /\ \A m \in queue : status[m.job] # "none"
  /\ \A w \in Slots : Active(w) => status[msg[w].job] # "none"
  /\ RequestedExists

\* A revocation follows its committed cancellation.
RevokedLeftPending ==
  /\ \A h \in Handlers : request[h].stage = "cancelled" => LeftPending(request[h].job)
  /\ \A c \in control : LeftPending(c.job)
  /\ \A j \in revoked : LeftPending(j)

\* A task writes its outcome after mark_running, and one that gives up on a
\* pending job was raised by more errors than it has retries.
TaskLeftPending ==
  \A w \in Slots : Active(w) =>
    /\ pc[w] \in Running => LeftPending(msg[w].job)
    /\ WithinRetries /\ pc[w] = "ended" => LeftPending(msg[w].job)

\* Only an error makes a task retry a job that is still pending.
RetriesArePaid ==
  /\ \A m \in queue : status[m.job] = "pending" => m.retries <= spent["error"]
  /\ \A w \in Slots : Active(w) /\ status[msg[w].job] = "pending" =>
       msg[w].retries <= spent["error"]

CarrierInvariant ==
  /\ TypeOK /\ WorkHasRow /\ RevokedLeftPending /\ TaskLeftPending
  /\ RetriesArePaid /\ PendingHasCarrier

-----------------------------------------------------------------------------
(* The safety half of EveryJobSettles: a running job is in a slot that will *)
(* write its outcome.                                                       *)

\* Unless a call fails, a process dies or a message is delivered twice, a job whose
\* row says running is in the slot that marked it: no cancellation, at whatever
\* moment it commits and however late its revocation arrives, stops that slot and
\* leaves the row running.  Jobs with a time range do not get that far.
WillFinish(w) ==
  /\ pc[w] \in Running
  /\ pc[w] \in {"succeeding", "failing"} => seen[w] \notin {"success", "failed"}
Undisturbed == \A k \in Faults \ {"broker"} : spent[k] = 0
RunningHasSlot ==
  \A j \in Jobs \ RangedJobs : Undisturbed /\ status[j] = "running" =>
    \E w \in Slots : Runs(w, j) /\ WillFinish(w)

\* A revocation that kills was asked for a job that had been marked running, which
\* nothing marks running again.
Marked(j) == /\ LeftPending(j)
             /\ \A w \in Slots : Runs(w, j) => pc[w] # "marking"
StoppedJob(j) == Marked(j) /\ status[j] # "running"
StoppedIsOver ==
  /\ \A h \in Handlers : request[h] # NoRequest /\ request[h].seen = "running" =>
       IF request[h].stage = "cancelled" THEN StoppedJob(request[h].job)
       ELSE Marked(request[h].job)
  /\ \A c \in control : c.terminate => StoppedJob(c.job)

RunningInvariant == ExecutionInvariant /\ StoppedIsOver /\ RunningHasSlot
=============================================================================
