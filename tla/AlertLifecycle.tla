--------------------------- MODULE AlertLifecycle ---------------------------
(***************************************************************************)
(* The threshold alerts of one channel: the Celery task that reconciles    *)
(* them with a batch of readings (app/tasks/alert_tasks.py), the row       *)
(* operations it calls (app/services/alert_service.py) and the             *)
(* acknowledgement by an administrator (app/routers/alerts.py).            *)
(*                                                                         *)
(* A reading is its timestamp and the levels whose rules it fires.  The    *)
(* alerts table has no unique constraint, every alert is committed in a    *)
(* transaction of its own, and all transactions of a batch share one       *)
(* SQLAlchemy session: a row that the task still references is not         *)
(* refreshed by a later query, and a column is written only when its new   *)
(* value differs from the one in memory.                                   *)
(***************************************************************************)
EXTENDS Naturals, Sequences

CONSTANTS
  Levels,      \* alert levels: info, warning, danger
  Batches,     \* the sequences of readings that may be dispatched
  Suppress,    \* suppress_seconds of the rule of each level
  Workers,     \* pool processes that run check_threshold_batch
  Admins,      \* users who may acknowledge, one request each at a time
  MaxTasks,    \* how many batches are dispatched
  MaxRetries,  \* max_retries of check_threshold_batch
  MaxErrors,   \* how many database errors occur
  MaxCrashes,  \* how many times the worker or one of its pool processes dies
  MaxFailures, \* how many events or notices fail
  MaxEvents,   \* how many batches and faults there are in all
  Times,       \* timestamps of readings and of the clock
  NoTime,      \* ended_at is NULL
  Nobody,      \* resolved_by is NULL
  Nothing      \* no task, no object in memory, no pending write, no request

Readings == [ts : Times, fires : SUBSET Levels]
Tasks == [id : 1..MaxTasks, readings : Batches, retries : 0..MaxRetries]
Rows == [level : Levels, resolved : BOOLEAN, ended : Times \cup {NoTime},
         by : Admins \cup {Nobody}]

ASSUME TimesAssumption == Times \subseteq Nat /\ NoTime \notin Times
ASSUME BatchesAssumption == Batches \subseteq Seq(Readings)
ASSUME SuppressAssumption == Suppress \in [Levels -> Nat]
ASSUME BoundsAssumption ==
  /\ MaxTasks \in Nat /\ MaxRetries \in Nat
  /\ MaxErrors \in Nat /\ MaxCrashes \in Nat /\ MaxFailures \in Nat
  /\ MaxEvents \in Nat
ASSUME NothingAssumption == Nothing \notin Tasks
ASSUME NobodyAssumption == Nobody \notin Admins

VARIABLES
  alerts,      \* the rows of the alerts table, in id order
  shown,       \* per row, the last data:alert status clients were sent
  notified,    \* rows whose present opening was sent to the notifiers
  untold,      \* rows whose last change was committed and its event lost
  unnoticed,   \* rows whose present opening was committed and its notice lost
  tasks,       \* messages of the alerts queue
  submitted,   \* how many batches were dispatched
  done,        \* ids of batches processed to their end
  killed,      \* ids of batches a pool process took with it when it died
  pc,          \* where each worker is
  task,        \* the message each worker executes
  at,          \* the index of its current reading
  closing,     \* levels it has still to close for this reading
  firing,      \* levels it has still to trigger for this reading
  memory,      \* the rows referenced by its variables alert and closed
  write,       \* its flushed and uncommitted change, or its unsent event
  request,     \* each administrator's acknowledgement in progress
  errors, crashes, failures

tableVars == <<alerts, shown, notified, untold, unnoticed>>
queueVars == <<tasks, submitted, done, killed>>
workerVars == <<pc, task, at, closing, firing, memory, write>>
faultVars == <<errors, crashes, failures>>
vars == <<tableVars, queueVars, workerVars, request, faultVars>>

\* reading: between readings; matching: within one; committing: a change is
\* flushed; publishing: it is committed and its event is not sent; raised: the
\* attempt failed, its retry is sent and its message not yet acknowledged.
Stage == {"idle", "reading", "matching", "committing", "publishing", "raised"}
Kinds == {"close", "update", "reopen", "insert"}
Writes == [kind : Kinds, level : Levels, row : Nat, ts : Times,
           columns : SUBSET {"resolved", "ended"}]
Entries == [row : Nat, resolved : BOOLEAN, ended : Times \cup {NoTime}]
Forgotten == [name \in {"alert", "closed"} |-> Nothing]

Ids == DOMAIN alerts
Open(l) == {r \in Ids : alerts[r].level = l /\ ~alerts[r].resolved}
OpenLevels == {l \in Levels : Open(l) # {}}

TypeOK ==
  /\ alerts \in Seq(Rows)
  /\ shown \in Seq({"silent", "triggered", "resolved"})
  /\ Len(shown) = Len(alerts)
  /\ notified \subseteq Nat /\ untold \subseteq Nat /\ unnoticed \subseteq Nat
  /\ tasks \subseteq Tasks
  /\ submitted \in 0..MaxTasks
  /\ done \subseteq 1..MaxTasks /\ killed \subseteq 1..MaxTasks
  /\ pc \in [Workers -> Stage]
  /\ task \in [Workers -> Tasks \cup {Nothing}]
  /\ at \in [Workers -> Nat]
  /\ closing \in [Workers -> SUBSET Levels]
  /\ firing \in [Workers -> SUBSET Levels]
  /\ memory \in [Workers -> [{"alert", "closed"} -> Entries \cup {Nothing}]]
  /\ write \in [Workers -> Writes \cup {Nothing}]
  /\ request \in [Admins -> [row : Nat, old : Rows] \cup {Nothing}]
  /\ errors \in 0..MaxErrors
  /\ crashes \in 0..MaxCrashes
  /\ failures \in 0..MaxFailures

Init ==
  /\ alerts = <<>>
  /\ shown = <<>>
  /\ notified = {} /\ untold = {} /\ unnoticed = {}
  /\ tasks = {}
  /\ submitted = 0
  /\ done = {} /\ killed = {}
  /\ pc = [w \in Workers |-> "idle"]
  /\ task = [w \in Workers |-> Nothing]
  /\ at = [w \in Workers |-> 0]
  /\ closing = [w \in Workers |-> {}]
  /\ firing = [w \in Workers |-> {}]
  /\ memory = [w \in Workers |-> Forgotten]
  /\ write = [w \in Workers |-> Nothing]
  /\ request = [u \in Admins |-> Nothing]
  /\ errors = 0 /\ crashes = 0 /\ failures = 0

-----------------------------------------------------------------------------
AnotherEvent == submitted + errors + crashes + failures < MaxEvents

\* An ingest dispatched check_threshold_batch.
Submit(batch) ==
  /\ submitted < MaxTasks /\ AnotherEvent
  /\ submitted' = submitted + 1
  /\ tasks' = tasks \cup {[id |-> submitted + 1, readings |-> batch, retries |-> 0]}
  /\ UNCHANGED <<tableVars, done, killed, workerVars, request, faultVars>>

Move(w, stage) == pc' = [pc EXCEPT ![w] = stage]

\* The end of an attempt, however it ends: its session is gone.
EndAttempt(w) ==
  /\ closing' = [closing EXCEPT ![w] = {}]
  /\ firing' = [firing EXCEPT ![w] = {}]
  /\ memory' = [memory EXCEPT ![w] = Forgotten]
  /\ write' = [write EXCEPT ![w] = Nothing]

\* task_acks_late: the message is acknowledged when the attempt is over.
Release(w) ==
  /\ Move(w, "idle")
  /\ task' = [task EXCEPT ![w] = Nothing]
  /\ at' = [at EXCEPT ![w] = 0]
  /\ EndAttempt(w)

Retries(w) == {m \in Tasks : /\ m.id = task[w].id
                             /\ m.readings = task[w].readings
                             /\ m.retries = task[w].retries + 1}
SendRetry(w, again) ==
  /\ tasks' = tasks \cup again
  /\ Move(w, "raised")
  /\ EndAttempt(w)
  /\ UNCHANGED <<task, at>>

\* Mutant of Raise: the last permitted retry is not made.
RaiseOneShort(w) == SendRetry(w, {m \in Retries(w) : m.retries < MaxRetries})

\* raise self.retry(...): the whole batch again, until the retries are used up;
\* then the batch is dropped.
Raise(w) == SendRetry(w, Retries(w))

AcknowledgeTask(w) ==
  /\ pc[w] = "raised"
  /\ Release(w)
  /\ UNCHANGED <<tableVars, queueVars, request, faultVars>>

Take(w) ==
  /\ pc[w] = "idle"
  /\ \E m \in tasks :
       /\ tasks' = tasks \ {m}
       /\ task' = [task EXCEPT ![w] = m]
       /\ at' = [at EXCEPT ![w] = 1]
  /\ Move(w, "reading")
  /\ UNCHANGED <<tableVars, submitted, done, killed, closing, firing, memory, write,
                 request, faultVars>>

Reading(w) == task[w].readings[at[w]]

\* Mutant of StartReading: a reading that fires a level closes no other.
StartReadingFiresOnly(w) ==
  /\ pc[w] = "reading"
  /\ at[w] <= Len(task[w].readings)
  /\ closing' = [closing EXCEPT ![w] = IF Reading(w).fires = {} THEN OpenLevels ELSE {}]
  /\ firing' = [firing EXCEPT ![w] = Reading(w).fires]
  /\ Move(w, "matching")
  /\ UNCHANGED <<tableVars, queueVars, task, at, memory, write, request, faultVars>>

StartReading(w) ==
  /\ pc[w] = "reading"
  /\ at[w] <= Len(task[w].readings)
  /\ closing' = [closing EXCEPT ![w] = OpenLevels \ Reading(w).fires]
  /\ firing' = [firing EXCEPT ![w] = Reading(w).fires]
  /\ Move(w, "matching")
  /\ UNCHANGED <<tableVars, queueVars, task, at, memory, write, request, faultVars>>

FinishReading(w) ==
  /\ pc[w] = "matching"
  /\ closing[w] = {} /\ firing[w] = {}
  /\ at' = [at EXCEPT ![w] = @ + 1]
  /\ Move(w, "reading")
  /\ UNCHANGED <<tableVars, queueVars, task, closing, firing, memory, write,
                 request, faultVars>>

FinishBatch(w) ==
  /\ pc[w] = "reading"
  /\ at[w] > Len(task[w].readings)
  /\ done' = done \cup {task[w].id}
  /\ Release(w)
  /\ UNCHANGED <<tableVars, tasks, submitted, killed, request, faultVars>>

-----------------------------------------------------------------------------
(* The identity map of the session.  Only rows that the variables alert and *)
(* closed refer to stay in memory; both names may refer to one object.      *)

Loaded(w, r) ==
  LET held == {name \in DOMAIN memory[w] :
                 memory[w][name] # Nothing /\ memory[w][name].row = r}
  IN IF held # {} THEN memory[w][CHOOSE name \in held : TRUE]
     ELSE [row |-> r, resolved |-> alerts[r].resolved, ended |-> alerts[r].ended]

\* Name now refers to the row of entry; other names of that row see its values.
Remember(w, name, entry) ==
  memory' = [memory EXCEPT ![w] = [n \in DOMAIN @ |->
    IF n = name \/ (@[n] # Nothing /\ @[n].row = entry.row) THEN entry ELSE @[n]]]

Changed(old, new) ==
  {c \in {"resolved", "ended"} :
     \/ c = "resolved" /\ old.resolved # new.resolved
     \/ c = "ended" /\ old.ended # new.ended}

Flush(w, kind, l, r, columns) ==
  /\ write' = [write EXCEPT ![w] = [kind |-> kind, level |-> l, row |-> r,
                                    ts |-> Reading(w).ts, columns |-> columns]]
  /\ Move(w, "committing")

\* scalar_one_or_none raises MultipleResultsFound.
Ambiguous(l) == \E q, r \in Open(l) : q # r

-----------------------------------------------------------------------------
(* close_open_alerts, for each open level that the reading does not fire.   *)

CloseNothing(w, l) ==
  /\ Open(l) = {}
  /\ closing' = [closing EXCEPT ![w] = @ \ {l}]
  /\ memory' = [memory EXCEPT ![w].closed = Nothing]
  /\ UNCHANGED <<tasks, pc, task, at, firing, write>>

CloseOne(w, l) ==
  /\ \E r \in Open(l) :
       LET new == [row |-> r, resolved |-> TRUE, ended |-> Reading(w).ts]
       IN /\ Flush(w, "close", l, r, Changed(Loaded(w, r), new))
          /\ Remember(w, "closed", new)
  /\ UNCHANGED <<tasks, task, at, closing, firing>>

CloseOpenAlert(w) ==
  /\ pc[w] = "matching"
  /\ \E l \in closing[w] :
       \/ CloseNothing(w, l)
       \/ ~Ambiguous(l) /\ CloseOne(w, l)
       \/ Ambiguous(l) /\ Raise(w)
  /\ UNCHANGED <<tableVars, submitted, done, killed, request, faultVars>>

-----------------------------------------------------------------------------
(* trigger_alert, for each level that the reading fires: refresh the open   *)
(* alert, or reopen the one resolved last within the suppression window, or *)
(* insert a new one.                                                        *)

Recent(w, l) ==
  {r \in Ids : /\ alerts[r].level = l
               /\ alerts[r].resolved
               /\ alerts[r].ended # NoTime
               /\ alerts[r].ended + Suppress[l] >= Reading(w).ts}

Latest(rows) == {r \in rows : \A q \in rows : alerts[q].ended <= alerts[r].ended}

UpdateOpen(w, l) ==
  \E r \in Open(l) :
    /\ Flush(w, "update", l, r, {})
    /\ Remember(w, "alert", Loaded(w, r))

Reopen(w, l) ==
  /\ Open(l) = {}
  /\ Suppress[l] > 0
  /\ \E r \in Latest(Recent(w, l)) :
       LET new == [row |-> r, resolved |-> FALSE, ended |-> NoTime]
       IN /\ Flush(w, "reopen", l, r, Changed(Loaded(w, r), new))
          /\ Remember(w, "alert", new)

\* Mutant of Insert: when nothing may be reopened, an open alert is not looked for.
InsertUntested(w, l) ==
  /\ Suppress[l] = 0 \/ Recent(w, l) = {}
  /\ Flush(w, "insert", l, 0, {})
  /\ UNCHANGED memory

Insert(w, l) ==
  /\ Open(l) = {}
  /\ Suppress[l] = 0 \/ Recent(w, l) = {}
  /\ Flush(w, "insert", l, 0, {})
  /\ UNCHANGED memory

TriggerAlert(w) ==
  /\ pc[w] = "matching"
  /\ closing[w] = {}
  /\ \E l \in firing[w] :
       \/ /\ ~Ambiguous(l)
          /\ UpdateOpen(w, l) \/ Reopen(w, l) \/ Insert(w, l)
          /\ UNCHANGED <<tasks, task, at, closing, firing>>
       \/ Ambiguous(l) /\ Raise(w)
  /\ UNCHANGED <<tableVars, submitted, done, killed, request, faultVars>>

-----------------------------------------------------------------------------
\* db.commit(): an UPDATE sets the flushed columns of the row by primary key.
Written(row, c) ==
  [row EXCEPT
    !.resolved = IF "resolved" \in c.columns THEN c.kind = "close" ELSE row.resolved,
    !.ended = IF "ended" \notin c.columns THEN row.ended
              ELSE IF c.kind = "close" THEN c.ts ELSE NoTime]

UpdateRow(w) ==
  /\ pc[w] = "committing"
  /\ write[w].kind # "insert"
  /\ LET id == write[w].row
     IN alerts' = [alerts EXCEPT ![id] = Written(alerts[id], write[w])]
  /\ UNCHANGED shown

InsertRow(w) ==
  /\ pc[w] = "committing"
  /\ write[w].kind = "insert"
  /\ alerts' = Append(alerts, [level |-> write[w].level, resolved |-> FALSE,
                               ended |-> NoTime, by |-> Nobody])
  /\ shown' = Append(shown, "silent")

\* The rows that this commit opens again.
Reopened == {r \in Ids : alerts[r].resolved /\ ~alerts'[r].resolved}

CommitUpdate(w) ==
  /\ UpdateRow(w)
  /\ notified' = notified \ Reopened
  /\ unnoticed' = unnoticed \ Reopened
  /\ Move(w, "publishing")
  /\ UNCHANGED <<untold, queueVars, task, at, closing, firing, memory, write,
                 request, faultVars>>

CommitInsert(w) ==
  /\ InsertRow(w)
  /\ LET id == Len(alerts) + 1
     IN /\ write' = [write EXCEPT ![w].row = id]
        /\ Remember(w, "alert", [row |-> id, resolved |-> FALSE, ended |-> NoTime])
  /\ Move(w, "publishing")
  /\ UNCHANGED <<notified, untold, unnoticed, queueVars, task, at, closing, firing,
                 request, faultVars>>

\* The commit took effect and its answer is lost: the batch raises, and its retry
\* finds the row as this commit left it.
CommitUnanswered(w) ==
  /\ errors < MaxErrors /\ AnotherEvent
  /\ errors' = errors + 1
  /\ \/ /\ UpdateRow(w)
        /\ notified' = notified \ Reopened
        /\ untold' = untold \cup {write[w].row}
        /\ unnoticed' = unnoticed \cup Reopened
     \/ /\ InsertRow(w)
        /\ untold' = untold \cup {Len(alerts) + 1}
        /\ unnoticed' = unnoticed \cup {Len(alerts) + 1}
        /\ UNCHANGED notified
  /\ Raise(w)
  /\ UNCHANGED <<submitted, done, killed, request, crashes, failures>>

Status(c) == IF c.kind = "close" THEN "resolved" ELSE "triggered"

\* Mutant of Tell: a close is not published.
TellTriggersOnly(c, told) ==
  /\ shown' = IF told /\ c.kind # "close" THEN [shown EXCEPT ![c.row] = Status(c)] ELSE shown
  /\ untold' = IF told THEN untold \ {c.row} ELSE untold \cup {c.row}

\* _publish_alert, whose failure is logged and swallowed.
Tell(c, told) ==
  /\ shown' = IF told THEN [shown EXCEPT ![c.row] = Status(c)] ELSE shown
  /\ untold' = IF told THEN untold \ {c.row} ELSE untold \cup {c.row}

Opening(c) == IF c.kind \in {"insert", "reopen"} THEN {c.row} ELSE {}

\* Mutant of Notify: a reopened alert is not dispatched.
NotifyInsertedOnly(c, sent) ==
  /\ notified' = IF sent /\ c.kind = "insert" THEN notified \cup Opening(c) ELSE notified
  /\ unnoticed' = IF sent THEN unnoticed \ Opening(c) ELSE unnoticed \cup Opening(c)

\* dispatch_alert, when the alert was inserted or reopened; its failure is logged
\* and swallowed.
Notify(c, sent) ==
  /\ notified' = IF sent THEN notified \cup Opening(c) ELSE notified
  /\ unnoticed' = IF sent THEN unnoticed \ Opening(c) ELSE unnoticed \cup Opening(c)

Publish(w) ==
  /\ pc[w] = "publishing"
  /\ \E told, sent \in BOOLEAN :
       /\ Tell(write[w], told)
       /\ Notify(write[w], sent)
       /\ \/ told /\ sent /\ UNCHANGED failures
          \/ /\ ~(told /\ sent)
             /\ failures < MaxFailures /\ AnotherEvent
             /\ failures' = failures + 1
  /\ LET c == write[w]
     IN /\ closing' = [closing EXCEPT ![w] = IF c.kind = "close" THEN @ \ {c.level} ELSE @]
        /\ firing' = [firing EXCEPT ![w] = IF c.kind = "close" THEN @ ELSE @ \ {c.level}]
  /\ write' = [write EXCEPT ![w] = Nothing]
  /\ Move(w, "matching")
  /\ UNCHANGED <<alerts, queueVars, task, at, memory, request, errors, crashes>>

-----------------------------------------------------------------------------
(* POST /alerts/{id}/acknowledge: the row is loaded, permissions are        *)
(* awaited, acknowledge_alert gets the same object, get_db commits.  No     *)
(* event is published.                                                      *)

AcknowledgeLoad(u, r) ==
  /\ request[u] = Nothing
  /\ r \in Ids
  /\ ~alerts[r].resolved
  /\ request' = [request EXCEPT ![u] = [row |-> r, old |-> alerts[r]]]
  /\ UNCHANGED <<tableVars, queueVars, workerVars, faultVars>>

Acknowledged(row, old, u, now) ==
  [row EXCEPT !.resolved = TRUE,
              !.ended = IF old.ended = NoTime THEN now ELSE row.ended,
              !.by = IF old.by = u THEN row.by ELSE u]

AcknowledgeCommit(u) ==
  /\ request[u] # Nothing
  /\ \E now \in Times :
       LET id == request[u].row
       IN alerts' = [alerts EXCEPT ![id] =
                       Acknowledged(alerts[id], request[u].old, u, now)]
  /\ request' = [request EXCEPT ![u] = Nothing]
  /\ UNCHANGED <<shown, notified, untold, unnoticed, queueVars, workerVars, faultVars>>

-----------------------------------------------------------------------------
\* A database call of the batch raised; what was not committed is rolled back.
TaskError(w) ==
  /\ pc[w] \in {"reading", "matching", "committing"}
  /\ errors < MaxErrors /\ AnotherEvent
  /\ errors' = errors + 1
  /\ Raise(w)
  /\ UNCHANGED <<tableVars, submitted, done, killed, request, crashes, failures>>

\* What workers W have committed and not yet told or noticed dies with them.
LoseEvents(W) ==
  LET publishing == {w \in W : pc[w] = "publishing"}
  IN /\ untold' = untold \cup {write[w].row : w \in publishing}
     /\ unnoticed' = unnoticed \cup UNION {Opening(write[w]) : w \in publishing}
     /\ UNCHANGED <<alerts, shown, notified>>

\* A pool process dies (WorkerLostError): its message is acknowledged all the same,
\* and only a retry that was already sent goes on with the batch.
Kill(w) ==
  /\ pc[w] # "idle"
  /\ crashes < MaxCrashes /\ AnotherEvent
  /\ crashes' = crashes + 1
  /\ killed' = IF pc[w] = "raised" THEN killed ELSE killed \cup {task[w].id}
  /\ LoseEvents({w})
  /\ Release(w)
  /\ UNCHANGED <<tasks, submitted, done, request, errors, failures>>

\* The whole worker dies; its unacknowledged messages are delivered again, also
\* those whose retry was already sent.
Crash ==
  /\ crashes < MaxCrashes /\ AnotherEvent
  /\ crashes' = crashes + 1
  /\ tasks' = tasks \cup {task[w] : w \in {v \in Workers : pc[v] # "idle"}}
  /\ pc' = [w \in Workers |-> "idle"]
  /\ task' = [w \in Workers |-> Nothing]
  /\ at' = [w \in Workers |-> 0]
  /\ closing' = [w \in Workers |-> {}]
  /\ firing' = [w \in Workers |-> {}]
  /\ memory' = [w \in Workers |-> Forgotten]
  /\ write' = [w \in Workers |-> Nothing]
  /\ LoseEvents(Workers)
  /\ UNCHANGED <<submitted, done, killed, request, errors, failures>>

-----------------------------------------------------------------------------
WorkerStep(w) ==
  \/ Take(w) \/ StartReading(w) \/ FinishReading(w) \/ FinishBatch(w)
  \/ CloseOpenAlert(w) \/ TriggerAlert(w)
  \/ CommitUpdate(w) \/ CommitInsert(w) \/ Publish(w) \/ AcknowledgeTask(w)

Next ==
  \/ \E batch \in Batches : Submit(batch)
  \/ \E w \in Workers : WorkerStep(w) \/ TaskError(w) \/ CommitUnanswered(w) \/ Kill(w)
  \/ \E u \in Admins : AcknowledgeCommit(u) \/ \E r \in Ids : AcknowledgeLoad(u, r)
  \/ Crash

Spec == Init /\ [][Next]_vars

\* A worker process keeps executing and a started request is answered; nobody
\* has to ingest or acknowledge, and nothing has to fail.
Fairness ==
  /\ \A w \in Workers : WF_vars(WorkerStep(w))
  /\ \A u \in Admins : WF_vars(AcknowledgeCommit(u))

FairSpec == Spec /\ Fairness

-----------------------------------------------------------------------------
(* Properties that hold.                                                    *)

\* One worker never leaves a level with two open alerts, whatever is retried,
\* redelivered after a crash or acknowledged in the middle of a batch.
UniqueOpen == \A l \in Levels : ~Ambiguous(l)

\* When one worker has matched a reading, no level is open that the reading does
\* not fire, whatever earlier attempts left behind.
ReadingReconciled ==
  \A w \in Workers :
    pc[w] = "matching" /\ closing[w] = {} /\ firing[w] = {} =>
      OpenLevels \subseteq Reading(w).fires

\* Every alert that is open was sent to the notifiers since it was opened, or is
\* about to be by the worker that opened it, or its very notice was lost: it failed,
\* the commit of the opening was not answered, or its worker died in between.  No
\* retry, redelivery or acknowledgement leaves an opening unsent, and an opening
\* whose notice was lost says nothing of the next one of the same row.
Publishes(w, r, kinds) ==
  pc[w] = "publishing" /\ write[w].row = r /\ write[w].kind \in kinds
OpenIsNotified ==
  \A r \in Ids : ~alerts[r].resolved =>
    \/ r \in notified \/ r \in unnoticed
    \/ \E w \in Workers : Publishes(w, r, {"insert", "reopen"})

\* With one worker, the last event clients got about an alert that nobody
\* acknowledged tells its state, or the event that does is about to be sent, or the
\* event of its last change was lost: it failed, the commit was not answered or the
\* worker died in between.  (An acknowledgement publishes nothing.)
ShownAgrees ==
  \A r \in Ids : alerts[r].by = Nobody =>
    \/ shown[r] = IF alerts[r].resolved THEN "resolved" ELSE "triggered"
    \/ r \in untold
    \/ \E w \in Workers : Publishes(w, r, Kinds)

\* One worker brings every batch to its end although the batch raises as often
\* as it may be retried and the whole worker dies; only a pool process that dies in
\* the middle of a batch takes it along.
BatchesComplete ==
  \A i \in 1..MaxTasks : (i <= submitted) ~> (i \in done \cup killed)

-----------------------------------------------------------------------------
(* The strengthening under which the safety properties are inductive: what  *)
(* a worker and a request hold refers to what exists, and with one worker   *)
(* nothing opens a level between the query that found it closed and the     *)
(* commit that opens it.                                                    *)

TaskInProgress ==
  \A w \in Workers : pc[w] # "idle" =>
    /\ task[w] \in Tasks
    /\ at[w] # 0
    /\ pc[w] \notin {"reading", "raised"} => at[w] <= Len(task[w].readings)
WriteInProgress ==
  \A w \in Workers : pc[w] \in {"committing", "publishing"} =>
    /\ write[w] \in Writes
    /\ pc[w] = "publishing" \/ write[w].kind # "insert" =>
         /\ write[w].row \in Ids
         /\ alerts[write[w].row].level = write[w].level
RequestInProgress ==
  \A u \in Admins : request[u] # Nothing => request[u].row \in Ids
WellFormed == TypeOK /\ TaskInProgress /\ WriteInProgress /\ RequestInProgress

OpensClosedLevel ==
  \A w \in Workers : pc[w] = "committing" =>
    /\ write[w].kind \in {"insert", "reopen"} => Open(write[w].level) = {}
    /\ write[w].kind = "update" => write[w].columns = {}

(* With one worker, what its session holds agrees with the table, except    *)
(* for what it is about to write and for rows acknowledged in the meantime; *)
(* so a close really closes the only open alert of its level, and every     *)
(* event tells the state of its row unless an administrator changed it.     *)

AcknowledgedRow(r) == alerts[r].resolved /\ alerts[r].by # Nobody
StillOpen(r) == alerts[r].resolved => alerts[r].by # Nobody

Pending(w, r) == /\ pc[w] = "committing"
                 /\ write[w].kind \in {"close", "reopen"}
                 /\ write[w].row = r
MemoryAgrees ==
  \A w \in Workers, name \in {"alert", "closed"} : memory[w][name] # Nothing =>
    LET e == memory[w][name]
    IN /\ e.row \in Ids
       /\ Pending(w, e.row) => e.resolved = (write[w].kind = "close")
       /\ ~Pending(w, e.row) => \/ e.resolved = alerts[e.row].resolved
                                \/ AcknowledgedRow(e.row)

FlushedDecides ==
  \A w \in Workers : pc[w] = "committing" =>
    LET c == write[w]
    IN /\ c.kind = "close" => "resolved" \in c.columns /\ Open(c.level) \subseteq {c.row}
       /\ c.kind = "reopen" => "resolved" \in c.columns \/ AcknowledgedRow(c.row)
       /\ c.kind = "update" => StillOpen(c.row)
EventIsTrue ==
  \A w \in Workers : pc[w] = "publishing" =>
    LET c == write[w]
    IN /\ c.kind = "close" => alerts[c.row].resolved /\ Open(c.level) = {}
       /\ c.kind # "close" => StillOpen(c.row)

MatchingLeaves ==
  \A w \in Workers : pc[w] \in {"matching", "committing", "publishing"} =>
    /\ OpenLevels \subseteq Reading(w).fires \cup closing[w]
    /\ firing[w] \subseteq Reading(w).fires
    /\ pc[w] = "committing" /\ write[w].kind # "close" =>
         write[w].level \in Reading(w).fires

AcknowledgementStays ==
  \A u \in Admins : request[u] # Nothing /\ request[u].old.by # Nobody =>
    alerts[request[u].row].by # Nobody

SessionInvariant ==
  /\ MemoryAgrees
  /\ FlushedDecides
  /\ EventIsTrue
  /\ MatchingLeaves
  /\ AcknowledgementStays

-----------------------------------------------------------------------------
(* The safety half of BatchesComplete: with one worker no batch is lost     *)
(* before its retries are used up by errors.                                *)

\* A batch is done, waits in a message, is in progress, or died with its pool process,
\* until more errors than one batch may be retried have happened, however often the
\* whole worker dies: what it holds comes back, and what it gave up it gave up for an
\* error.
InHand(w, i) == pc[w] \notin {"idle", "raised"} /\ task[w].id = i
BatchIsKept ==
  errors <= MaxRetries =>
    \A i \in 1..submitted :
      \/ i \in done \cup killed
      \/ \E m \in tasks : m.id = i
      \/ \E w \in Workers : InHand(w, i)

\* Each retry of a message was paid for by an error of its own.
RetriesArePaid ==
  /\ \A m \in tasks : m.retries <= errors
  /\ \A w \in Workers : pc[w] # "idle" => task[w].retries <= errors

KeptInvariant == RetriesArePaid /\ BatchIsKept
=============================================================================
