------------------------ MODULE AlertLifecycleProofs ------------------------
(***************************************************************************)
(* Proofs about AlertLifecycle for any levels, batches and bounds.         *)
(***************************************************************************)
EXTENDS AlertLifecycle, SequenceTheorems, TLAPS

LEMMA ReadingType ==
  ASSUME WellFormed, NEW w \in Workers, pc[w] \notin {"idle", "reading", "raised"}
  PROVE  Reading(w) \in Readings /\ Reading(w).ts \in Times /\ Reading(w).fires \subseteq Levels
<1>1. task[w].readings \in Seq(Readings) /\ at[w] \in 1..Len(task[w].readings)
  BY BatchesAssumption DEF WellFormed, TypeOK, TaskInProgress, Tasks
<1>2. Reading(w) \in Readings
  BY <1>1 DEF Reading
<1> QED BY <1>2 DEF Readings

LEMMA RowType ==
  ASSUME TypeOK, NEW r \in Ids
  PROVE  r \in Nat \ {0} /\ r \in 1..Len(alerts) /\ alerts[r] \in Rows
<1>1. alerts \in Seq(Rows)
  BY DEF TypeOK
<1>2. r \in 1..Len(alerts) /\ alerts[r] \in Rows
  BY <1>1 DEF Ids
<1> QED BY <1>1, <1>2

LEMMA LoadedType ==
  ASSUME WellFormed, NEW w \in Workers, NEW r \in Ids
  PROVE  Loaded(w, r) \in Entries
<1>1. r \in Nat /\ alerts[r].resolved \in BOOLEAN /\ alerts[r].ended \in Times \cup {NoTime}
  BY RowType DEF WellFormed, Rows
<1>2. [row |-> r, resolved |-> alerts[r].resolved, ended |-> alerts[r].ended] \in Entries
  BY <1>1 DEF Entries
<1>3. memory[w] \in [{"alert", "closed"} -> Entries \cup {Nothing}]
  BY DEF WellFormed, TypeOK
<1> DEFINE held == {name \in DOMAIN memory[w] :
                      memory[w][name] # Nothing /\ memory[w][name].row = r}
<1>4. CASE held # {}
  <2>1. (CHOOSE name \in held : TRUE) \in held
    BY <1>4
  <2>2. memory[w][CHOOSE name \in held : TRUE] \in Entries
    BY <1>3, <2>1
  <2> QED BY <1>4, <2>2 DEF Loaded
<1>5. CASE held = {}
  BY <1>2, <1>5 DEF Loaded
<1> QED BY <1>4, <1>5

LEMMA RememberType ==
  ASSUME WellFormed, NEW w \in Workers, NEW name \in {"alert", "closed"},
         NEW entry \in Entries, Remember(w, name, entry)
  PROVE  memory' \in [Workers -> [{"alert", "closed"} -> Entries \cup {Nothing}]]
BY DEF WellFormed, TypeOK, Remember

LEMMA FlushType ==
  ASSUME WellFormed, NEW w \in Workers, NEW kind \in Kinds, NEW l \in Levels,
         NEW r \in Nat, NEW columns \in SUBSET {"resolved", "ended"},
         Flush(w, kind, l, r, columns), pc[w] = "matching"
  PROVE  /\ write' \in [Workers -> Writes \cup {Nothing}]
         /\ write'[w] \in Writes
         /\ write'[w].kind = kind /\ write'[w].level = l /\ write'[w].row = r
         /\ \A v \in Workers : v # w => write'[v] = write[v] /\ pc'[v] = pc[v]
         /\ pc' = [pc EXCEPT ![w] = "committing"]
<1>1. Reading(w).ts \in Times
  BY ReadingType
<1> DEFINE c == [kind |-> kind, level |-> l, row |-> r, ts |-> Reading(w).ts,
                 columns |-> columns]
<1>2. c \in Writes /\ c.kind = kind /\ c.level = l /\ c.row = r
  BY <1>1 DEF Writes
<1>3. write' = [write EXCEPT ![w] = c]
  BY DEF Flush
<1> HIDE DEF c
<1> QED BY <1>2, <1>3 DEF Flush, Move, WellFormed, TypeOK

\* A step that leaves the table and the requests alone, and moves one worker.
LEMMA WorkerMoves ==
  ASSUME WellFormed, TypeOK', NEW w \in Workers,
         UNCHANGED <<alerts, request>>,
         \A v \in Workers : v # w =>
           /\ pc'[v] = pc[v] /\ task'[v] = task[v]
           /\ at'[v] = at[v] /\ write'[v] = write[v],
         pc'[w] # "idle" =>
           /\ task'[w] \in Tasks /\ at'[w] # 0
           /\ pc'[w] \notin {"reading", "raised"} => at'[w] <= Len(task'[w].readings),
         pc'[w] \in {"committing", "publishing"} =>
           /\ write'[w] \in Writes
           /\ pc'[w] = "publishing" \/ write'[w].kind # "insert" =>
                /\ write'[w].row \in Ids
                /\ alerts[write'[w].row].level = write'[w].level
  PROVE  WellFormed'
BY DEF WellFormed, TaskInProgress, WriteInProgress, RequestInProgress, Ids

\* A retried batch is a task again, and the attempt that raised is over.
LEMMA RaiseWellFormed ==
  ASSUME WellFormed, NEW w \in Workers, pc[w] # "idle", Raise(w),
         UNCHANGED <<tableVars, submitted, done, killed, request, failures>>,
         errors' \in 0..MaxErrors, crashes' \in 0..MaxCrashes
  PROVE  WellFormed'
<1>1. tasks' \subseteq Tasks
  BY DEF Raise, SendRetry, Retries, WellFormed, TypeOK
<1>2. /\ pc' = [pc EXCEPT ![w] = "raised"]
      /\ UNCHANGED <<task, at>>
      /\ closing' = [closing EXCEPT ![w] = {}]
      /\ firing' = [firing EXCEPT ![w] = {}]
      /\ memory' = [memory EXCEPT ![w] = Forgotten]
      /\ write' = [write EXCEPT ![w] = Nothing]
  BY DEF Raise, SendRetry, EndAttempt, Move
<1>3. TypeOK'
  BY <1>1, <1>2 DEF WellFormed, TypeOK, Stage, Forgotten, Ids, tableVars
<1>4. task[w] \in Tasks /\ at[w] # 0
  BY DEF WellFormed, TaskInProgress
<1> QED BY <1>2, <1>3, <1>4, WorkerMoves DEF WellFormed, TypeOK, tableVars

LEMMA TakeWellFormed ==
  ASSUME WellFormed, NEW w \in Workers, Take(w)
  PROVE  WellFormed'
<1> USE DEF tableVars, queueVars, faultVars, Move
<1>1. PICK m \in tasks : /\ tasks' = tasks \ {m}
                         /\ task' = [task EXCEPT ![w] = m]
                         /\ at' = [at EXCEPT ![w] = 1]
  BY DEF Take
<1>2. m \in Tasks
  BY DEF WellFormed, TypeOK
<1>3. TypeOK'
  BY <1>1, <1>2 DEF Take, WellFormed, TypeOK, Stage
<1>4. /\ UNCHANGED <<alerts, request, write>>
      /\ pc'[w] = "reading" /\ task'[w] \in Tasks /\ at'[w] # 0
      /\ \A v \in Workers : v # w =>
           pc'[v] = pc[v] /\ task'[v] = task[v] /\ at'[v] = at[v]
  BY <1>1, <1>2 DEF Take, WellFormed, TypeOK
<1> QED BY <1>3, <1>4, WorkerMoves

LEMMA StartFinishWellFormed ==
  ASSUME WellFormed, NEW w \in Workers,
         \/ StartReading(w) \/ FinishReading(w)
         \/ FinishBatch(w) \/ AcknowledgeTask(w)
  PROVE  WellFormed'
<1> USE DEF tableVars, queueVars, faultVars, Move, WellFormed
<1>1. CASE StartReading(w)
  <2>1. /\ pc[w] = "reading" /\ at[w] \in Nat /\ at[w] # 0
        /\ at[w] <= Len(task[w].readings) /\ task[w] \in Tasks
    BY <1>1 DEF StartReading, TypeOK, TaskInProgress
  <2>3. task[w].readings \in Seq(Readings)
    BY <2>1, BatchesAssumption DEF Tasks
  <2>4. Reading(w).fires \subseteq Levels
    <3>1. Reading(w) \in Readings
      BY <2>1, <2>3 DEF Reading
    <3> QED BY <3>1 DEF Readings
  <2>2. TypeOK'
    BY <1>1, <2>4 DEF StartReading, TypeOK, Stage, OpenLevels
  <2>5. /\ UNCHANGED <<alerts, request, task, at, write>>
        /\ pc' = [pc EXCEPT ![w] = "matching"]
    BY <1>1 DEF StartReading
  <2> QED BY <2>1, <2>2, <2>5, WorkerMoves DEF TypeOK
<1>2. CASE FinishReading(w)
  <2>1. TypeOK'
    BY <1>2 DEF FinishReading, TypeOK, Stage
  <2>2. /\ pc' = [pc EXCEPT ![w] = "reading"] /\ at' = [at EXCEPT ![w] = at[w] + 1]
        /\ UNCHANGED <<alerts, request, task, write>>
        /\ at[w] \in Nat /\ task[w] \in Tasks
    BY <1>2 DEF FinishReading, TypeOK, TaskInProgress
  <2>3. pc'[w] = "reading" /\ at'[w] # 0 /\ task'[w] \in Tasks
    BY <2>2 DEF TypeOK
  <2>4. \A v \in Workers : v # w =>
          /\ pc'[v] = pc[v] /\ task'[v] = task[v]
          /\ at'[v] = at[v] /\ write'[v] = write[v]
    BY <2>2 DEF TypeOK
  <2> QED BY <2>1, <2>2, <2>3, <2>4, WorkerMoves
<1>3. CASE FinishBatch(w)
  <2>1. task[w].id \in 1..MaxTasks
    BY <1>3 DEF FinishBatch, TaskInProgress, Tasks
  <2>2. TypeOK'
    BY <1>3, <2>1 DEF FinishBatch, Release, EndAttempt, TypeOK, Stage, Forgotten
  <2> QED BY <1>3, <2>2, WorkerMoves DEF FinishBatch, Release, EndAttempt, TypeOK
<1>4. CASE AcknowledgeTask(w)
  <2>1. TypeOK'
    BY <1>4 DEF AcknowledgeTask, Release, EndAttempt, TypeOK, Stage, Forgotten
  <2> QED BY <1>4, <2>1, WorkerMoves DEF AcknowledgeTask, Release, EndAttempt, TypeOK
<1> QED BY <1>1, <1>2, <1>3, <1>4

LEMMA CloseWellFormed ==
  ASSUME WellFormed, NEW w \in Workers, CloseOpenAlert(w)
  PROVE  WellFormed'
<1> USE DEF tableVars, queueVars, faultVars, WellFormed
<1>1. PICK l \in closing[w] : \/ CloseNothing(w, l)
                              \/ ~Ambiguous(l) /\ CloseOne(w, l)
                              \/ Ambiguous(l) /\ Raise(w)
  BY DEF CloseOpenAlert
<1>2. l \in Levels /\ pc[w] = "matching"
      /\ UNCHANGED <<tableVars, submitted, done, killed, request, errors, crashes, failures>>
  BY DEF CloseOpenAlert, TypeOK
<1>3. CASE CloseNothing(w, l)
  <2>1. TypeOK'
    BY <1>2, <1>3 DEF CloseNothing, TypeOK
  <2> QED BY <1>2, <1>3, <2>1, WorkerMoves DEF CloseNothing, TypeOK, TaskInProgress
<1>4. CASE CloseOne(w, l)
  <2>1. PICK r \in Open(l) :
          LET new == [row |-> r, resolved |-> TRUE, ended |-> Reading(w).ts]
          IN Flush(w, "close", l, r, Changed(Loaded(w, r), new)) /\ Remember(w, "closed", new)
    BY <1>4 DEF CloseOne
  <2>2. r \in Ids /\ r \in Nat /\ alerts[r].level = l
    BY RowType DEF Open
  <2> DEFINE new == [row |-> r, resolved |-> TRUE, ended |-> Reading(w).ts]
  <2>3. new \in Entries
    BY <1>2, <2>2, ReadingType DEF Entries
  <2>4. Changed(Loaded(w, r), new) \in SUBSET {"resolved", "ended"}
    BY DEF Changed
  <2>5. Flush(w, "close", l, r, Changed(Loaded(w, r), new)) /\ Remember(w, "closed", new)
    BY <2>1
  <2> HIDE DEF new
  <2>6. /\ write' \in [Workers -> Writes \cup {Nothing}]
        /\ write'[w] \in Writes
        /\ write'[w].level = l /\ write'[w].row = r
        /\ \A v \in Workers : v # w => write'[v] = write[v] /\ pc'[v] = pc[v]
        /\ pc' = [pc EXCEPT ![w] = "committing"]
    BY <1>2, <2>2, <2>4, <2>5, FlushType DEF Kinds
  <2>7. memory' \in [Workers -> [{"alert", "closed"} -> Entries \cup {Nothing}]]
    BY <2>3, <2>5, RememberType
  <2>8. TypeOK'
    BY <1>2, <1>4, <2>6, <2>7 DEF CloseOne, TypeOK, Stage
  <2> QED BY <1>2, <1>4, <2>2, <2>6, <2>8, WorkerMoves DEF CloseOne, TypeOK, TaskInProgress
<1>5. CASE Raise(w)
  BY <1>2, <1>5, RaiseWellFormed DEF TypeOK
<1> QED BY <1>1, <1>3, <1>4, <1>5

\* A flushed change of kind k to row r of level l, in the middle of a reading.
LEMMA FlushWellFormed ==
  ASSUME WellFormed, NEW w \in Workers, pc[w] = "matching",
         NEW kind \in Kinds, NEW l \in Levels, NEW r \in Nat,
         NEW columns \in SUBSET {"resolved", "ended"},
         Flush(w, kind, l, r, columns),
         kind # "insert" => r \in Ids /\ alerts[r].level = l,
         memory' \in [Workers -> [{"alert", "closed"} -> Entries \cup {Nothing}]],
         UNCHANGED <<tableVars, queueVars, task, at, closing, firing, request, faultVars>>
  PROVE  WellFormed'
<1> USE DEF tableVars, queueVars, faultVars, WellFormed
<1>1. /\ write' \in [Workers -> Writes \cup {Nothing}]
      /\ write'[w] \in Writes
      /\ write'[w].kind = kind /\ write'[w].level = l /\ write'[w].row = r
      /\ \A v \in Workers : v # w => write'[v] = write[v] /\ pc'[v] = pc[v]
      /\ pc' = [pc EXCEPT ![w] = "committing"]
  BY FlushType
<1>2. TypeOK'
  BY <1>1 DEF TypeOK, Stage
<1> QED BY <1>1, <1>2, WorkerMoves DEF TypeOK, TaskInProgress

LEMMA TriggerWellFormed ==
  ASSUME WellFormed, NEW w \in Workers, TriggerAlert(w)
  PROVE  WellFormed'
<1> USE DEF tableVars, queueVars, faultVars
<1>1. PICK l \in firing[w] :
        \/ /\ ~Ambiguous(l)
           /\ UpdateOpen(w, l) \/ Reopen(w, l) \/ Insert(w, l)
           /\ UNCHANGED <<tasks, task, at, closing, firing>>
        \/ Ambiguous(l) /\ Raise(w)
  BY DEF TriggerAlert
<1>2. l \in Levels /\ pc[w] = "matching"
      /\ UNCHANGED <<tableVars, submitted, done, killed, request, errors, crashes, failures>>
  BY DEF TriggerAlert, WellFormed, TypeOK
<1>3. CASE Raise(w)
  BY <1>2, <1>3, RaiseWellFormed DEF WellFormed, TypeOK
<1>4. CASE UpdateOpen(w, l) /\ UNCHANGED <<tasks, task, at, closing, firing>>
  <2>1. PICK r \in Open(l) : Flush(w, "update", l, r, {}) /\ Remember(w, "alert", Loaded(w, r))
    BY <1>4 DEF UpdateOpen
  <2>2. r \in Ids /\ r \in Nat /\ alerts[r].level = l
    BY RowType DEF Open, WellFormed
  <2>3. memory' \in [Workers -> [{"alert", "closed"} -> Entries \cup {Nothing}]]
    BY <2>1, <2>2, LoadedType, RememberType
  <2> QED BY <1>2, <1>4, <2>1, <2>2, <2>3, FlushWellFormed DEF Kinds
<1>5. CASE Reopen(w, l) /\ UNCHANGED <<tasks, task, at, closing, firing>>
  <2>1. PICK r \in Latest(Recent(w, l)) :
          LET new == [row |-> r, resolved |-> FALSE, ended |-> NoTime]
          IN Flush(w, "reopen", l, r, Changed(Loaded(w, r), new)) /\ Remember(w, "alert", new)
    BY <1>5 DEF Reopen
  <2>2. r \in Ids /\ r \in Nat /\ alerts[r].level = l
    BY RowType DEF Latest, Recent, WellFormed
  <2> DEFINE new == [row |-> r, resolved |-> FALSE, ended |-> NoTime]
  <2>3. new \in Entries
    BY <2>2 DEF Entries
  <2>4. Changed(Loaded(w, r), new) \in SUBSET {"resolved", "ended"}
    BY DEF Changed
  <2>5. Flush(w, "reopen", l, r, Changed(Loaded(w, r), new)) /\ Remember(w, "alert", new)
    BY <2>1
  <2> HIDE DEF new
  <2>6. memory' \in [Workers -> [{"alert", "closed"} -> Entries \cup {Nothing}]]
    BY <2>3, <2>5, RememberType
  <2> QED BY <1>2, <1>5, <2>2, <2>4, <2>5, <2>6, FlushWellFormed DEF Kinds
<1>6. CASE Insert(w, l) /\ UNCHANGED <<tasks, task, at, closing, firing>>
  BY <1>2, <1>6, FlushWellFormed DEF Insert, Kinds, WellFormed, TypeOK
<1> QED BY <1>1, <1>3, <1>4, <1>5, <1>6

\* The table only grows and no row changes its level.
LEMMA CommitKeepsRows ==
  ASSUME WellFormed, NEW w \in Workers, UpdateRow(w)
  PROVE  /\ alerts' \in Seq(Rows)
         /\ Len(alerts') = Len(alerts) /\ Ids' = Ids
         /\ \A r \in Ids : alerts'[r].level = alerts[r].level
<1>1. write[w] \in Writes /\ write[w].row \in Ids
  BY DEF UpdateRow, WellFormed, WriteInProgress
<1> DEFINE c == write[w]
           new == Written(alerts[c.row], c)
<1>2. alerts' = [alerts EXCEPT ![c.row] = new]
  BY DEF UpdateRow
<1>3. alerts[c.row] \in Rows /\ c.ts \in Times /\ c.row \in 1..Len(alerts)
  BY <1>1, RowType DEF Writes, WellFormed
<1>4. (c.kind = "close") \in BOOLEAN
  OBVIOUS
<1>5. new \in Rows /\ new.level = alerts[c.row].level
  BY <1>3, <1>4 DEF Rows, Written
<1> HIDE DEF new, c
<1>6. alerts \in Seq(Rows)
  BY DEF WellFormed, TypeOK
<1>7. alerts' \in Seq(Rows) /\ Len(alerts') = Len(alerts)
  BY <1>2, <1>3, <1>5, <1>6, ExceptSeq
<1> QED BY <1>2, <1>3, <1>5, <1>6, <1>7 DEF Ids

LEMMA InsertKeepsRows ==
  ASSUME WellFormed, NEW w \in Workers, InsertRow(w)
  PROVE  LET id == Len(alerts) + 1
         IN /\ alerts' \in Seq(Rows) /\ Len(alerts') = id /\ id \in Nat
            /\ shown' \in Seq({"silent", "triggered", "resolved"}) /\ Len(shown') = id
            /\ Ids' = Ids \cup {id}
            /\ \A r \in Ids : r # id /\ alerts'[r] = alerts[r]
            /\ alerts'[id].level = write[w].level
            /\ alerts'[id].resolved = FALSE
            /\ write[w] \in Writes /\ write[w].level \in Levels
<1> DEFINE id == Len(alerts) + 1
           row == [level |-> write[w].level, resolved |-> FALSE,
                   ended |-> NoTime, by |-> Nobody]
<1>1. write[w] \in Writes /\ write[w].level \in Levels
  BY DEF InsertRow, WellFormed, WriteInProgress, Writes
<1>2. row \in Rows /\ row.level = write[w].level /\ row.resolved = FALSE
  BY <1>1 DEF Rows
<1>3. alerts' = Append(alerts, row) /\ shown' = Append(shown, "silent")
  BY DEF InsertRow
<1> HIDE DEF row
<1>4. /\ alerts \in Seq(Rows) /\ id \in Nat /\ Len(shown) = Len(alerts)
      /\ shown \in Seq({"silent", "triggered", "resolved"})
  BY DEF WellFormed, TypeOK
<1>5. /\ alerts' \in Seq(Rows) /\ Len(alerts') = id
      /\ Ids = 1..Len(alerts) /\ Ids' = Ids \cup {id}
      /\ \A r \in Ids : r # id /\ alerts'[r] = alerts[r]
      /\ alerts'[id] = row
  BY <1>2, <1>3, <1>4 DEF Ids
<1>6. shown' \in Seq({"silent", "triggered", "resolved"}) /\ Len(shown') = id
  BY <1>3, <1>4
<1> QED BY <1>1, <1>2, <1>4, <1>5, <1>6

LEMMA InsertedRow ==
  ASSUME WellFormed, NEW w \in Workers, CommitInsert(w)
  PROVE  LET id == Len(alerts) + 1
         IN /\ Ids' = Ids \cup {id} /\ id \in Nat
            /\ \A r \in Ids : r # id /\ alerts'[r] = alerts[r]
            /\ alerts'[id].level = write[w].level
            /\ alerts'[id].resolved = FALSE
            /\ write[w].level \in Levels
            /\ write'[w].row = id
            /\ write'[w].kind = "insert" /\ write'[w].level = write[w].level
            /\ write'[w] \in Writes
<1> DEFINE id == Len(alerts) + 1
<1>1. InsertRow(w) /\ write[w].kind = "insert" /\ write' = [write EXCEPT ![w].row = id]
  BY DEF CommitInsert, InsertRow
<1>2. /\ Ids' = Ids \cup {id} /\ id \in Nat
      /\ \A r \in Ids : r # id /\ alerts'[r] = alerts[r]
      /\ alerts'[id].level = write[w].level /\ alerts'[id].resolved = FALSE
      /\ write[w] \in Writes /\ write[w].level \in Levels
  BY <1>1, InsertKeepsRows
<1>3. /\ write'[w].row = id /\ write'[w].kind = "insert"
      /\ write'[w].level = write[w].level /\ write'[w] \in Writes
  BY <1>1, <1>2 DEF WellFormed, TypeOK, Writes
<1> QED BY <1>2, <1>3

\* Every commit keeps the rows that are there, and their levels.
LEMMA TableGrows ==
  ASSUME WellFormed, NEW w \in Workers, UpdateRow(w) \/ InsertRow(w)
  PROVE  /\ alerts' \in Seq(Rows)
         /\ shown' \in Seq({"silent", "triggered", "resolved"})
         /\ Len(shown') = Len(alerts')
         /\ Ids \subseteq Ids' /\ Ids' \subseteq Nat
         /\ \A r \in Ids : alerts'[r].level = alerts[r].level
<1>1. Ids \subseteq Nat
  BY DEF WellFormed, TypeOK, Ids
<1>2. CASE UpdateRow(w)
  <2>1. UNCHANGED shown
    BY <1>2 DEF UpdateRow
  <2> QED BY <1>1, <1>2, <2>1, CommitKeepsRows DEF WellFormed, TypeOK
<1>3. CASE InsertRow(w)
  BY <1>1, <1>3, InsertKeepsRows
<1> QED BY <1>2, <1>3

LEMMA CommitWellFormed ==
  ASSUME WellFormed, NEW w \in Workers, CommitUpdate(w) \/ CommitInsert(w)
  PROVE  WellFormed'
<1> USE DEF queueVars, faultVars, Move
<1>1. CASE CommitUpdate(w)
  <2>1. /\ alerts' \in Seq(Rows) /\ Len(alerts') = Len(alerts) /\ Ids' = Ids
        /\ \A r \in Ids : alerts'[r].level = alerts[r].level
    BY <1>1, CommitKeepsRows DEF CommitUpdate
  <2>2. /\ pc' = [pc EXCEPT ![w] = "publishing"] /\ pc[w] = "committing"
        /\ write[w].kind # "insert"
        /\ notified' \subseteq notified /\ unnoticed' \subseteq unnoticed
        /\ UNCHANGED <<shown, untold, queueVars, task, at, closing, firing,
                       memory, write, request, faultVars>>
    BY <1>1 DEF CommitUpdate, UpdateRow
  <2>3. TypeOK'
    BY <2>1, <2>2 DEF WellFormed, TypeOK, Stage
  <2>4. TaskInProgress'
    BY <2>2 DEF WellFormed, TypeOK, TaskInProgress
  <2>5. WriteInProgress'
    BY <2>1, <2>2 DEF WellFormed, TypeOK, WriteInProgress
  <2> QED BY <2>1, <2>2, <2>3, <2>4, <2>5 DEF WellFormed, RequestInProgress
<1>2. CASE CommitInsert(w)
  <2>1. InsertRow(w) /\ pc[w] = "committing"
    BY <1>2 DEF CommitInsert, InsertRow
  <2>2. PICK id \in Nat :
          /\ id = Len(alerts) + 1
          /\ Ids' = Ids \cup {id} /\ alerts'[id].level = write[w].level
          /\ write'[w].row = id /\ write'[w].level = write[w].level
          /\ write'[w] \in Writes
    BY <1>2, InsertedRow
  <2>3. /\ alerts' \in Seq(Rows)
        /\ shown' \in Seq({"silent", "triggered", "resolved"})
        /\ Len(shown') = Len(alerts')
        /\ Ids \subseteq Ids'
        /\ \A r \in Ids : alerts'[r].level = alerts[r].level
    BY <2>1, TableGrows
  <2> DEFINE entry == [row |-> Len(alerts) + 1, resolved |-> FALSE, ended |-> NoTime]
  <2>4. entry \in Entries /\ Remember(w, "alert", entry)
    BY <1>2, <2>2 DEF CommitInsert, Entries
  <2> HIDE DEF entry
  <2>5. memory' \in [Workers -> [{"alert", "closed"} -> Entries \cup {Nothing}]]
    BY <2>4, RememberType
  <2>6. /\ pc' = [pc EXCEPT ![w] = "publishing"]
        /\ \A v \in Workers : v # w => write'[v] = write[v]
        /\ write' \in [Workers -> Writes \cup {Nothing}]
        /\ UNCHANGED <<notified, untold, unnoticed, queueVars, task, at, closing, firing,
                       request, faultVars>>
    BY <1>2, <2>2 DEF CommitInsert, WellFormed, TypeOK
  <2>7. TypeOK'
    BY <2>3, <2>5, <2>6 DEF WellFormed, TypeOK, Stage
  <2>8. WriteInProgress'
    <3>1. id \in Ids' /\ alerts'[write'[w].row].level = write'[w].level
      BY <2>2
    <3>2. \A v \in Workers : v # w => pc'[v] = pc[v] /\ write'[v] = write[v]
      BY <2>6 DEF WellFormed, TypeOK
    <3>3. write'[w].row \in Ids' /\ write'[w] \in Writes
      BY <2>2, <3>1
    <3>4. ASSUME NEW v \in Workers, pc'[v] \in {"committing", "publishing"}, v # w,
                 pc'[v] = "publishing" \/ write'[v].kind # "insert"
          PROVE  write'[v].row \in Ids' /\ alerts'[write'[v].row].level = write'[v].level
      <4>1. write[v].row \in Ids /\ alerts[write[v].row].level = write[v].level
        BY <3>2, <3>4 DEF WellFormed, WriteInProgress
      <4>2. alerts'[write[v].row].level = alerts[write[v].row].level
        BY <2>3, <4>1
      <4> QED BY <2>3, <3>2, <3>4, <4>1, <4>2
    <3>5. \A v \in Workers : v # w /\ pc'[v] \in {"committing", "publishing"} =>
            write'[v] \in Writes
      BY <3>2 DEF WellFormed, WriteInProgress
    <3> QED BY <3>1, <3>3, <3>4, <3>5 DEF WriteInProgress
  <2> QED BY <2>1, <2>3, <2>6, <2>7, <2>8
          DEF WellFormed, TypeOK, TaskInProgress, RequestInProgress
<1> QED BY <1>1, <1>2

\* A commit that is not answered ends the attempt over a table that it changed.
LEMMA UnansweredWellFormed ==
  ASSUME WellFormed, NEW w \in Workers, CommitUnanswered(w)
  PROVE  WellFormed'
<1> USE BoundsAssumption
<1>1. /\ UpdateRow(w) \/ InsertRow(w)
      /\ Raise(w) /\ errors < MaxErrors /\ errors' = errors + 1
      /\ UNCHANGED <<submitted, done, killed, request, crashes, failures>>
  BY DEF CommitUnanswered
<1>2. /\ alerts' \in Seq(Rows)
      /\ shown' \in Seq({"silent", "triggered", "resolved"})
      /\ Len(shown') = Len(alerts')
      /\ Ids \subseteq Ids' /\ Ids' \subseteq Nat
      /\ \A r \in Ids : alerts'[r].level = alerts[r].level
  BY <1>1, TableGrows
<1>3. /\ pc' = [pc EXCEPT ![w] = "raised"] /\ pc[w] = "committing"
      /\ UNCHANGED <<task, at>>
      /\ closing' = [closing EXCEPT ![w] = {}]
      /\ firing' = [firing EXCEPT ![w] = {}]
      /\ memory' = [memory EXCEPT ![w] = Forgotten]
      /\ write' = [write EXCEPT ![w] = Nothing]
      /\ tasks' \subseteq Tasks
  BY <1>1 DEF Raise, SendRetry, EndAttempt, Move, Retries, UpdateRow, InsertRow,
              WellFormed, TypeOK
<1>4. /\ notified' \subseteq Nat /\ untold' \subseteq Nat /\ unnoticed' \subseteq Nat
  <2>1. notified \subseteq Nat /\ untold \subseteq Nat /\ unnoticed \subseteq Nat
        /\ Len(alerts) + 1 \in Nat /\ Reopened \subseteq Nat
    BY DEF WellFormed, TypeOK, Ids, Reopened
  <2>2. UpdateRow(w) => write[w].row \in Nat
    BY DEF UpdateRow, WellFormed, WriteInProgress, Writes
  <2> QED BY <2>1, <2>2 DEF CommitUnanswered
<1>5. TypeOK'
  BY <1>1, <1>2, <1>3, <1>4 DEF WellFormed, TypeOK, Stage, Forgotten
<1>6. TaskInProgress'
  BY <1>3 DEF WellFormed, TypeOK, TaskInProgress
<1>7. WriteInProgress'
  BY <1>2, <1>3 DEF WellFormed, TypeOK, WriteInProgress
<1> QED BY <1>1, <1>2, <1>5, <1>6, <1>7 DEF WellFormed, RequestInProgress

LEMMA PublishWellFormed ==
  ASSUME WellFormed, NEW w \in Workers, Publish(w)
  PROVE  WellFormed'
<1> USE DEF queueVars, faultVars, Move
<1>1. /\ write[w] \in Writes /\ write[w].row \in Ids /\ write[w].row \in 1..Len(shown)
      /\ write[w].row \in Nat
  BY RowType DEF Publish, WellFormed, WriteInProgress, TypeOK
<1>2. PICK told, sent \in BOOLEAN :
        /\ Tell(write[w], told) /\ Notify(write[w], sent)
        /\ failures' = failures \/ (failures < MaxFailures /\ failures' = failures + 1)
  BY DEF Publish
<1>3. shown' \in Seq({"silent", "triggered", "resolved"}) /\ Len(shown') = Len(shown)
  <2>1. Status(write[w]) \in {"silent", "triggered", "resolved"}
    BY DEF Status
  <2>2. \/ shown' = shown
        \/ shown' = [shown EXCEPT ![write[w].row] = Status(write[w])]
    BY <1>2 DEF Tell
  <2>3. PICK event \in {"silent", "triggered", "resolved"} :
          \/ shown' = shown
          \/ shown' = [shown EXCEPT ![write[w].row] = event]
    BY <2>1, <2>2
  <2>4. shown \in Seq({"silent", "triggered", "resolved"})
    BY DEF WellFormed, TypeOK
  <2> QED BY <1>1, <2>3, <2>4, ExceptSeq
<1>4. notified' \subseteq Nat /\ untold' \subseteq Nat /\ unnoticed' \subseteq Nat
  BY <1>1, <1>2 DEF Tell, Notify, Opening, WellFormed, TypeOK
<1>5. failures' \in 0..MaxFailures
  BY <1>2, BoundsAssumption DEF WellFormed, TypeOK
<1>6. TypeOK'
  BY <1>3, <1>4, <1>5 DEF Publish, WellFormed, TypeOK, Stage
<1> QED BY <1>6, WorkerMoves DEF Publish, WellFormed, TypeOK, TaskInProgress

\* What is lost with a dying worker are events of rows that exist.
LEMMA LostEvents ==
  ASSUME WellFormed, NEW W \in SUBSET Workers, LoseEvents(W)
  PROVE  /\ untold' \subseteq Nat /\ unnoticed' \subseteq Nat
         /\ untold \subseteq untold' /\ unnoticed \subseteq unnoticed'
         /\ \A w \in W : pc[w] = "publishing" =>
              write[w].row \in untold' /\ Opening(write[w]) \subseteq unnoticed'
         /\ UNCHANGED <<alerts, shown, notified>>
<1>1. \A w \in W : pc[w] = "publishing" => write[w].row \in Nat
  BY DEF WellFormed, WriteInProgress, Writes
<1> DEFINE publishing == {w \in W : pc[w] = "publishing"}
<1>2. /\ untold' = untold \cup {write[w].row : w \in publishing}
      /\ unnoticed' = unnoticed \cup UNION {Opening(write[w]) : w \in publishing}
      /\ UNCHANGED <<alerts, shown, notified>>
  BY DEF LoseEvents
<1>3. \A w \in publishing : Opening(write[w]) \subseteq Nat
  BY <1>1 DEF Opening
<1>4. untold \subseteq Nat /\ unnoticed \subseteq Nat
  BY DEF WellFormed, TypeOK
<1>5. UNION {Opening(write[w]) : w \in publishing} \subseteq Nat
  BY <1>3
<1>6. \A w \in publishing :
        Opening(write[w]) \subseteq UNION {Opening(write[v]) : v \in publishing}
  OBVIOUS
<1> QED BY <1>1, <1>2, <1>4, <1>5, <1>6

LEMMA KillWellFormed ==
  ASSUME WellFormed, NEW w \in Workers, Kill(w)
  PROVE  WellFormed'
<1>1. /\ UNCHANGED <<alerts, shown, notified>>
      /\ untold' \subseteq Nat /\ unnoticed' \subseteq Nat
  BY LostEvents DEF Kill
<1>2. killed' \subseteq 1..MaxTasks
  BY DEF Kill, WellFormed, TypeOK, TaskInProgress, Tasks
<1>3. crashes' \in 0..MaxCrashes
  BY BoundsAssumption DEF Kill, WellFormed, TypeOK
<1>4. TypeOK'
  BY <1>1, <1>2, <1>3 DEF Kill, Release, Move, EndAttempt, WellFormed, TypeOK, Stage, Forgotten
<1> QED BY <1>1, <1>4, WorkerMoves DEF Kill, Release, Move, EndAttempt, WellFormed, TypeOK

LEMMA AcknowledgeKeepsRows ==
  ASSUME WellFormed, NEW u \in Admins, AcknowledgeCommit(u)
  PROVE  /\ alerts' \in Seq(Rows)
         /\ Len(alerts') = Len(alerts) /\ Ids' = Ids
         /\ \A r \in Ids : /\ alerts'[r].level = alerts[r].level
                           /\ alerts[r].resolved => alerts'[r].resolved
<1> DEFINE id == request[u].row
           old == request[u].old
<1>1. id \in Ids /\ id \in 1..Len(alerts) /\ alerts[id] \in Rows
  BY RowType DEF AcknowledgeCommit, WellFormed, RequestInProgress
<1>2. PICK now \in Times : alerts' = [alerts EXCEPT ![id] =
                             Acknowledged(alerts[id], old, u, now)]
  BY DEF AcknowledgeCommit
<1> DEFINE new == Acknowledged(alerts[id], old, u, now)
<1>3. alerts' = [alerts EXCEPT ![id] = new]
  BY <1>2
<1>4. new \in Rows /\ new.level = alerts[id].level /\ new.resolved = TRUE
  BY <1>1 DEF Rows, Acknowledged
<1> HIDE DEF new, id, old
<1>5. alerts \in Seq(Rows)
  BY DEF WellFormed, TypeOK
<1>6. alerts' \in Seq(Rows) /\ Len(alerts') = Len(alerts)
  BY <1>1, <1>3, <1>4, <1>5, ExceptSeq
<1> QED BY <1>1, <1>3, <1>4, <1>5, <1>6 DEF Ids

LEMMA AcknowledgeWellFormed ==
  ASSUME WellFormed, NEW u \in Admins, AcknowledgeCommit(u)
  PROVE  WellFormed'
<1>1. request' = [request EXCEPT ![u] = Nothing]
  BY DEF AcknowledgeCommit
<1>2. UNCHANGED <<shown, notified, untold, unnoticed, queueVars, workerVars, faultVars>>
  BY DEF AcknowledgeCommit
<1>3. TypeOK'
  BY <1>1, <1>2, AcknowledgeKeepsRows
     DEF WellFormed, TypeOK, queueVars, workerVars, faultVars
<1> QED BY <1>1, <1>2, <1>3, AcknowledgeKeepsRows
        DEF WellFormed, TypeOK, TaskInProgress, WriteInProgress, RequestInProgress,
            workerVars

\* Whatever is batched, retried, acknowledged or crashes, the variables keep their
\* types, and a pending write or request refers to a row of its own level.
THEOREM AlertsWellFormed == Spec => []WellFormed
<1> USE BoundsAssumption
<1>1. Init => WellFormed
  BY DEF Init, WellFormed, TypeOK, TaskInProgress, WriteInProgress,
         RequestInProgress, Stage, Forgotten, Ids
<1>2. WellFormed /\ [Next]_vars => WellFormed'
  <2> SUFFICES ASSUME WellFormed, [Next]_vars PROVE WellFormed'
    OBVIOUS
  <2> USE DEF Stage, tableVars, queueVars, workerVars, faultVars
  <2>1. ASSUME NEW batch \in Batches, Submit(batch)
        PROVE  WellFormed'
    <3>1. [id |-> submitted + 1, readings |-> batch, retries |-> 0] \in Tasks
      BY <2>1 DEF Submit, Tasks, WellFormed, TypeOK
    <3>2. TypeOK'
      BY <2>1, <3>1 DEF Submit, WellFormed, TypeOK
    <3> QED BY <2>1, <3>2 DEF Submit, WellFormed, TaskInProgress, WriteInProgress,
                              RequestInProgress, Ids
  <2>2. ASSUME NEW w \in Workers, WorkerStep(w)
        PROVE  WellFormed'
    BY <2>2, TakeWellFormed, StartFinishWellFormed, CloseWellFormed,
       TriggerWellFormed, CommitWellFormed, PublishWellFormed DEF WorkerStep
  <2>3. ASSUME NEW w \in Workers, TaskError(w) \/ CommitUnanswered(w) \/ Kill(w)
        PROVE  WellFormed'
    <3>1. CASE TaskError(w)
      BY <3>1, RaiseWellFormed DEF TaskError, WellFormed, TypeOK
    <3> QED BY <2>3, <3>1, UnansweredWellFormed, KillWellFormed
  <2>4. ASSUME NEW u \in Admins, AcknowledgeCommit(u)
        PROVE  WellFormed'
    BY <2>4, AcknowledgeWellFormed
  <2>5. ASSUME NEW u \in Admins, NEW r \in Ids, AcknowledgeLoad(u, r)
        PROVE  WellFormed'
    <3>1. [row |-> r, old |-> alerts[r]] \in [row : Nat, old : Rows]
      BY RowType DEF WellFormed
    <3>2. TypeOK'
      BY <2>5, <3>1 DEF AcknowledgeLoad, WellFormed, TypeOK
    <3> QED BY <2>5, <3>1, <3>2 DEF AcknowledgeLoad, WellFormed, TypeOK, TaskInProgress,
                              WriteInProgress, RequestInProgress, Ids
  <2>6. CASE Crash
    <3>1. {task[w] : w \in {v \in Workers : pc[v] # "idle"}} \subseteq Tasks
      BY DEF WellFormed, TaskInProgress
    <3>2. /\ UNCHANGED <<alerts, shown, notified>>
          /\ untold' \subseteq Nat /\ unnoticed' \subseteq Nat
      BY <2>6, LostEvents DEF Crash
    <3>3. TypeOK'
      BY <2>6, <3>1, <3>2 DEF Crash, WellFormed, TypeOK, Forgotten
    <3> QED BY <2>6, <3>2, <3>3 DEF Crash, WellFormed, TaskInProgress,
                              WriteInProgress, RequestInProgress, Ids
  <2>7. CASE UNCHANGED vars
    BY <2>7 DEF vars, WellFormed, TypeOK, TaskInProgress, WriteInProgress,
                RequestInProgress, Ids
  <2> QED BY <2>1, <2>2, <2>3, <2>4, <2>5, <2>6, <2>7 DEF Next
<1> QED BY <1>1, <1>2, PTL DEF Spec

\* In particular the variables keep their types: no retry beyond max_retries, one
\* shown status per row.
THEOREM AlertsTypeCorrect == Spec => []TypeOK
<1>1. WellFormed => TypeOK
  BY DEF WellFormed
<1> QED BY <1>1, AlertsWellFormed, PTL

-----------------------------------------------------------------------------
(* One worker keeps at most one open alert per level.                       *)

\* A step that inserts nothing and opens nothing.
LEMMA NothingOpens ==
  ASSUME Ids' = Ids,
         \A r \in Ids : /\ alerts'[r].level = alerts[r].level
                        /\ alerts[r].resolved => alerts'[r].resolved
  PROVE  /\ \A l \in Levels : Open(l)' \subseteq Open(l)
         /\ UniqueOpen => UniqueOpen'
<1>1. \A l \in Levels : Open(l)' \subseteq Open(l)
  BY DEF Open, Ids
<1> QED BY <1>1 DEF UniqueOpen, Ambiguous

LEMMA TableUnchanged ==
  ASSUME UNCHANGED alerts
  PROVE  /\ \A l \in Levels : Open(l)' = Open(l)
         /\ UniqueOpen => UniqueOpen'
BY DEF Open, Ids, UniqueOpen, Ambiguous

\* With one worker, a step after which it has nothing flushed leaves nothing to open.
LEMMA NothingFlushed ==
  ASSUME \A v, w \in Workers : v = w, NEW w \in Workers, pc'[w] # "committing"
  PROVE  OpensClosedLevel'
BY DEF OpensClosedLevel

\* The flush of the only worker opens a level that the table has closed.
LEMMA FlushedOpensClosed ==
  ASSUME WellFormed, \A v, w \in Workers : v = w, UNCHANGED alerts,
         NEW w \in Workers, NEW kind, NEW l \in Levels, NEW r, NEW columns,
         Flush(w, kind, l, r, columns),
         kind \in {"insert", "reopen"} => Open(l) = {},
         kind = "update" => columns = {}
  PROVE  OpensClosedLevel'
<1>1. PICK c : /\ write' = [write EXCEPT ![w] = c]
               /\ c.kind = kind /\ c.level = l /\ c.columns = columns
  <2> DEFINE d == [kind |-> kind, level |-> l, row |-> r, ts |-> Reading(w).ts,
                   columns |-> columns]
  <2>1. d.kind = kind /\ d.level = l /\ d.columns = columns
    OBVIOUS
  <2>2. write' = [write EXCEPT ![w] = d]
    BY DEF Flush
  <2> HIDE DEF d
  <2> QED BY <2>1, <2>2
<1>2. write'[w] = c
  BY <1>1 DEF WellFormed, TypeOK
<1>3. Open(l)' = Open(l)
  BY TableUnchanged
<1>4. \A v \in Workers : v = w
  OBVIOUS
<1> QED BY <1>1, <1>2, <1>3, <1>4 DEF OpensClosedLevel, Open, Ids

\* What the only worker flushes opens a closed level, or updates no column that
\* says whether the alert is open.
LEMMA FlushOpensClosed ==
  ASSUME WellFormed, \A v, w \in Workers : v = w, UniqueOpen, OpensClosedLevel,
         NEW w \in Workers, CloseOpenAlert(w) \/ TriggerAlert(w)
  PROVE  UniqueOpen' /\ OpensClosedLevel'
<1>1. UNCHANGED alerts
  BY DEF CloseOpenAlert, TriggerAlert, tableVars
<1>2. ASSUME Raise(w)
      PROVE  OpensClosedLevel'
  <2>1. pc'[w] # "committing"
    BY <1>2 DEF Raise, SendRetry, Move, WellFormed, TypeOK
  <2> QED BY <2>1, NothingFlushed
<1>3. CASE CloseOpenAlert(w)
  <2>1. PICK l \in closing[w] : \/ CloseNothing(w, l)
                                \/ CloseOne(w, l)
                                \/ Raise(w)
    BY <1>3 DEF CloseOpenAlert
  <2>2. l \in Levels /\ pc[w] = "matching"
    BY <1>3 DEF CloseOpenAlert, WellFormed, TypeOK
  <2>3. CASE CloseOne(w, l)
    <3>1. PICK r, columns : Flush(w, "close", l, r, columns)
      BY <2>3 DEF CloseOne
    <3>2. "close" \notin {"insert", "reopen"} /\ "close" # "update"
      OBVIOUS
    <3> QED BY <1>1, <2>2, <3>1, <3>2, FlushedOpensClosed, TableUnchanged
  <2>4. CASE CloseNothing(w, l)
    <3>1. pc'[w] # "committing"
      BY <2>2, <2>4 DEF CloseNothing
    <3> QED BY <1>1, <3>1, NothingFlushed, TableUnchanged
  <2> QED BY <1>1, <1>2, <2>1, <2>3, <2>4, TableUnchanged
<1>4. CASE TriggerAlert(w)
  <2>1. PICK l \in firing[w] : UpdateOpen(w, l) \/ Reopen(w, l) \/ Insert(w, l) \/ Raise(w)
    BY <1>4 DEF TriggerAlert
  <2>2. l \in Levels
    BY <1>4 DEF TriggerAlert, WellFormed, TypeOK
  <2>3. CASE UpdateOpen(w, l)
    <3>1. PICK r : Flush(w, "update", l, r, {})
      BY <2>3 DEF UpdateOpen
    <3>2. "update" \notin {"insert", "reopen"}
      OBVIOUS
    <3> QED BY <1>1, <2>2, <3>1, <3>2, FlushedOpensClosed, TableUnchanged
  <2>4. CASE Reopen(w, l)
    <3>1. PICK r, columns : Flush(w, "reopen", l, r, columns)
      BY <2>4 DEF Reopen
    <3>2. Open(l) = {} /\ "reopen" # "update"
      BY <2>4 DEF Reopen
    <3> QED BY <1>1, <2>2, <3>1, <3>2, FlushedOpensClosed, TableUnchanged
  <2>5. CASE Insert(w, l)
    <3>1. Flush(w, "insert", l, 0, {}) /\ Open(l) = {} /\ "insert" # "update"
      BY <2>5 DEF Insert
    <3> QED BY <1>1, <2>2, <3>1, FlushedOpensClosed, TableUnchanged
  <2> QED BY <1>1, <1>2, <2>1, <2>3, <2>4, <2>5, TableUnchanged
<1> QED BY <1>3, <1>4

LEMMA CommitKeepsUnique ==
  ASSUME WellFormed, \A v, w \in Workers : v = w, UniqueOpen, OpensClosedLevel,
         NEW w \in Workers, UpdateRow(w) \/ InsertRow(w), pc'[w] # "committing"
  PROVE  UniqueOpen' /\ OpensClosedLevel'
<1>1. OpensClosedLevel'
  BY DEF OpensClosedLevel
<1>2. write[w] \in Writes
  BY DEF UpdateRow, InsertRow, WellFormed, WriteInProgress
<1>3. CASE UpdateRow(w)
  <2> DEFINE id == write[w].row
  <2>1. Ids' = Ids /\ \A r \in Ids : alerts'[r].level = alerts[r].level
    BY <1>3, CommitKeepsRows
  <2>2. id \in Ids /\ alerts[id].level = write[w].level /\ alerts[id] \in Rows
    BY <1>3, RowType DEF UpdateRow, WellFormed, WriteInProgress
  <2>3. alerts' = [alerts EXCEPT ![id] = Written(alerts[id], write[w])]
    BY <1>3 DEF UpdateRow
  <2>4. \A r \in Ids : r # id => alerts'[r] = alerts[r]
    BY <2>3
  <2>5. alerts'[id].resolved = IF "resolved" \in write[w].columns
                               THEN write[w].kind = "close" ELSE alerts[id].resolved
    BY <2>2, <2>3 DEF Written, Ids, Rows
  <2>6. CASE write[w].kind \in {"close", "update"}
    <3>1. alerts[id].resolved => alerts'[id].resolved
      BY <1>3, <2>5, <2>6 DEF OpensClosedLevel, UpdateRow
    <3> QED BY <1>1, <2>1, <2>4, <3>1, NothingOpens
  <2>7. CASE write[w].kind = "reopen"
    <3>1. Open(write[w].level) = {}
      BY <1>3, <2>7 DEF OpensClosedLevel, UpdateRow
    <3>2. \A l \in Levels : Open(l)' \subseteq Open(l) \cup {id}
      BY <2>1, <2>4 DEF Open, Ids
    <3>3. \A l \in Levels : l # write[w].level => id \notin Open(l)'
      BY <2>1, <2>2 DEF Open
    <3> QED BY <1>1, <3>1, <3>2, <3>3 DEF UniqueOpen, Ambiguous
  <2> QED BY <1>2, <1>3, <2>6, <2>7 DEF UpdateRow, Writes, Kinds
<1>4. CASE InsertRow(w)
  <2> DEFINE id == Len(alerts) + 1
             row == [level |-> write[w].level, resolved |-> FALSE,
                     ended |-> NoTime, by |-> Nobody]
  <2>1. alerts' = Append(alerts, row) /\ row.level = write[w].level
    BY <1>4 DEF InsertRow
  <2> HIDE DEF row
  <2>2. alerts \in Seq(Rows)
    BY DEF WellFormed, TypeOK
  <2>3. /\ Ids = 1..Len(alerts) /\ Ids' = Ids \cup {id}
        /\ \A r \in Ids : alerts'[r] = alerts[r]
        /\ alerts'[id] = row
    BY <2>1, <2>2 DEF Ids
  <2>4. \A l \in Levels : Open(l)' \subseteq Open(l) \cup {id}
    BY <2>3 DEF Open
  <2>5. \A l \in Levels : l # write[w].level => id \notin Open(l)'
    BY <2>1, <2>3 DEF Open
  <2>6. Open(write[w].level) = {}
    BY <1>4 DEF InsertRow, OpensClosedLevel
  <2> QED BY <1>1, <2>4, <2>5, <2>6 DEF UniqueOpen, Ambiguous
<1> QED BY <1>3, <1>4

LEMMA OneWorkerOpens ==
  ASSUME \A v, w \in Workers : v = w
  PROVE  Spec => [](UniqueOpen /\ OpensClosedLevel)
<1>1. Init => UniqueOpen /\ OpensClosedLevel
  BY DEF Init, UniqueOpen, Ambiguous, Open, Ids, OpensClosedLevel
<1>2. WellFormed /\ UniqueOpen /\ OpensClosedLevel /\ [Next]_vars
      => UniqueOpen' /\ OpensClosedLevel'
  <2> SUFFICES ASSUME WellFormed, UniqueOpen, OpensClosedLevel, [Next]_vars
               PROVE  UniqueOpen' /\ OpensClosedLevel'
    OBVIOUS
  <2> USE DEF tableVars, queueVars, workerVars, faultVars
  <2>1. ASSUME NEW batch \in Batches, Submit(batch)
        PROVE  UniqueOpen' /\ OpensClosedLevel'
    BY <2>1, TableUnchanged DEF Submit, OpensClosedLevel, Open, Ids
  <2>2. ASSUME NEW w \in Workers, WorkerStep(w)
        PROVE  UniqueOpen' /\ OpensClosedLevel'
    <3>1. CASE CloseOpenAlert(w) \/ TriggerAlert(w)
      BY <3>1, FlushOpensClosed
    <3>2. CASE CommitUpdate(w) \/ CommitInsert(w)
      <4>1. UpdateRow(w) \/ InsertRow(w)
        BY <3>2 DEF CommitUpdate, CommitInsert
      <4>2. pc'[w] # "committing"
        BY <3>2 DEF CommitUpdate, CommitInsert, Move, WellFormed, TypeOK
      <4> QED BY <4>1, <4>2, CommitKeepsUnique
    <3>3. CASE \/ Take(w) \/ StartReading(w) \/ FinishReading(w)
               \/ FinishBatch(w) \/ Publish(w) \/ AcknowledgeTask(w)
      <4>1. UNCHANGED alerts /\ pc'[w] # "committing"
        BY <3>3 DEF Take, StartReading, FinishReading, FinishBatch, Publish, Move,
                    AcknowledgeTask, Release, WellFormed, TypeOK
      <4> QED BY <4>1, TableUnchanged DEF OpensClosedLevel
    <3> QED BY <2>2, <3>1, <3>2, <3>3 DEF WorkerStep
  <2>3. ASSUME NEW w \in Workers, TaskError(w) \/ CommitUnanswered(w) \/ Kill(w)
        PROVE  UniqueOpen' /\ OpensClosedLevel'
    <3>1. pc'[w] # "committing"
      BY <2>3 DEF TaskError, CommitUnanswered, Raise, SendRetry, Kill, Release, Move,
                  WellFormed, TypeOK
    <3>2. CASE CommitUnanswered(w)
      BY <3>1, <3>2, CommitKeepsUnique DEF CommitUnanswered
    <3>3. CASE TaskError(w) \/ Kill(w)
      <4>1. UNCHANGED alerts
        BY <3>3 DEF TaskError, Kill, LoseEvents
      <4> QED BY <3>1, <4>1, TableUnchanged DEF OpensClosedLevel
    <3> QED BY <2>3, <3>2, <3>3
  <2>4. ASSUME NEW u \in Admins, AcknowledgeCommit(u)
        PROVE  UniqueOpen' /\ OpensClosedLevel'
    <3>1. /\ Ids' = Ids
          /\ \A r \in Ids : /\ alerts'[r].level = alerts[r].level
                            /\ alerts[r].resolved => alerts'[r].resolved
      BY <2>4, AcknowledgeKeepsRows
    <3>2. UniqueOpen' /\ \A l \in Levels : Open(l)' \subseteq Open(l)
      BY <3>1, NothingOpens
    <3>3. \A w \in Workers : pc[w] = "committing" => write[w].level \in Levels
      BY DEF WellFormed, WriteInProgress, Writes
    <3>4. UNCHANGED <<pc, write>>
      BY <2>4 DEF AcknowledgeCommit
    <3> QED BY <3>2, <3>3, <3>4 DEF OpensClosedLevel
  <2>5. ASSUME NEW u \in Admins, NEW r \in Ids, AcknowledgeLoad(u, r)
        PROVE  UniqueOpen' /\ OpensClosedLevel'
    BY <2>5, TableUnchanged DEF AcknowledgeLoad, OpensClosedLevel, Open, Ids
  <2>6. CASE Crash
    BY <2>6, TableUnchanged DEF Crash, LoseEvents, OpensClosedLevel
  <2>7. CASE UNCHANGED vars
    BY <2>7, TableUnchanged DEF vars, OpensClosedLevel, Open, Ids
  <2> QED BY <2>1, <2>2, <2>3, <2>4, <2>5, <2>6, <2>7 DEF Next
<1> QED BY AlertsWellFormed, <1>1, <1>2, PTL DEF Spec

\* With one worker no level ever has two open alerts.
THEOREM OneWorkerKeepsUnique ==
  ASSUME \A v, w \in Workers : v = w
  PROVE  Spec => []UniqueOpen
BY OneWorkerOpens, PTL

-----------------------------------------------------------------------------
(* What the session of the only worker holds agrees with the table.         *)

\* Nothing but the table moves, and it only by acknowledgements.
LEMMA CalmSession ==
  ASSUME SessionInvariant, WellFormed, UNCHANGED workerVars, Ids' = Ids,
         \A r \in Ids : /\ alerts'[r].level = alerts[r].level
                        /\ alerts[r].resolved => alerts'[r].resolved
                        /\ alerts'[r] = alerts[r] \/ AcknowledgedRow(r)'
  PROVE  MemoryAgrees' /\ FlushedDecides' /\ EventIsTrue' /\ MatchingLeaves'
<1>1. \A l \in Levels : Open(l)' \subseteq Open(l)
  BY NothingOpens
<1>2. OpenLevels' \subseteq OpenLevels
  BY <1>1 DEF OpenLevels
<1>3. UNCHANGED <<pc, task, at, closing, firing, memory, write>>
  BY DEF workerVars
<1>4. \A r \in Ids : /\ AcknowledgedRow(r) => AcknowledgedRow(r)'
                     /\ StillOpen(r) => StillOpen(r)'
  BY DEF AcknowledgedRow, StillOpen
<1>5. \A w \in Workers : \A r : Pending(w, r)' <=> Pending(w, r)
  BY <1>3 DEF Pending
<1>6. MemoryAgrees'
  <2> SUFFICES ASSUME NEW w \in Workers, NEW name \in {"alert", "closed"},
                      memory[w][name] # Nothing, NEW r, r = memory[w][name].row
               PROVE  /\ r \in Ids
                      /\ Pending(w, r) => memory[w][name].resolved = (write[w].kind = "close")
                      /\ ~Pending(w, r) => \/ memory[w][name].resolved = alerts'[r].resolved
                                          \/ AcknowledgedRow(r)'
    BY <1>3, <1>5 DEF MemoryAgrees
  <2>1. /\ r \in Ids
        /\ Pending(w, r) => memory[w][name].resolved = (write[w].kind = "close")
        /\ ~Pending(w, r) => \/ memory[w][name].resolved = alerts[r].resolved
                            \/ AcknowledgedRow(r)
    BY DEF SessionInvariant, MemoryAgrees
  <2>2. alerts'[r] = alerts[r] \/ AcknowledgedRow(r)'
    BY <2>1
  <2> QED BY <1>4, <2>1, <2>2
<1>7. \A w \in Workers : pc[w] \in {"committing", "publishing"} =>
        /\ write[w].level \in Levels
        /\ write[w].kind # "insert" \/ pc[w] = "publishing" => write[w].row \in Ids
  BY DEF WellFormed, WriteInProgress, Writes
<1>8. FlushedDecides'
  BY <1>1, <1>3, <1>4, <1>7 DEF SessionInvariant, FlushedDecides
<1>9. EventIsTrue'
  BY <1>1, <1>3, <1>4, <1>7 DEF SessionInvariant, EventIsTrue
<1>10. MatchingLeaves'
  BY <1>2, <1>3 DEF SessionInvariant, MatchingLeaves, Reading
<1> QED BY <1>6, <1>8, <1>9, <1>10

\* Between readings the session holds committed rows or nothing.
LEMMA SessionRests ==
  ASSUME SessionInvariant, WellFormed, UNCHANGED alerts,
         \A w \in Workers :
           /\ pc'[w] \notin {"matching", "committing", "publishing"}
           /\ memory'[w] = Forgotten \/ (memory'[w] = memory[w] /\ pc[w] # "committing")
  PROVE  MemoryAgrees' /\ FlushedDecides' /\ EventIsTrue' /\ MatchingLeaves'
<1>1. MemoryAgrees'
  BY DEF SessionInvariant, MemoryAgrees, Forgotten, Pending, Ids, AcknowledgedRow
<1>2. FlushedDecides' /\ EventIsTrue' /\ MatchingLeaves'
  BY DEF FlushedDecides, EventIsTrue, MatchingLeaves
<1> QED BY <1>1, <1>2

\* What the session reads of a row, in the middle of a reading.
LEMMA LoadedAgrees ==
  ASSUME WellFormed, MemoryAgrees, NEW w \in Workers, pc[w] # "committing", NEW r \in Ids
  PROVE  /\ Loaded(w, r) \in Entries /\ Loaded(w, r).row = r
         /\ Loaded(w, r).resolved = alerts[r].resolved \/ AcknowledgedRow(r)
<1> DEFINE held == {name \in DOMAIN memory[w] :
                      memory[w][name] # Nothing /\ memory[w][name].row = r}
<1>1. memory[w] \in [{"alert", "closed"} -> Entries \cup {Nothing}]
  BY DEF WellFormed, TypeOK
<1>2. CASE held # {}
  <2>1. PICK name \in held : Loaded(w, r) = memory[w][name]
    BY <1>2 DEF Loaded
  <2>2. ~Pending(w, r)
    BY DEF Pending
  <2> QED BY <1>1, <2>1, <2>2, LoadedType DEF MemoryAgrees
<1>3. CASE held = {}
  BY <1>3, LoadedType DEF Loaded
<1> QED BY <1>2, <1>3

LEMMA RememberedRows ==
  ASSUME WellFormed, NEW w \in Workers, NEW name \in {"alert", "closed"},
         NEW entry, Remember(w, name, entry), NEW n \in {"alert", "closed"}
  PROVE  \/ memory'[w][n] = entry
         \/ /\ memory'[w][n] = memory[w][n]
            /\ memory[w][n] = Nothing \/ memory[w][n].row # entry.row
BY DEF WellFormed, TypeOK, Remember

\* The only worker is between two row operations of a reading.
LEMMA SessionMatches ==
  ASSUME SessionInvariant, WellFormed, \A v, w \in Workers : v = w, NEW w \in Workers,
         UNCHANGED alerts, pc[w] # "committing", pc'[w] = "matching",
         \A n \in {"alert", "closed"} :
           memory'[w][n] = memory[w][n] \/ memory'[w][n] = Nothing,
         OpenLevels \subseteq Reading(w)'.fires \cup closing'[w],
         firing'[w] \subseteq Reading(w)'.fires
  PROVE  MemoryAgrees' /\ FlushedDecides' /\ EventIsTrue' /\ MatchingLeaves'
<1>1. \A v \in Workers : v = w
  OBVIOUS
<1>2. \A r : ~Pending(w, r) /\ ~Pending(w, r)'
  BY DEF Pending
<1>3. MemoryAgrees'
  BY <1>1, <1>2 DEF SessionInvariant, MemoryAgrees, Ids, AcknowledgedRow
<1>4. FlushedDecides' /\ EventIsTrue'
  BY <1>1 DEF FlushedDecides, EventIsTrue
<1>5. OpenLevels' = OpenLevels
  BY DEF OpenLevels, Open, Ids
<1>6. MatchingLeaves'
  BY <1>1, <1>5 DEF MatchingLeaves
<1> QED BY <1>3, <1>4, <1>6

LEMMA StartSession ==
  ASSUME SessionInvariant, WellFormed, \A v, w \in Workers : v = w, NEW w \in Workers,
         StartReading(w)
  PROVE  MemoryAgrees' /\ FlushedDecides' /\ EventIsTrue' /\ MatchingLeaves'
<1>1. /\ UNCHANGED <<alerts, task, at, memory>>
      /\ pc[w] # "committing" /\ pc'[w] = "matching"
      /\ closing'[w] = OpenLevels \ Reading(w).fires
      /\ firing'[w] = Reading(w).fires
  BY DEF StartReading, Move, tableVars, WellFormed, TypeOK
<1>2. Reading(w)' = Reading(w)
  BY <1>1 DEF Reading
<1> QED BY <1>1, <1>2, SessionMatches

LEMMA CloseNothingSession ==
  ASSUME SessionInvariant, WellFormed, \A v, w \in Workers : v = w, NEW w \in Workers,
         NEW l \in Levels, pc[w] = "matching", UNCHANGED alerts, CloseNothing(w, l)
  PROVE  MemoryAgrees' /\ FlushedDecides' /\ EventIsTrue' /\ MatchingLeaves'
<1>1. /\ UNCHANGED <<task, at, firing>> /\ pc'[w] = "matching"
      /\ closing'[w] = closing[w] \ {l} /\ l \notin OpenLevels
  BY DEF CloseNothing, WellFormed, TypeOK, OpenLevels
<1>2. Reading(w)' = Reading(w)
  BY <1>1 DEF Reading
<1>3. \A n \in {"alert", "closed"} : memory'[w][n] = memory[w][n] \/ memory'[w][n] = Nothing
  BY DEF CloseNothing, WellFormed, TypeOK
<1>4. OpenLevels \subseteq Reading(w).fires \cup closing[w] /\ firing[w] \subseteq Reading(w).fires
  BY DEF SessionInvariant, MatchingLeaves
<1> QED BY <1>1, <1>2, <1>3, <1>4, SessionMatches

\* The only worker flushes a change of row r, if there is a row to change, and
\* its variables refer to rows as the change leaves them.
LEMMA FlushedSession ==
  ASSUME SessionInvariant, WellFormed, \A v, w \in Workers : v = w, NEW w \in Workers,
         pc[w] = "matching", UNCHANGED <<alerts, task, at, closing, firing>>,
         NEW kind \in Kinds, NEW l \in Levels, NEW r \in Nat,
         NEW columns \in SUBSET {"resolved", "ended"},
         Flush(w, kind, l, r, columns),
         \A n \in {"alert", "closed"} :
           \/ memory'[w][n] = Nothing
           \/ /\ memory'[w][n].row = r /\ r \in Ids
              /\ kind \in {"close", "reopen"} => memory'[w][n].resolved = (kind = "close")
              /\ kind \notin {"close", "reopen"} =>
                   memory'[w][n].resolved = alerts[r].resolved \/ AcknowledgedRow(r)
           \/ memory'[w][n] = memory[w][n] /\ memory[w][n].row # r,
         kind = "close" => "resolved" \in columns /\ Open(l) \subseteq {r},
         kind = "reopen" => "resolved" \in columns \/ AcknowledgedRow(r),
         kind = "update" => StillOpen(r),
         kind # "close" => l \in firing[w]
  PROVE  MemoryAgrees' /\ FlushedDecides' /\ EventIsTrue' /\ MatchingLeaves'
<1>1. \A v \in Workers : v = w
  OBVIOUS
<1>2. /\ write'[w].kind = kind /\ write'[w].level = l /\ write'[w].row = r
      /\ pc'[w] = "committing"
  BY FlushType DEF WellFormed, TypeOK
<1>3. write'[w].columns = columns
  <2> DEFINE d == [kind |-> kind, level |-> l, row |-> r, ts |-> Reading(w).ts,
                   columns |-> columns]
  <2>1. write' = [write EXCEPT ![w] = d] /\ d.columns = columns
    BY DEF Flush
  <2> HIDE DEF d
  <2> QED BY <2>1 DEF WellFormed, TypeOK
<1>4. /\ \A q : ~Pending(w, q)
      /\ \A q : Pending(w, q)' <=> kind \in {"close", "reopen"} /\ q = r
  BY <1>2 DEF Pending
<1>5. \A q : AcknowledgedRow(q)' <=> AcknowledgedRow(q)
  BY DEF AcknowledgedRow
<1>6. MemoryAgrees'
  <2> SUFFICES ASSUME NEW n \in {"alert", "closed"}, memory'[w][n] # Nothing,
                      NEW q, q = memory'[w][n].row
               PROVE  /\ q \in Ids
                      /\ Pending(w, q)' => memory'[w][n].resolved = (write'[w].kind = "close")
                      /\ ~Pending(w, q)' => \/ memory'[w][n].resolved = alerts[q].resolved
                                           \/ AcknowledgedRow(q)
    BY <1>1, <1>5 DEF MemoryAgrees, Ids
  <2>1. CASE memory'[w][n] = memory[w][n] /\ memory[w][n].row # r
    BY <1>4, <2>1 DEF SessionInvariant, MemoryAgrees
  <2>2. CASE q = r
    BY <1>2, <1>4, <2>2 DEF SessionInvariant, MemoryAgrees
  <2> QED BY <2>1, <2>2
<1>7. \A k : Open(k)' = Open(k)
  BY DEF Open, Ids
<1>8. FlushedDecides' /\ EventIsTrue'
  BY <1>1, <1>2, <1>3, <1>5, <1>7 DEF FlushedDecides, EventIsTrue, StillOpen
<1>9. OpenLevels' = OpenLevels /\ Reading(w)' = Reading(w)
  BY <1>7 DEF OpenLevels, Reading
<1>10. MatchingLeaves'
  BY <1>1, <1>2, <1>9 DEF SessionInvariant, MatchingLeaves
<1> QED BY <1>6, <1>8, <1>10

\* When the attempt is over, nothing is left to agree.
LEMMA SessionIsOver ==
  ASSUME \A w \in Workers :
           /\ pc'[w] \notin {"matching", "committing", "publishing"}
           /\ memory'[w] = Forgotten
  PROVE  MemoryAgrees' /\ FlushedDecides' /\ EventIsTrue' /\ MatchingLeaves'
BY DEF MemoryAgrees, FlushedDecides, EventIsTrue, MatchingLeaves, Forgotten

LEMMA RaiseSession ==
  ASSUME SessionInvariant, WellFormed, \A v, w \in Workers : v = w, NEW w \in Workers,
         Raise(w)
  PROVE  MemoryAgrees' /\ FlushedDecides' /\ EventIsTrue' /\ MatchingLeaves'
<1>1. pc'[w] = "raised" /\ memory'[w] = Forgotten
  BY DEF Raise, SendRetry, EndAttempt, Move, WellFormed, TypeOK
<1> QED BY <1>1, SessionIsOver

LEMMA CloseSession ==
  ASSUME SessionInvariant, WellFormed, \A v, w \in Workers : v = w, UniqueOpen,
         NEW w \in Workers, CloseOpenAlert(w)
  PROVE  MemoryAgrees' /\ FlushedDecides' /\ EventIsTrue' /\ MatchingLeaves'
<1>1. PICK l \in closing[w] : CloseNothing(w, l) \/ CloseOne(w, l) \/ Raise(w)
  BY DEF CloseOpenAlert
<1>2. l \in Levels /\ pc[w] = "matching" /\ UNCHANGED alerts
  BY DEF CloseOpenAlert, tableVars, WellFormed, TypeOK
<1>3. CASE CloseOne(w, l)
  <2>1. PICK r \in Open(l) :
          LET new == [row |-> r, resolved |-> TRUE, ended |-> Reading(w).ts]
          IN Flush(w, "close", l, r, Changed(Loaded(w, r), new)) /\ Remember(w, "closed", new)
    BY <1>3 DEF CloseOne
  <2> DEFINE new == [row |-> r, resolved |-> TRUE, ended |-> Reading(w).ts]
             columns == Changed(Loaded(w, r), new)
  <2>2. Flush(w, "close", l, r, columns) /\ Remember(w, "closed", new)
    BY <2>1
  <2>3. r \in Ids /\ r \in Nat /\ ~alerts[r].resolved
    BY RowType DEF Open, WellFormed
  <2>4. Loaded(w, r) \in Entries /\ ~Loaded(w, r).resolved
    <3>1. ~AcknowledgedRow(r) /\ pc[w] # "committing"
      BY <1>2, <2>3 DEF AcknowledgedRow
    <3>2. alerts[r].resolved = FALSE /\ MemoryAgrees
      BY <2>3, RowType DEF SessionInvariant, WellFormed, Rows
    <3> QED BY <2>3, <3>1, <3>2, LoadedAgrees
  <2>5. columns \in SUBSET {"resolved", "ended"} /\ "resolved" \in columns
    BY <2>4 DEF Changed
  <2>6. new.row = r /\ new.resolved = TRUE
    OBVIOUS
  <2> HIDE DEF new, columns
  <2>7. Open(l) \subseteq {r}
    BY <1>2 DEF UniqueOpen, Ambiguous
  <2>8. \A n \in {"alert", "closed"} :
          \/ memory'[w][n] = Nothing
          \/ /\ memory'[w][n].row = r /\ r \in Ids
             /\ memory'[w][n].resolved = ("close" = "close")
          \/ memory'[w][n] = memory[w][n] /\ memory[w][n].row # r
    <3>1. new.resolved = ("close" = "close")
      BY <2>6
    <3> QED BY <2>2, <2>3, <2>6, <3>1, RememberedRows
  <2>9. UNCHANGED <<task, at, closing, firing>>
    BY <1>3 DEF CloseOne
  <2> QED BY <1>2, <2>2, <2>3, <2>5, <2>7, <2>8, <2>9, FlushedSession DEF Kinds
<1> QED BY <1>1, <1>2, <1>3, CloseNothingSession, RaiseSession

LEMMA TriggerSession ==
  ASSUME SessionInvariant, WellFormed, \A v, w \in Workers : v = w,
         NEW w \in Workers, TriggerAlert(w)
  PROVE  MemoryAgrees' /\ FlushedDecides' /\ EventIsTrue' /\ MatchingLeaves'
<1>1. PICK l \in firing[w] :
        \/ /\ UpdateOpen(w, l) \/ Reopen(w, l) \/ Insert(w, l)
           /\ UNCHANGED <<tasks, task, at, closing, firing>>
        \/ Raise(w)
  BY DEF TriggerAlert
<1>2. l \in Levels /\ pc[w] = "matching" /\ pc[w] # "committing" /\ UNCHANGED alerts
  BY DEF TriggerAlert, tableVars, WellFormed, TypeOK
<1>3. CASE UpdateOpen(w, l) /\ UNCHANGED <<tasks, task, at, closing, firing>>
  <2>1. PICK r \in Open(l) : Flush(w, "update", l, r, {}) /\ Remember(w, "alert", Loaded(w, r))
    BY <1>3 DEF UpdateOpen
  <2>2. r \in Ids /\ r \in Nat /\ StillOpen(r)
    BY RowType DEF Open, WellFormed, StillOpen
  <2>3. /\ Loaded(w, r).row = r
        /\ Loaded(w, r).resolved = alerts[r].resolved \/ AcknowledgedRow(r)
    BY <1>2, <2>2, LoadedAgrees DEF SessionInvariant
  <2>4. \A n \in {"alert", "closed"} :
          \/ memory'[w][n] = Nothing
          \/ /\ memory'[w][n].row = r /\ r \in Ids
             /\ memory'[w][n].resolved = alerts[r].resolved \/ AcknowledgedRow(r)
          \/ memory'[w][n] = memory[w][n] /\ memory[w][n].row # r
    BY <2>1, <2>2, <2>3, RememberedRows
  <2> QED BY <1>2, <1>3, <2>1, <2>2, <2>4, FlushedSession DEF Kinds
<1>4. CASE Reopen(w, l) /\ UNCHANGED <<tasks, task, at, closing, firing>>
  <2>1. PICK r \in Latest(Recent(w, l)) :
          LET new == [row |-> r, resolved |-> FALSE, ended |-> NoTime]
          IN Flush(w, "reopen", l, r, Changed(Loaded(w, r), new)) /\ Remember(w, "alert", new)
    BY <1>4 DEF Reopen
  <2> DEFINE new == [row |-> r, resolved |-> FALSE, ended |-> NoTime]
             columns == Changed(Loaded(w, r), new)
  <2>2. Flush(w, "reopen", l, r, columns) /\ Remember(w, "alert", new)
    BY <2>1
  <2>3. r \in Ids /\ r \in Nat /\ alerts[r].resolved
    BY RowType DEF Latest, Recent, WellFormed
  <2>4. Loaded(w, r) \in Entries /\ (Loaded(w, r).resolved \/ AcknowledgedRow(r))
    BY <1>2, <2>3, LoadedAgrees DEF SessionInvariant
  <2>5. columns \in SUBSET {"resolved", "ended"}
        /\ ("resolved" \in columns \/ AcknowledgedRow(r))
    BY <2>4 DEF Changed
  <2>6. new.row = r /\ new.resolved = FALSE
    OBVIOUS
  <2> HIDE DEF new, columns
  <2>7. \A n \in {"alert", "closed"} :
          \/ memory'[w][n] = Nothing
          \/ /\ memory'[w][n].row = r /\ r \in Ids
             /\ memory'[w][n].resolved = ("reopen" = "close")
          \/ memory'[w][n] = memory[w][n] /\ memory[w][n].row # r
    <3>1. new.resolved = ("reopen" = "close")
      BY <2>6
    <3> QED BY <2>2, <2>3, <2>6, <3>1, RememberedRows
  <2> QED BY <1>2, <1>4, <2>2, <2>3, <2>5, <2>7, FlushedSession DEF Kinds
<1>5. CASE Insert(w, l) /\ UNCHANGED <<tasks, task, at, closing, firing>>
  <2>1. Flush(w, "insert", l, 0, {}) /\ UNCHANGED memory
    BY <1>5 DEF Insert
  <2>2. \A n \in {"alert", "closed"} : memory[w][n] # Nothing => memory[w][n].row # 0
    BY RowType DEF SessionInvariant, MemoryAgrees, WellFormed
  <2>3. \A n \in {"alert", "closed"} :
          \/ memory'[w][n] = Nothing
          \/ memory'[w][n] = memory[w][n] /\ memory[w][n].row # 0
    BY <2>1, <2>2
  <2> QED BY <1>2, <1>5, <2>1, <2>3, FlushedSession DEF Kinds
<1> QED BY <1>1, <1>2, <1>3, <1>4, <1>5, RaiseSession

\* A commit decides whether the alert is open, and leaves who acknowledged it.
LEMMA CommittedRow ==
  ASSUME WellFormed, NEW w \in Workers, UpdateRow(w)
  PROVE  LET c == write[w]
         IN /\ c.row \in Ids /\ alerts[c.row].level = c.level
            /\ c.level \in Levels /\ c.kind \in {"close", "reopen", "update"}
            /\ alerts'[c.row].by = alerts[c.row].by
            /\ alerts'[c.row].resolved = IF "resolved" \in c.columns THEN c.kind = "close"
                                         ELSE alerts[c.row].resolved
            /\ \A r \in Ids : r # c.row => alerts'[r] = alerts[r]
<1>1. /\ write[w] \in Writes /\ write[w].row \in Ids
      /\ alerts[write[w].row].level = write[w].level
  BY DEF UpdateRow, WellFormed, WriteInProgress
<1>2. write[w].level \in Levels /\ write[w].kind \in {"close", "reopen", "update"}
  BY <1>1 DEF UpdateRow, Writes, Kinds
<1> DEFINE id == write[w].row
           new == Written(alerts[id], write[w])
<1>3. alerts' = [alerts EXCEPT ![id] = new]
  BY DEF UpdateRow
<1>4. alerts[id] \in Rows
  BY <1>1, RowType DEF WellFormed
<1>5. /\ new.by = alerts[id].by
      /\ new.resolved = IF "resolved" \in write[w].columns THEN write[w].kind = "close"
                        ELSE alerts[id].resolved
  BY <1>4 DEF Rows, Written
<1> HIDE DEF new
<1> QED BY <1>1, <1>2, <1>3, <1>5 DEF Ids

LEMMA CommitUpdateSession ==
  ASSUME SessionInvariant, WellFormed, OpensClosedLevel, \A v, w \in Workers : v = w,
         NEW w \in Workers, CommitUpdate(w)
  PROVE  MemoryAgrees' /\ FlushedDecides' /\ EventIsTrue' /\ MatchingLeaves'
<1> DEFINE c == write[w]
<1>14. UpdateRow(w)
  BY DEF CommitUpdate
<1>1. /\ c.row \in Ids /\ alerts[c.row].level = c.level
      /\ c.level \in Levels /\ c.kind \in {"close", "reopen", "update"}
      /\ alerts'[c.row].by = alerts[c.row].by
      /\ alerts'[c.row].resolved = IF "resolved" \in c.columns THEN c.kind = "close"
                                   ELSE alerts[c.row].resolved
      /\ \A r \in Ids : r # c.row => alerts'[r] = alerts[r]
  BY <1>14, CommittedRow
<1>2. Ids' = Ids /\ \A r \in Ids : alerts'[r].level = alerts[r].level
  BY <1>14, CommitKeepsRows
<1>3. /\ pc[w] = "committing" /\ pc'[w] = "publishing"
      /\ UNCHANGED <<memory, write, task, at, closing, firing>>
  BY DEF CommitUpdate, UpdateRow, Move, WellFormed, TypeOK
<1>4. \A v \in Workers : v = w
  OBVIOUS
<1>0. PICK id \in Ids, level \in Levels : id = c.row /\ level = c.level
  BY <1>1
<1>5. /\ c.kind = "close" => "resolved" \in c.columns /\ Open(c.level) \subseteq {c.row}
      /\ c.kind = "reopen" => "resolved" \in c.columns \/ AcknowledgedRow(c.row)
      /\ c.kind = "update" => StillOpen(c.row) /\ c.columns = {}
  BY <1>3 DEF SessionInvariant, FlushedDecides, OpensClosedLevel
<1>6. /\ c.kind = "close" => alerts'[id].resolved = TRUE
      /\ c.kind = "reopen" => alerts'[id].resolved = FALSE \/ AcknowledgedRow(id)'
      /\ c.kind = "update" => StillOpen(id)'
                             /\ alerts'[id].resolved = alerts[id].resolved
  BY <1>0, <1>1, <1>5 DEF AcknowledgedRow, StillOpen
<1>7. \A r : ~Pending(w, r)'
  BY <1>3 DEF Pending
<1>8. MemoryAgrees'
  <2> SUFFICES ASSUME NEW n \in {"alert", "closed"}, memory[w][n] # Nothing,
                      NEW r, r = memory[w][n].row
               PROVE  /\ r \in Ids
                      /\ \/ memory[w][n].resolved = alerts'[r].resolved
                         \/ AcknowledgedRow(r)'
    BY <1>2, <1>3, <1>4, <1>7 DEF MemoryAgrees
  <2>1. /\ r \in Ids
        /\ Pending(w, r) => memory[w][n].resolved = (c.kind = "close")
        /\ ~Pending(w, r) => \/ memory[w][n].resolved = alerts[r].resolved
                            \/ AcknowledgedRow(r)
    BY DEF SessionInvariant, MemoryAgrees
  <2>2. CASE r # id
    BY <1>0, <1>1, <2>1, <2>2 DEF Pending, AcknowledgedRow
  <2>3. CASE r = id /\ c.kind \in {"close", "reopen"}
    <3>1. Pending(w, r)
      BY <1>0, <1>3, <2>3 DEF Pending
    <3>2. memory[w][n].resolved = (c.kind = "close")
      BY <2>1, <3>1
    <3>3. CASE c.kind = "close"
      <4>1. memory[w][n].resolved = TRUE
        BY <3>2, <3>3
      <4> QED BY <1>6, <2>1, <2>3, <3>3, <4>1
    <3>4. CASE c.kind = "reopen"
      <4>1. memory[w][n].resolved = FALSE
        BY <3>2, <3>4
      <4> QED BY <1>6, <2>1, <2>3, <3>4, <4>1
    <3> QED BY <2>3, <3>3, <3>4
  <2>4. CASE r = id /\ c.kind = "update"
    <3>1. ~Pending(w, r)
      BY <1>0, <2>4 DEF Pending
    <3> QED BY <1>0, <1>1, <1>6, <2>1, <2>4, <3>1 DEF AcknowledgedRow
  <2> QED BY <1>1, <2>2, <2>3, <2>4
<1>9. \A l \in Levels : Open(l)' \subseteq Open(l) \cup {id}
  BY <1>0, <1>1, <1>2 DEF Open
<1>10. c.kind = "close" => Open(level)' = {}
  <2>1. c.kind = "close" => id \notin Open(level)'
    BY <1>6 DEF Open
  <2>2. Open(level)' \subseteq Open(level) \cup {id}
    BY <1>1, <1>9
  <2> QED BY <1>0, <1>5, <2>1, <2>2
<1>11. EventIsTrue'
  BY <1>0, <1>1, <1>3, <1>4, <1>6, <1>10 DEF EventIsTrue, StillOpen, AcknowledgedRow
<1>12. FlushedDecides'
  BY <1>3, <1>4 DEF FlushedDecides
<1>13. MatchingLeaves'
  <2>1. Reading(w)' = Reading(w)
    BY <1>3 DEF Reading
  <2>2. c.kind # "reopen" => Open(level)' \subseteq Open(level)
    <3>1. CASE c.kind = "close"
      BY <1>10, <3>1
    <3>2. CASE c.kind = "update"
      <4>1. id \in Open(level)' => id \in Open(level)
        BY <1>0, <1>1, <1>6, <3>2 DEF Open
      <4> QED BY <1>1, <1>9, <4>1
    <3> QED BY <1>1, <3>1, <3>2
  <2>3. \A l \in Levels : l # level => Open(l)' \subseteq Open(l)
    <3>1. \A l \in Levels : l # level => id \notin Open(l)'
      BY <1>0, <1>1, <1>2 DEF Open
    <3> QED BY <1>9, <3>1
  <2>4. \A l \in Levels : Open(l)' # {} =>
          Open(l) # {} \/ (l = level /\ c.kind = "reopen")
    BY <2>2, <2>3
  <2>5. /\ OpenLevels \subseteq Reading(w).fires \cup closing[w]
        /\ firing[w] \subseteq Reading(w).fires
        /\ c.kind # "close" => level \in Reading(w).fires
    BY <1>0, <1>3 DEF SessionInvariant, MatchingLeaves
  <2>6. OpenLevels' \subseteq Reading(w).fires \cup closing[w]
    BY <2>4, <2>5 DEF OpenLevels
  <2> QED BY <1>3, <1>4, <2>1, <2>5, <2>6 DEF MatchingLeaves
<1> QED BY <1>8, <1>11, <1>12, <1>13

LEMMA CommitInsertSession ==
  ASSUME SessionInvariant, WellFormed, \A v, w \in Workers : v = w,
         NEW w \in Workers, CommitInsert(w)
  PROVE  MemoryAgrees' /\ FlushedDecides' /\ EventIsTrue' /\ MatchingLeaves'
<1>1. PICK id \in Nat, level \in Levels :
        /\ id = Len(alerts) + 1 /\ level = write[w].level
        /\ Ids' = Ids \cup {id}
        /\ \A r \in Ids : r # id /\ alerts'[r] = alerts[r]
        /\ alerts'[id].level = level /\ alerts'[id].resolved = FALSE
        /\ write'[w].row = id /\ write'[w].kind = "insert"
  BY InsertedRow
<1>2. /\ pc[w] = "committing" /\ pc'[w] = "publishing"
      /\ write[w].kind = "insert"
      /\ UNCHANGED <<task, at, closing, firing>>
  BY DEF CommitInsert, InsertRow, Move, WellFormed, TypeOK
<1> DEFINE entry == [row |-> Len(alerts) + 1, resolved |-> FALSE, ended |-> NoTime]
<1>3. Remember(w, "alert", entry)
  BY DEF CommitInsert
<1>4. entry.row = id /\ entry.resolved = FALSE
  BY <1>1
<1> HIDE DEF entry
<1>5. \A v \in Workers : v = w
  OBVIOUS
<1>6. \A r : ~Pending(w, r) /\ ~Pending(w, r)'
  BY <1>2 DEF Pending
<1>7. MemoryAgrees'
  <2> SUFFICES ASSUME NEW n \in {"alert", "closed"}, memory'[w][n] # Nothing,
                      NEW r, r = memory'[w][n].row
               PROVE  /\ r \in Ids'
                      /\ \/ memory'[w][n].resolved = alerts'[r].resolved
                         \/ AcknowledgedRow(r)'
    BY <1>5, <1>6 DEF MemoryAgrees
  <2>1. CASE memory'[w][n] = entry
    BY <1>1, <1>4, <2>1
  <2>2. CASE memory'[w][n] = memory[w][n]
    <3>1. /\ r \in Ids
          /\ memory[w][n].resolved = alerts[r].resolved \/ AcknowledgedRow(r)
      BY <1>6, <2>2 DEF SessionInvariant, MemoryAgrees
    <3> QED BY <1>1, <2>2, <3>1 DEF AcknowledgedRow
  <2> QED BY <1>3, <2>1, <2>2, RememberedRows
<1>8. FlushedDecides' /\ EventIsTrue'
  BY <1>1, <1>2, <1>5 DEF FlushedDecides, EventIsTrue, StillOpen
<1>9. MatchingLeaves'
  <2>1. Reading(w)' = Reading(w)
    BY <1>2 DEF Reading
  <2>2. \A l \in Levels : Open(l)' # {} => Open(l) # {} \/ l = level
    <3>1. \A l \in Levels : l # level => Open(l)' \subseteq Open(l)
      BY <1>1 DEF Open
    <3> QED BY <3>1
  <2>3. /\ OpenLevels \subseteq Reading(w).fires \cup closing[w]
        /\ firing[w] \subseteq Reading(w).fires
        /\ level \in Reading(w).fires
    BY <1>1, <1>2 DEF SessionInvariant, MatchingLeaves
  <2>4. OpenLevels' \subseteq Reading(w).fires \cup closing[w]
    BY <2>2, <2>3 DEF OpenLevels
  <2> QED BY <1>2, <1>5, <2>1, <2>3, <2>4 DEF MatchingLeaves
<1> QED BY <1>7, <1>8, <1>9

LEMMA PublishSession ==
  ASSUME SessionInvariant, WellFormed, \A v, w \in Workers : v = w,
         NEW w \in Workers, Publish(w)
  PROVE  MemoryAgrees' /\ FlushedDecides' /\ EventIsTrue' /\ MatchingLeaves'
<1>1. /\ UNCHANGED <<alerts, task, at, memory>>
      /\ pc[w] = "publishing" /\ pc'[w] = "matching"
  BY DEF Publish, Move, WellFormed, TypeOK
<1>2. /\ closing'[w] = IF write[w].kind = "close" THEN closing[w] \ {write[w].level}
                       ELSE closing[w]
      /\ firing'[w] \subseteq firing[w]
  BY DEF Publish, WellFormed, TypeOK
<1>3. Reading(w)' = Reading(w)
  BY <1>1 DEF Reading
<1>4. OpenLevels \subseteq Reading(w).fires \cup closing[w] /\ firing[w] \subseteq Reading(w).fires
  BY <1>1 DEF SessionInvariant, MatchingLeaves
<1>5. write[w].kind = "close" => write[w].level \notin OpenLevels
  BY <1>1 DEF SessionInvariant, EventIsTrue, OpenLevels
<1>6. OpenLevels \subseteq Reading(w)'.fires \cup closing'[w]
  BY <1>2, <1>3, <1>4, <1>5
<1> QED BY <1>1, <1>2, <1>3, <1>4, <1>6, SessionMatches

\* An acknowledged row says who acknowledged it, also when the request loaded it
\* before somebody else did.
LEMMA AcknowledgedSays ==
  ASSUME SessionInvariant, WellFormed, NEW u \in Admins, AcknowledgeCommit(u)
  PROVE  /\ \A r \in Ids : alerts'[r] = alerts[r] \/ AcknowledgedRow(r)'
         /\ \A r \in Ids : alerts[r].by # Nobody => alerts'[r].by # Nobody
<1> DEFINE old == request[u].old
<1>1. PICK id \in Ids : id = request[u].row /\ alerts[id] \in Rows
  BY RowType DEF AcknowledgeCommit, WellFormed, RequestInProgress
<1>2. PICK now \in Times : alerts' = [alerts EXCEPT ![id] =
                             Acknowledged(alerts[id], old, u, now)]
  BY <1>1 DEF AcknowledgeCommit
<1> DEFINE new == Acknowledged(alerts[id], old, u, now)
<1>3. new.resolved = TRUE /\ new.by = IF old.by = u THEN alerts[id].by ELSE u
  BY <1>1 DEF Rows, Acknowledged
<1>4. u # Nobody
  BY NobodyAssumption
<1>5. old.by = u => alerts[id].by # Nobody
  BY <1>1, <1>4 DEF SessionInvariant, AcknowledgementStays, AcknowledgeCommit
<1>6. alerts' = [alerts EXCEPT ![id] = new]
  BY <1>2
<1> HIDE DEF new
<1> QED BY <1>1, <1>3, <1>4, <1>5, <1>6 DEF Ids, AcknowledgedRow

LEMMA AcknowledgementStaysStep ==
  ASSUME SessionInvariant, WellFormed, [Next]_vars
  PROVE  AcknowledgementStays'
<1> USE DEF tableVars, queueVars, workerVars, faultVars
<1>1. ASSUME \A u \in Admins : request'[u] # Nothing => request'[u] = request[u],
             \A r \in Ids : alerts[r].by # Nobody => alerts'[r].by # Nobody
      PROVE  AcknowledgementStays'
  BY <1>1 DEF SessionInvariant, AcknowledgementStays, WellFormed, RequestInProgress
<1>2. ASSUME NEW w \in Workers, UpdateRow(w), UNCHANGED request
      PROVE  AcknowledgementStays'
  <2>1. \A r \in Ids : alerts'[r].by = alerts[r].by
    BY <1>2, CommittedRow
  <2> QED BY <1>1, <1>2, <2>1
<1>3. ASSUME NEW w \in Workers, InsertRow(w), UNCHANGED request
      PROVE  AcknowledgementStays'
  BY <1>1, <1>3, InsertKeepsRows
<1>4. ASSUME NEW u \in Admins, AcknowledgeCommit(u)
      PROVE  AcknowledgementStays'
  <2>1. \A v \in Admins : request'[v] # Nothing => request'[v] = request[v]
    BY <1>4 DEF AcknowledgeCommit, WellFormed, TypeOK
  <2>2. \A r \in Ids : alerts[r].by # Nobody => alerts'[r].by # Nobody
    BY <1>4, AcknowledgedSays
  <2> QED BY <1>1, <2>1, <2>2
<1>5. ASSUME NEW u \in Admins, NEW r \in Ids, AcknowledgeLoad(u, r)
      PROVE  AcknowledgementStays'
  <2> DEFINE new == [row |-> r, old |-> alerts[r]]
  <2>1. request' = [request EXCEPT ![u] = new] /\ UNCHANGED alerts
        /\ new.row = r /\ new.old = alerts[r]
    BY <1>5 DEF AcknowledgeLoad
  <2> HIDE DEF new
  <2> QED BY <2>1 DEF SessionInvariant, AcknowledgementStays, WellFormed, TypeOK
<1>6. CASE UNCHANGED <<alerts, request>>
  BY <1>1, <1>6
<1>7. ASSUME NEW w \in Workers, WorkerStep(w)
      PROVE  AcknowledgementStays'
  BY <1>2, <1>3, <1>6, <1>7
     DEF WorkerStep, Take, StartReading, FinishReading, FinishBatch, CloseOpenAlert,
         TriggerAlert, CommitUpdate, CommitInsert, Publish, AcknowledgeTask
<1>8. ASSUME NEW w \in Workers, TaskError(w) \/ CommitUnanswered(w) \/ Kill(w)
      PROVE  AcknowledgementStays'
  BY <1>2, <1>3, <1>6, <1>8 DEF TaskError, CommitUnanswered, Kill, LoseEvents
<1> QED BY <1>4, <1>5, <1>6, <1>7, <1>8 DEF Next, vars, Submit, Crash, LoseEvents

LEMMA SessionStep ==
  ASSUME SessionInvariant, WellFormed, UniqueOpen, OpensClosedLevel,
         \A v, w \in Workers : v = w, [Next]_vars
  PROVE  SessionInvariant'
<1> DEFINE Agree == MemoryAgrees' /\ FlushedDecides' /\ EventIsTrue' /\ MatchingLeaves'
<1> HIDE DEF Agree
<1>1. ASSUME UNCHANGED <<alerts, workerVars>>
      PROVE  Agree
  <2>1. /\ UNCHANGED workerVars /\ Ids' = Ids
        /\ \A r \in Ids : /\ alerts'[r].level = alerts[r].level
                          /\ alerts[r].resolved => alerts'[r].resolved
                          /\ alerts'[r] = alerts[r] \/ AcknowledgedRow(r)'
    BY <1>1 DEF Ids
  <2> QED BY <2>1, CalmSession DEF Agree
<1>2. ASSUME NEW u \in Admins, AcknowledgeCommit(u)
      PROVE  Agree
  <2>1. UNCHANGED workerVars
    BY <1>2 DEF AcknowledgeCommit
  <2>2. /\ Ids' = Ids
        /\ \A r \in Ids : /\ alerts'[r].level = alerts[r].level
                          /\ alerts[r].resolved => alerts'[r].resolved
                          /\ alerts'[r] = alerts[r] \/ AcknowledgedRow(r)'
    <3>1. /\ Ids' = Ids
          /\ \A r \in Ids : /\ alerts'[r].level = alerts[r].level
                            /\ alerts[r].resolved => alerts'[r].resolved
      BY <1>2, AcknowledgeKeepsRows
    <3>2. \A r \in Ids : alerts'[r] = alerts[r] \/ AcknowledgedRow(r)'
      BY <1>2, AcknowledgedSays
    <3> QED BY <3>1, <3>2
  <2> QED BY <2>1, <2>2, CalmSession DEF Agree
<1>3. ASSUME NEW w \in Workers, WorkerStep(w)
      PROVE  Agree
  <2>1. CASE Take(w) \/ FinishReading(w)
    <3>1. UNCHANGED <<alerts, memory>> /\ pc'[w] = "reading" /\ pc[w] # "committing"
      BY <2>1 DEF Take, FinishReading, Move, WellFormed, TypeOK, tableVars
    <3> QED BY <3>1, SessionRests DEF Agree
  <2>2. CASE FinishBatch(w) \/ AcknowledgeTask(w)
    <3>1. UNCHANGED alerts /\ pc'[w] = "idle" /\ memory'[w] = Forgotten
      BY <2>2 DEF FinishBatch, AcknowledgeTask, Release, EndAttempt, Move, WellFormed, TypeOK,
                  tableVars
    <3> QED BY <3>1, SessionRests DEF Agree
  <2> QED BY <1>3, <2>1, <2>2, StartSession, CloseSession, TriggerSession,
             CommitUpdateSession, CommitInsertSession, PublishSession DEF WorkerStep, Agree
<1>4. ASSUME NEW w \in Workers, TaskError(w) \/ CommitUnanswered(w) \/ Kill(w)
      PROVE  Agree
  <2>1. CASE Raise(w)
    BY <2>1, RaiseSession DEF Agree
  <2>2. CASE Kill(w)
    <3>1. pc'[w] = "idle" /\ memory'[w] = Forgotten
      BY <2>2 DEF Kill, Release, EndAttempt, Move, WellFormed, TypeOK
    <3> QED BY <3>1, SessionIsOver DEF Agree
  <2> QED BY <1>4, <2>1, <2>2 DEF TaskError, CommitUnanswered
<1>5. ASSUME Crash
      PROVE  Agree
  <2>1. \A w \in Workers : pc'[w] = "idle" /\ memory'[w] = Forgotten
    BY <1>5 DEF Crash
  <2> QED BY <2>1, SessionIsOver DEF Agree
<1>6. Agree
  <2>1. ASSUME NEW batch \in Batches, Submit(batch)
        PROVE  Agree
    BY <1>1, <2>1 DEF Submit, tableVars
  <2>2. ASSUME NEW u \in Admins, NEW r \in Ids, AcknowledgeLoad(u, r)
        PROVE  Agree
    BY <1>1, <2>2 DEF AcknowledgeLoad, tableVars
  <2>3. ASSUME UNCHANGED vars
        PROVE  Agree
    BY <1>1, <2>3 DEF vars, tableVars
  <2> QED BY <1>2, <1>3, <1>4, <1>5, <2>1, <2>2, <2>3 DEF Next
<1> QED BY <1>6, AcknowledgementStaysStep DEF SessionInvariant, Agree

\* The only worker's session, its pending write and its unsent event agree with
\* the table, however its steps interleave with acknowledgements.
THEOREM SessionAgrees ==
  ASSUME \A v, w \in Workers : v = w
  PROVE  Spec => []SessionInvariant
<1>1. Init => SessionInvariant
  BY DEF Init, SessionInvariant, MemoryAgrees, FlushedDecides, EventIsTrue,
         MatchingLeaves, AcknowledgementStays, Forgotten
<1>2. SessionInvariant /\ WellFormed /\ UniqueOpen /\ OpensClosedLevel /\ [Next]_vars
      => SessionInvariant'
  BY SessionStep
<1> QED BY AlertsWellFormed, OneWorkerOpens, <1>1, <1>2, PTL DEF Spec

\* When the only worker has matched a reading, no level is open that the reading
\* does not fire, whatever earlier attempts left behind.
THEOREM ReadingIsReconciled ==
  ASSUME \A v, w \in Workers : v = w
  PROVE  Spec => []ReadingReconciled
<1>1. SessionInvariant => ReadingReconciled
  BY DEF SessionInvariant, MatchingLeaves, ReadingReconciled
<1> QED BY <1>1, SessionAgrees, PTL

-----------------------------------------------------------------------------
(* What clients and notifiers were told.                                    *)

PublishingStays ==
  \A w \in Workers : pc[w] = "publishing" => pc'[w] = "publishing" /\ write'[w] = write[w]

\* A step that neither commits nor publishes, and after which no worker has died,
\* tells nobody anything, and changes the table at most by an acknowledgement.
LEMMA QuietStep ==
  ASSUME WellFormed, [Next]_vars, ~Crash,
         ~ \E w \in Workers : \/ CommitUpdate(w) \/ CommitInsert(w) \/ Publish(w)
                              \/ CommitUnanswered(w) \/ Kill(w)
  PROVE  /\ PublishingStays
         /\ UNCHANGED <<shown, notified, untold, unnoticed>>
         /\ UNCHANGED alerts \/ \E u \in Admins : AcknowledgeCommit(u)
<1> DEFINE Quiet == /\ PublishingStays
                    /\ UNCHANGED <<shown, notified, untold, unnoticed>>
                    /\ UNCHANGED alerts \/ \E u \in Admins : AcknowledgeCommit(u)
<1> HIDE DEF Quiet
<1> USE DEF tableVars, queueVars, faultVars, PublishingStays, Quiet
<1>1. ASSUME NEW w \in Workers, UNCHANGED tableVars,
             pc[w] # "publishing",
             \A v \in Workers : v # w => pc'[v] = pc[v] /\ write'[v] = write[v]
      PROVE  Quiet
  BY <1>1
<1>2. ASSUME NEW w \in Workers, Raise(w), UNCHANGED tableVars,
             pc[w] # "publishing"
      PROVE  Quiet
  BY <1>1, <1>2 DEF Raise, SendRetry, EndAttempt, Move, WellFormed, TypeOK
<1>3. ASSUME NEW w \in Workers, Take(w) \/ StartReading(w) \/ FinishReading(w)
      PROVE  Quiet
  BY <1>1, <1>3 DEF Take, StartReading, FinishReading, Move, WellFormed, TypeOK
<1>4. ASSUME NEW w \in Workers, FinishBatch(w) \/ AcknowledgeTask(w)
      PROVE  Quiet
  BY <1>1, <1>4 DEF FinishBatch, AcknowledgeTask, Release, EndAttempt, Move, WellFormed, TypeOK
<1>5. ASSUME NEW w \in Workers, NEW kind, NEW l, NEW r, NEW columns,
             Flush(w, kind, l, r, columns), UNCHANGED tableVars,
             pc[w] = "matching"
      PROVE  Quiet
  BY <1>1, <1>5 DEF Flush, Move, WellFormed, TypeOK
<1>6. ASSUME NEW w \in Workers, CloseOpenAlert(w)
      PROVE  Quiet
  <2>1. PICK l \in closing[w] : CloseNothing(w, l) \/ CloseOne(w, l) \/ Raise(w)
    BY <1>6 DEF CloseOpenAlert
  <2>2. UNCHANGED tableVars /\ pc[w] = "matching"
    BY <1>6 DEF CloseOpenAlert
  <2>3. CASE CloseNothing(w, l)
    BY <1>1, <2>2, <2>3 DEF CloseNothing
  <2>4. CASE CloseOne(w, l)
    BY <1>5, <2>2, <2>4 DEF CloseOne
  <2> QED BY <1>2, <2>1, <2>2, <2>3, <2>4
<1>7. ASSUME NEW w \in Workers, TriggerAlert(w)
      PROVE  Quiet
  <2>1. PICK l \in firing[w] : UpdateOpen(w, l) \/ Reopen(w, l) \/ Insert(w, l) \/ Raise(w)
    BY <1>7 DEF TriggerAlert
  <2>2. UNCHANGED tableVars /\ pc[w] = "matching"
    BY <1>7 DEF TriggerAlert
  <2>3. CASE UpdateOpen(w, l) \/ Reopen(w, l) \/ Insert(w, l)
    BY <1>5, <2>2, <2>3 DEF UpdateOpen, Reopen, Insert
  <2> QED BY <1>2, <2>1, <2>2, <2>3
<1>8. ASSUME NEW w \in Workers, TaskError(w)
      PROVE  Quiet
  BY <1>2, <1>8 DEF TaskError
<1>9. ASSUME NEW u \in Admins, AcknowledgeCommit(u)
      PROVE  Quiet
  BY <1>9 DEF AcknowledgeCommit, workerVars
<1>11. ASSUME UNCHANGED <<tableVars, pc, write>>
       PROVE  Quiet
  BY <1>11
<1>12. Quiet
  <2>1. ASSUME NEW w \in Workers, WorkerStep(w)
        PROVE  Quiet
    BY <1>3, <1>4, <1>6, <1>7, <2>1 DEF WorkerStep
  <2>2. ASSUME NEW batch \in Batches, Submit(batch)
        PROVE  Quiet
    BY <1>11, <2>2 DEF Submit, workerVars
  <2>3. ASSUME NEW u \in Admins, NEW r \in Ids, AcknowledgeLoad(u, r)
        PROVE  Quiet
    BY <1>11, <2>3 DEF AcknowledgeLoad, workerVars
  <2>4. ASSUME UNCHANGED vars
        PROVE  Quiet
    BY <1>11, <2>4 DEF vars, workerVars
  <2> QED BY <1>8, <1>9, <2>1, <2>2, <2>3, <2>4 DEF Next
<1> QED BY <1>12

\* The refresh of an open alert changes neither of the columns that say so.
UpdatesWriteNothing ==
  \A w \in Workers : pc[w] = "committing" /\ write[w].kind = "update" =>
    write[w].columns = {}

LEMMA UpdatesStep ==
  ASSUME WellFormed, UpdatesWriteNothing, [Next]_vars
  PROVE  UpdatesWriteNothing'
<1> USE DEF tableVars, queueVars, workerVars, faultVars
<1>1. ASSUME NEW w \in Workers, pc'[w] # "committing",
             \A v \in Workers : v # w => pc'[v] = pc[v] /\ write'[v] = write[v]
      PROVE  UpdatesWriteNothing'
  BY <1>1 DEF UpdatesWriteNothing
<1>2. ASSUME NEW w \in Workers, Raise(w)
      PROVE  UpdatesWriteNothing'
  BY <1>1, <1>2 DEF Raise, SendRetry, EndAttempt, Move, WellFormed, TypeOK
<1>3. ASSUME NEW w \in Workers,
             \/ Take(w) \/ StartReading(w) \/ FinishReading(w) \/ Publish(w)
             \/ CommitUpdate(w) \/ CommitInsert(w)
      PROVE  UpdatesWriteNothing'
  BY <1>1, <1>3 DEF Take, StartReading, FinishReading, Publish, CommitUpdate, CommitInsert,
                    Move, WellFormed, TypeOK
<1>4. ASSUME NEW w \in Workers, FinishBatch(w) \/ AcknowledgeTask(w)
      PROVE  UpdatesWriteNothing'
  BY <1>1, <1>4 DEF FinishBatch, AcknowledgeTask, Release, EndAttempt, Move, WellFormed, TypeOK
<1>5. ASSUME NEW w \in Workers, NEW kind, NEW l, NEW r, NEW columns,
             Flush(w, kind, l, r, columns), kind = "update" => columns = {}
      PROVE  UpdatesWriteNothing'
  <2> DEFINE d == [kind |-> kind, level |-> l, row |-> r, ts |-> Reading(w).ts,
                   columns |-> columns]
  <2>1. d.kind = kind /\ d.columns = columns
    OBVIOUS
  <2>2. write' = [write EXCEPT ![w] = d] /\ pc' = [pc EXCEPT ![w] = "committing"]
    BY <1>5 DEF Flush, Move
  <2> HIDE DEF d
  <2> QED BY <1>5, <2>1, <2>2 DEF UpdatesWriteNothing, WellFormed, TypeOK
<1>6. ASSUME NEW w \in Workers, CloseOpenAlert(w)
      PROVE  UpdatesWriteNothing'
  <2>1. PICK l \in closing[w] : CloseNothing(w, l) \/ CloseOne(w, l) \/ Raise(w)
    BY <1>6 DEF CloseOpenAlert
  <2>2. CASE CloseNothing(w, l)
    BY <1>6, <2>2 DEF CloseOpenAlert, CloseNothing, UpdatesWriteNothing
  <2>3. CASE CloseOne(w, l)
    <3>1. PICK r, columns : Flush(w, "close", l, r, columns)
      BY <2>3 DEF CloseOne
    <3>2. "close" # "update"
      OBVIOUS
    <3> QED BY <1>5, <3>1, <3>2
  <2> QED BY <1>2, <2>1, <2>2, <2>3
<1>7. ASSUME NEW w \in Workers, TriggerAlert(w)
      PROVE  UpdatesWriteNothing'
  <2>1. PICK l \in firing[w] : UpdateOpen(w, l) \/ Reopen(w, l) \/ Insert(w, l) \/ Raise(w)
    BY <1>7 DEF TriggerAlert
  <2>2. CASE UpdateOpen(w, l)
    BY <1>5, <2>2 DEF UpdateOpen
  <2>3. CASE Reopen(w, l)
    <3>1. PICK r, columns : Flush(w, "reopen", l, r, columns)
      BY <2>3 DEF Reopen
    <3>2. "reopen" # "update"
      OBVIOUS
    <3> QED BY <1>5, <3>1, <3>2
  <2>4. CASE Insert(w, l)
    BY <1>5, <2>4 DEF Insert
  <2> QED BY <1>2, <2>1, <2>2, <2>3, <2>4
<1>8. CASE UNCHANGED <<pc, write>>
  BY <1>8 DEF UpdatesWriteNothing
<1>9. CASE Crash
  BY <1>9 DEF Crash, UpdatesWriteNothing
<1>10. ASSUME NEW w \in Workers, Kill(w)
       PROVE  UpdatesWriteNothing'
  BY <1>1, <1>10 DEF Kill, Release, EndAttempt, Move, WellFormed, TypeOK
<1>11. ASSUME NEW w \in Workers,
              WorkerStep(w) \/ TaskError(w) \/ CommitUnanswered(w) \/ Kill(w)
       PROVE  UpdatesWriteNothing'
  BY <1>2, <1>3, <1>4, <1>6, <1>7, <1>10, <1>11 DEF WorkerStep, TaskError, CommitUnanswered
<1> QED BY <1>8, <1>9, <1>11 DEF Next, vars, Submit, AcknowledgeLoad, AcknowledgeCommit

\* What the death of some workers leaves of the events they had not sent.
LEMMA DeathKeeps ==
  ASSUME WellFormed, NEW W \in SUBSET Workers, LoseEvents(W),
         \A v \in Workers \ W : pc'[v] = pc[v] /\ write'[v] = write[v], NEW r \in Ids
  PROVE  /\ r \in Ids' /\ alerts'[r] = alerts[r] /\ UNCHANGED <<shown, notified>>
         /\ untold \subseteq untold' /\ unnoticed \subseteq unnoticed'
         /\ \A v \in Workers : Publishes(v, r, {"insert", "reopen"}) =>
              r \in unnoticed' \/ Publishes(v, r, {"insert", "reopen"})'
         /\ \A v \in Workers : Publishes(v, r, Kinds) =>
              r \in untold' \/ Publishes(v, r, Kinds)'
<1>1. /\ untold \subseteq untold' /\ unnoticed \subseteq unnoticed'
      /\ \A w \in W : pc[w] = "publishing" =>
           write[w].row \in untold' /\ Opening(write[w]) \subseteq unnoticed'
      /\ UNCHANGED <<alerts, shown, notified>>
  BY LostEvents
<1>2. ASSUME NEW v \in Workers, NEW kinds, Publishes(v, r, kinds), v \notin W
      PROVE  Publishes(v, r, kinds)'
  BY <1>2 DEF Publishes
<1>3. ASSUME NEW v \in W, Publishes(v, r, {"insert", "reopen"})
      PROVE  r \in unnoticed'
  BY <1>1, <1>3 DEF Publishes, Opening
<1>4. ASSUME NEW v \in W, Publishes(v, r, Kinds)
      PROVE  r \in untold'
  BY <1>1, <1>4 DEF Publishes
<1> QED BY <1>1, <1>2, <1>3, <1>4 DEF Ids

\* A commit opens only rows that it then dispatches.
LEMMA ReopenedRows ==
  ASSUME WellFormed, UpdatesWriteNothing, NEW w \in Workers, UpdateRow(w)
  PROVE  /\ Ids' = Ids
         /\ \A r \in Reopened : write[w].row = r /\ write[w].kind = "reopen"
         /\ \A r \in Ids \ Reopened : ~alerts'[r].resolved => ~alerts[r].resolved
<1>1. /\ write[w].row \in Ids /\ write[w].kind \in {"close", "reopen", "update"}
      /\ alerts'[write[w].row].resolved =
           IF "resolved" \in write[w].columns THEN write[w].kind = "close"
           ELSE alerts[write[w].row].resolved
      /\ \A q \in Ids : q # write[w].row => alerts'[q] = alerts[q]
  BY CommittedRow
<1>2. \A r \in Reopened : r \in Ids /\ alerts[r].resolved /\ ~alerts'[r].resolved
  BY DEF Reopened
<1>3. pc[w] = "committing"
  BY DEF UpdateRow
<1>4. ASSUME NEW r \in Reopened
      PROVE  write[w].row = r /\ write[w].kind = "reopen"
  <2>1. write[w].row = r
    BY <1>1, <1>2
  <2>2. write[w].kind # "update"
    BY <1>1, <1>2, <1>3, <2>1 DEF UpdatesWriteNothing
  <2>3. write[w].kind # "close"
    BY <1>1, <1>2, <2>1
  <2> QED BY <1>1, <2>1, <2>2, <2>3
<1> QED BY <1>4, CommitKeepsRows DEF Reopened

LEMMA NotifiedStep ==
  ASSUME WellFormed, UpdatesWriteNothing, OpenIsNotified, [Next]_vars
  PROVE  OpenIsNotified'
<1> DEFINE Opens(v, r) == Publishes(v, r, {"insert", "reopen"})
           Sent(r) == r \in notified \/ r \in unnoticed \/ \E v \in Workers : Opens(v, r)
<1> SUFFICES ASSUME NEW r \in Ids', ~alerts'[r].resolved
             PROVE  Sent(r)'
  BY DEF OpenIsNotified
<1>1. r \in Ids /\ ~alerts[r].resolved => Sent(r)
  BY DEF OpenIsNotified
<1>2. ASSUME NEW w \in Workers, CommitUpdate(w)
      PROVE  Sent(r)'
  <2>1. UpdateRow(w) /\ notified' = notified \ Reopened /\ unnoticed' = unnoticed \ Reopened
    BY <1>2 DEF CommitUpdate
  <2>2. /\ pc[w] = "committing" /\ pc' = [pc EXCEPT ![w] = "publishing"] /\ UNCHANGED write
    BY <1>2 DEF CommitUpdate, UpdateRow, Move
  <2>3. CASE r \in Reopened
    <3>1. Opens(w, r)'
      BY <2>1, <2>2, <2>3, ReopenedRows DEF Publishes, WellFormed, TypeOK
    <3> QED BY <3>1
  <2>4. CASE r \notin Reopened
    <3>1. r \in Ids /\ ~alerts[r].resolved
      BY <2>1, <2>4, ReopenedRows
    <3>2. \A v \in Workers : Opens(v, r) => Opens(v, r)'
      BY <2>2 DEF Publishes, WellFormed, TypeOK
    <3> QED BY <1>1, <2>1, <2>4, <3>1, <3>2
  <2> QED BY <2>3, <2>4
<1>3. ASSUME NEW w \in Workers, CommitInsert(w)
      PROVE  Sent(r)'
  <2>1. PICK id \in Nat :
          /\ Ids' = Ids \cup {id}
          /\ \A q \in Ids : q # id /\ alerts'[q] = alerts[q]
          /\ write'[w].row = id /\ write'[w].kind = "insert"
    BY <1>3, InsertedRow
  <2>2. /\ pc[w] = "committing" /\ pc' = [pc EXCEPT ![w] = "publishing"]
        /\ UNCHANGED <<notified, unnoticed>>
        /\ \A v \in Workers : v # w => write'[v] = write[v]
    BY <1>3 DEF CommitInsert, InsertRow, Move, WellFormed, TypeOK
  <2>3. CASE r = id
    <3>1. Opens(w, r)'
      BY <2>1, <2>2, <2>3 DEF Publishes, WellFormed, TypeOK
    <3> QED BY <3>1
  <2>4. CASE r # id
    <3>1. r \in Ids /\ ~alerts[r].resolved
      BY <2>1, <2>4
    <3>2. \A v \in Workers : Opens(v, r) => Opens(v, r)'
      BY <2>2 DEF Publishes, WellFormed, TypeOK
    <3> QED BY <1>1, <2>2, <3>1, <3>2
  <2> QED BY <2>3, <2>4
<1>4. ASSUME NEW w \in Workers, CommitUnanswered(w)
      PROVE  Sent(r)'
  <2>1. /\ pc[w] = "committing"
        /\ \A v \in Workers : v # w => pc'[v] = pc[v] /\ write'[v] = write[v]
    BY <1>4 DEF CommitUnanswered, UpdateRow, InsertRow, Raise, SendRetry, EndAttempt, Move,
                WellFormed, TypeOK
  <2>2. \A v \in Workers : Opens(v, r) => Opens(v, r)'
    BY <2>1 DEF Publishes
  <2>3. CASE UpdateRow(w) /\ notified' = notified \ Reopened
             /\ unnoticed' = unnoticed \cup Reopened
    <3>1. r \notin Reopened => r \in Ids /\ ~alerts[r].resolved
      BY <2>3, ReopenedRows
    <3> QED BY <1>1, <2>2, <2>3, <3>1
  <2>4. CASE /\ InsertRow(w) /\ UNCHANGED notified
             /\ unnoticed' = unnoticed \cup {Len(alerts) + 1}
    <3>1. r \in unnoticed' \/ (r \in Ids /\ ~alerts[r].resolved)
      BY <2>4, InsertKeepsRows
    <3> QED BY <1>1, <2>2, <2>4, <3>1
  <2> QED BY <1>4, <2>3, <2>4 DEF CommitUnanswered
<1>5. ASSUME NEW w \in Workers, Publish(w)
      PROVE  Sent(r)'
  <2>1. PICK sent \in BOOLEAN : Notify(write[w], sent)
    BY <1>5 DEF Publish
  <2>2. /\ UNCHANGED alerts /\ pc[w] = "publishing"
        /\ \A v \in Workers : v # w => pc'[v] = pc[v] /\ write'[v] = write[v]
    BY <1>5 DEF Publish, Move, WellFormed, TypeOK
  <2>3. r \in Ids /\ ~alerts[r].resolved
    BY <2>2 DEF Ids
  <2>4. \A v \in Workers : Opens(v, r) => v = w \/ Opens(v, r)'
    BY <2>2 DEF Publishes
  <2>5. CASE Opens(w, r)
    <3>1. Opening(write[w]) = {r}
      BY <2>5 DEF Publishes, Opening
    <3> QED BY <2>1, <3>1 DEF Notify
  <2>6. CASE ~Opens(w, r)
    <3>1. r \notin Opening(write[w])
      BY <2>2, <2>6 DEF Publishes, Opening
    <3>2. (r \in notified => r \in notified') /\ (r \in unnoticed => r \in unnoticed')
      BY <2>1, <3>1 DEF Notify
    <3> QED BY <1>1, <2>3, <2>4, <2>6, <3>2
  <2> QED BY <2>5, <2>6
<1>6. ASSUME NEW W \in SUBSET Workers, LoseEvents(W),
             \A v \in Workers \ W : pc'[v] = pc[v] /\ write'[v] = write[v]
      PROVE  Sent(r)'
  <2>1. r \in Ids /\ ~alerts[r].resolved
    BY <1>6 DEF LoseEvents, Ids
  <2>2. /\ UNCHANGED notified /\ unnoticed \subseteq unnoticed'
        /\ \A v \in Workers : Opens(v, r) => r \in unnoticed' \/ Opens(v, r)'
    BY <1>6, <2>1, DeathKeeps
  <2> QED BY <1>1, <2>1, <2>2
<1>7. ASSUME NEW w \in Workers, Kill(w)
      PROVE  Sent(r)'
  <2>1. /\ LoseEvents({w})
        /\ \A v \in Workers \ {w} : pc'[v] = pc[v] /\ write'[v] = write[v]
    BY <1>7 DEF Kill, Release, EndAttempt, Move, WellFormed, TypeOK
  <2> QED BY <1>6, <2>1
<1>8. CASE Crash
  BY <1>6, <1>8 DEF Crash
<1>9. CASE /\ ~Crash
           /\ ~ \E w \in Workers : \/ CommitUpdate(w) \/ CommitInsert(w) \/ Publish(w)
                                   \/ CommitUnanswered(w) \/ Kill(w)
  <2>1. /\ PublishingStays
        /\ UNCHANGED <<notified, unnoticed>>
        /\ UNCHANGED alerts \/ \E u \in Admins : AcknowledgeCommit(u)
    BY <1>9, QuietStep
  <2>2. r \in Ids /\ ~alerts[r].resolved
    <3>1. CASE UNCHANGED alerts
      BY <3>1 DEF Ids
    <3>2. ASSUME NEW u \in Admins, AcknowledgeCommit(u)
          PROVE  r \in Ids /\ ~alerts[r].resolved
      BY <3>2, AcknowledgeKeepsRows
    <3> QED BY <2>1, <3>1, <3>2
  <2>3. \A v \in Workers : Opens(v, r) => Opens(v, r)'
    BY <2>1 DEF PublishingStays, Publishes
  <2> QED BY <1>1, <2>1, <2>2, <2>3
<1> QED BY <1>2, <1>3, <1>4, <1>5, <1>7, <1>8, <1>9

\* Whatever workers run, fail and die, an open alert was sent to the notifiers since
\* it was opened, or its worker is about to send it, or the notice of this opening
\* failed, was never due because its commit was not answered, or died with its worker.
THEOREM OpenIsSent == Spec => []OpenIsNotified
<1>1. Init => OpenIsNotified /\ UpdatesWriteNothing
  BY DEF Init, OpenIsNotified, UpdatesWriteNothing, Ids
<1>2. WellFormed /\ OpenIsNotified /\ UpdatesWriteNothing /\ [Next]_vars
      => OpenIsNotified' /\ UpdatesWriteNothing'
  BY UpdatesStep, NotifiedStep
<1> QED BY AlertsWellFormed, <1>1, <1>2, PTL DEF Spec

\* The present state of a row is what clients were told, or an event is pending or lost.
LEMMA ShownStep ==
  ASSUME WellFormed, SessionInvariant, \A v, w \in Workers : v = w, ShownAgrees,
         [Next]_vars
  PROVE  ShownAgrees'
<1> DEFINE Says(r) == shown[r] = IF alerts[r].resolved THEN "resolved" ELSE "triggered"
           Goal(r) == \/ Says(r) \/ r \in untold
                      \/ \E w \in Workers : Publishes(w, r, Kinds)
<1> SUFFICES ASSUME NEW r \in Ids', alerts'[r].by = Nobody
             PROVE  Goal(r)'
  BY DEF ShownAgrees
<1>1. r \in Ids /\ alerts[r].by = Nobody => Goal(r)
  BY DEF ShownAgrees
<1>2. ASSUME NEW w \in Workers, CommitUpdate(w)
      PROVE  Goal(r)'
  <2>0. UpdateRow(w)
    BY <1>2 DEF CommitUpdate
  <2>1. PICK id \in Ids :
          /\ id = write[w].row /\ write[w].kind \in {"close", "reopen", "update"}
          /\ \A q \in Ids : q # id => alerts'[q] = alerts[q]
    BY <2>0, CommittedRow
  <2>2. r \in Ids
    BY <2>0, CommitKeepsRows
  <2>3. /\ pc[w] = "committing" /\ pc'[w] = "publishing"
        /\ UNCHANGED <<write, shown, untold>>
    BY <1>2 DEF CommitUpdate, UpdateRow, Move, WellFormed, TypeOK
  <2>4. CASE r = id
    <3>1. Publishes(w, r, Kinds)'
      BY <2>1, <2>3, <2>4 DEF Publishes, Kinds
    <3> QED BY <3>1
  <2>5. CASE r # id
    <3>1. alerts[r] = alerts'[r] /\ shown'[r] = shown[r]
      BY <2>1, <2>2, <2>3, <2>5
    <3>2. \A v \in Workers : ~Publishes(v, r, Kinds)
      BY <2>3 DEF Publishes
    <3> QED BY <1>1, <2>2, <2>3, <3>1, <3>2
  <2> QED BY <2>4, <2>5
<1>3. ASSUME NEW w \in Workers, CommitInsert(w)
      PROVE  Goal(r)'
  <2>1. PICK id \in Nat :
          /\ id = Len(alerts) + 1
          /\ Ids' = Ids \cup {id}
          /\ \A q \in Ids : q # id /\ alerts'[q] = alerts[q]
          /\ write'[w].row = id /\ write'[w].kind = "insert"
    BY <1>3, InsertedRow
  <2>2. /\ pc[w] = "committing" /\ pc'[w] = "publishing"
        /\ shown' = Append(shown, "silent") /\ UNCHANGED untold
    BY <1>3 DEF CommitInsert, InsertRow, Move, WellFormed, TypeOK
  <2>3. CASE r = id
    <3>1. Publishes(w, r, Kinds)'
      BY <2>1, <2>2, <2>3 DEF Publishes, Kinds
    <3> QED BY <3>1
  <2>4. CASE r # id
    <3>1. r \in Ids /\ alerts[r] = alerts'[r]
      BY <2>1, <2>4
    <3>2. r \in 1..Len(shown) /\ shown \in Seq({"silent", "triggered", "resolved"})
      BY <3>1, RowType DEF WellFormed, TypeOK
    <3>3. shown'[r] = shown[r]
      BY <2>2, <3>2
    <3>4. \A v \in Workers : ~Publishes(v, r, Kinds)
      BY <2>2 DEF Publishes
    <3> QED BY <1>1, <2>2, <3>1, <3>3, <3>4
  <2> QED BY <2>3, <2>4
<1>4. ASSUME NEW w \in Workers, CommitUnanswered(w)
      PROVE  Goal(r)'
  <2>1. \A v \in Workers : ~Publishes(v, r, Kinds)
    BY <1>4 DEF CommitUnanswered, UpdateRow, InsertRow, Publishes
  <2>2. CASE UpdateRow(w) /\ untold' = untold \cup {write[w].row}
    <3>1. /\ r \in Ids /\ UNCHANGED shown
          /\ r # write[w].row => alerts'[r] = alerts[r]
      BY <2>2, CommitKeepsRows, CommittedRow DEF UpdateRow
    <3> QED BY <1>1, <2>1, <2>2, <3>1
  <2>3. CASE InsertRow(w) /\ untold' = untold \cup {Len(alerts) + 1}
    <3>1. r \in untold' \/ (r \in Ids /\ alerts'[r] = alerts[r])
      BY <2>3, InsertKeepsRows
    <3>2. shown' = Append(shown, "silent")
      BY <2>3 DEF InsertRow
    <3>3. r \in Ids => r \in 1..Len(shown)
                       /\ shown \in Seq({"silent", "triggered", "resolved"})
      BY RowType DEF WellFormed, TypeOK
    <3>4. r \in Ids => shown'[r] = shown[r]
      BY <3>2, <3>3
    <3> QED BY <1>1, <2>1, <2>3, <3>1, <3>4
  <2> QED BY <1>4, <2>2, <2>3 DEF CommitUnanswered
<1>5. ASSUME NEW w \in Workers, Publish(w)
      PROVE  Goal(r)'
  <2>1. PICK id \in Ids : id = write[w].row /\ id \in 1..Len(shown)
    BY <1>5, RowType DEF Publish, WellFormed, WriteInProgress, TypeOK
  <2>2. UNCHANGED alerts /\ pc[w] = "publishing"
    BY <1>5 DEF Publish
  <2>3. PICK told \in BOOLEAN : Tell(write[w], told)
    BY <1>5 DEF Publish
  <2>4. r \in Ids /\ alerts[r].by = Nobody
    BY <2>2 DEF Ids
  <2>5. CASE r = id /\ told
    <3>1. /\ write[w].kind = "close" => alerts[r].resolved
          /\ write[w].kind # "close" => ~alerts[r].resolved
      BY <2>1, <2>2, <2>4, <2>5 DEF SessionInvariant, EventIsTrue, StillOpen
    <3>2. shown'[r] = IF write[w].kind = "close" THEN "resolved" ELSE "triggered"
      BY <2>1, <2>3, <2>5 DEF Tell, Status, WellFormed, TypeOK
    <3> QED BY <2>2, <3>1, <3>2
  <2>6. CASE r = id /\ ~told
    BY <2>1, <2>3, <2>6 DEF Tell
  <2>7. CASE r # id
    <3>1. shown'[r] = shown[r] /\ (r \in untold => r \in untold')
      BY <2>1, <2>3, <2>7 DEF Tell, WellFormed, TypeOK
    <3>2. \A v \in Workers : ~Publishes(v, r, Kinds)
      BY <2>1, <2>7 DEF Publishes
    <3> QED BY <1>1, <2>2, <2>4, <3>1, <3>2
  <2> QED BY <2>5, <2>6, <2>7
<1>6. ASSUME NEW W \in SUBSET Workers, LoseEvents(W),
             \A v \in Workers \ W : pc'[v] = pc[v] /\ write'[v] = write[v]
      PROVE  Goal(r)'
  <2>1. r \in Ids /\ alerts'[r] = alerts[r]
    BY <1>6 DEF LoseEvents, Ids
  <2>2. /\ UNCHANGED shown /\ untold \subseteq untold'
        /\ \A v \in Workers : Publishes(v, r, Kinds) =>
             r \in untold' \/ Publishes(v, r, Kinds)'
    BY <1>6, <2>1, DeathKeeps
  <2> QED BY <1>1, <2>1, <2>2
<1>7. ASSUME NEW w \in Workers, Kill(w)
      PROVE  Goal(r)'
  <2>1. /\ LoseEvents({w})
        /\ \A v \in Workers \ {w} : pc'[v] = pc[v] /\ write'[v] = write[v]
    BY <1>7 DEF Kill, Release, EndAttempt, Move, WellFormed, TypeOK
  <2> QED BY <1>6, <2>1
<1>8. CASE Crash
  BY <1>6, <1>8 DEF Crash
<1>9. CASE /\ ~Crash
           /\ ~ \E w \in Workers : \/ CommitUpdate(w) \/ CommitInsert(w) \/ Publish(w)
                                   \/ CommitUnanswered(w) \/ Kill(w)
  <2>1. /\ PublishingStays
        /\ UNCHANGED <<shown, untold>>
        /\ UNCHANGED alerts \/ \E u \in Admins : AcknowledgeCommit(u)
    BY <1>9, QuietStep
  <2>2. r \in Ids /\ alerts'[r] = alerts[r]
    <3>1. CASE UNCHANGED alerts
      BY <3>1 DEF Ids
    <3>2. ASSUME NEW u \in Admins, AcknowledgeCommit(u)
          PROVE  r \in Ids /\ alerts'[r] = alerts[r]
      <4>1. r \in Ids
        BY <3>2, AcknowledgeKeepsRows
      <4>2. alerts'[r] = alerts[r] \/ AcknowledgedRow(r)'
        BY <3>2, <4>1, AcknowledgedSays
      <4> QED BY <4>1, <4>2 DEF AcknowledgedRow
    <3> QED BY <2>1, <3>1, <3>2
  <2>3. \A v \in Workers : Publishes(v, r, Kinds) => Publishes(v, r, Kinds)'
    BY <2>1 DEF PublishingStays, Publishes
  <2> QED BY <1>1, <2>1, <2>2, <2>3
<1> QED BY <1>2, <1>3, <1>4, <1>5, <1>7, <1>8, <1>9

\* With one worker, clients know the state of every alert that nobody acknowledged, or
\* the event that tells it is about to be sent, or the event of its last change was
\* lost: it failed, its commit was not answered, or it died with the worker.
THEOREM ClientsAreTold ==
  ASSUME \A v, w \in Workers : v = w
  PROVE  Spec => []ShownAgrees
<1>1. Init => ShownAgrees
  BY DEF Init, ShownAgrees, Ids
<1>2. WellFormed /\ SessionInvariant /\ ShownAgrees /\ [Next]_vars => ShownAgrees'
  BY ShownStep
<1> QED BY AlertsWellFormed, SessionAgrees, <1>1, <1>2, PTL DEF Spec

-----------------------------------------------------------------------------
(* What becomes of a batch.                                                 *)

\* While no level has two open alerts, matching a reading goes on with the batch.
LEMMA MatchingGoesOn ==
  ASSUME WellFormed, UniqueOpen, NEW w \in Workers, CloseOpenAlert(w) \/ TriggerAlert(w)
  PROVE  /\ UNCHANGED <<queueVars, task, faultVars>>
         /\ pc[w] = "matching" /\ pc'[w] \in {"matching", "committing"}
         /\ \A v \in Workers : v # w => pc'[v] = pc[v]
<1> USE DEF WellFormed, TypeOK, queueVars, faultVars, tableVars
<1>1. CASE CloseOpenAlert(w)
  <2>1. PICK l \in closing[w] : CloseNothing(w, l) \/ CloseOne(w, l) \/ Ambiguous(l)
    BY <1>1 DEF CloseOpenAlert
  <2>2. l \in Levels
    OBVIOUS
  <2>3. ~\E k \in closing[w] : Ambiguous(k)
    BY DEF UniqueOpen
  <2>4. PICK k \in closing[w] : CloseNothing(w, k) \/ CloseOne(w, k)
    BY <1>1, <2>3 DEF CloseOpenAlert
  <2> QED BY <1>1, <2>4 DEF CloseOpenAlert, CloseNothing, CloseOne, Flush, Move
<1>2. CASE TriggerAlert(w)
  <2>1. ~\E k \in firing[w] : Ambiguous(k)
    BY DEF UniqueOpen
  <2>2. PICK l \in firing[w] : /\ UpdateOpen(w, l) \/ Reopen(w, l) \/ Insert(w, l)
                               /\ UNCHANGED <<tasks, task, at, closing, firing>>
    BY <1>2, <2>1 DEF TriggerAlert
  <2>3. \E kind, r, columns : Flush(w, kind, l, r, columns)
    BY <2>2 DEF UpdateOpen, Reopen, Insert
  <2> QED BY <1>2, <2>2, <2>3 DEF TriggerAlert, Flush, Move
<1> QED BY <1>1, <1>2

\* A batch changes hands, ends, or is retried; it is given up for one error more than
\* it has retries.
LEMMA KeptStep ==
  ASSUME WellFormed, UniqueOpen, KeptInvariant, [Next]_vars
  PROVE  KeptInvariant'
<1> USE BoundsAssumption DEF KeptInvariant, RetriesArePaid, BatchIsKept, InHand
<1>0. /\ tasks \subseteq Tasks /\ errors \in Nat /\ submitted \in Nat
      /\ \A w \in Workers : pc[w] # "idle" => task[w] \in Tasks
      /\ \A m \in Tasks : m.retries \in 0..MaxRetries /\ m.id \in 1..MaxTasks
      /\ pc \in [Workers -> Stage] /\ task \in [Workers -> Tasks \cup {Nothing}]
  BY DEF WellFormed, TypeOK, TaskInProgress, Tasks
\* The worker carries on with its batch.
<1>1. ASSUME NEW w \in Workers, UNCHANGED <<queueVars, task, errors>>,
             pc[w] \notin {"idle", "raised"}, pc'[w] # "raised" /\ pc'[w] # "idle",
             \A v \in Workers : v # w => pc'[v] = pc[v]
      PROVE  KeptInvariant'
  BY <1>1 DEF queueVars
\* What is not in hand needs neither worker nor table.
<1>2. ASSUME UNCHANGED <<queueVars, workerVars, faultVars>>
      PROVE  KeptInvariant'
  BY <1>2 DEF queueVars, workerVars, faultVars
<1>3. ASSUME NEW batch \in Batches, Submit(batch)
      PROVE  KeptInvariant'
  <2> DEFINE new == [id |-> submitted + 1, readings |-> batch, retries |-> 0]
  <2>1. /\ tasks' = tasks \cup {new} /\ submitted' = submitted + 1
        /\ new.id = submitted + 1 /\ new.retries = 0
        /\ UNCHANGED <<done, pc, task, errors>>
    BY <1>3 DEF Submit, workerVars, faultVars
  <2>2. UNCHANGED killed
    BY <1>3 DEF Submit
  <2> HIDE DEF new
  <2> QED BY <1>0, <2>1, <2>2
<1>4. ASSUME NEW w \in Workers, Take(w)
      PROVE  KeptInvariant'
  <2>1. PICK m \in tasks : tasks' = tasks \ {m} /\ task' = [task EXCEPT ![w] = m]
    BY <1>4 DEF Take
  <2>2. /\ pc[w] = "idle" /\ pc' = [pc EXCEPT ![w] = "reading"]
        /\ UNCHANGED <<submitted, done, killed, errors>>
    BY <1>4 DEF Take, Move, faultVars
  <2> QED BY <1>0, <2>1, <2>2
<1>5. ASSUME NEW w \in Workers,
             \/ StartReading(w) \/ FinishReading(w) \/ CommitUpdate(w) \/ CommitInsert(w)
             \/ Publish(w)
      PROVE  KeptInvariant'
  <2>1. /\ UNCHANGED <<queueVars, task, errors>>
        /\ pc[w] \notin {"idle", "raised"}
        /\ pc' \in {[pc EXCEPT ![w] = "reading"], [pc EXCEPT ![w] = "matching"],
                    [pc EXCEPT ![w] = "publishing"]}
    BY <1>5 DEF StartReading, FinishReading, CommitUpdate, CommitInsert, UpdateRow, InsertRow,
                Publish, Move, faultVars
  <2> QED BY <1>0, <1>1, <2>1
<1>6. ASSUME NEW w \in Workers, FinishBatch(w) \/ AcknowledgeTask(w)
      PROVE  KeptInvariant'
  <2>1. /\ UNCHANGED <<tasks, submitted, killed, errors>>
        /\ done' = IF pc[w] = "reading" THEN done \cup {task[w].id} ELSE done
        /\ pc[w] \in {"reading", "raised"}
        /\ pc' = [pc EXCEPT ![w] = "idle"] /\ task' = [task EXCEPT ![w] = Nothing]
    BY <1>6 DEF FinishBatch, AcknowledgeTask, Release, Move, queueVars, faultVars
  <2> QED BY <1>0, <2>1
<1>7. ASSUME NEW w \in Workers, CloseOpenAlert(w) \/ TriggerAlert(w)
      PROVE  KeptInvariant'
  BY <1>1, <1>7, MatchingGoesOn DEF faultVars
<1>8. ASSUME NEW w \in Workers, TaskError(w) \/ CommitUnanswered(w)
      PROVE  KeptInvariant'
  <2>1. /\ errors' = errors + 1 /\ tasks' = tasks \cup Retries(w)
        /\ pc[w] \notin {"idle", "raised"} /\ pc' = [pc EXCEPT ![w] = "raised"]
        /\ UNCHANGED <<task, submitted, done, killed>>
    BY <1>8 DEF TaskError, CommitUnanswered, UpdateRow, InsertRow, Raise, SendRetry, Move
  <2>2. task[w] \in Tasks /\ task[w].retries <= errors
    BY <1>0, <2>1
  <2>3. \A m \in Retries(w) : m.retries <= errors'
    BY <1>0, <2>1, <2>2 DEF Retries
  <2>4. errors' <= MaxRetries => \E m \in Retries(w) : m.id = task[w].id
    <3> DEFINE again == [id |-> task[w].id, readings |-> task[w].readings,
                         retries |-> task[w].retries + 1]
    <3> SUFFICES ASSUME errors' <= MaxRetries PROVE again \in Retries(w)
      BY <2>1
    <3>1. task[w].retries + 1 \in 0..MaxRetries
      BY <1>0, <2>1, <2>2
    <3> QED BY <2>2, <3>1 DEF Retries, Tasks
  <2>5. RetriesArePaid'
    BY <1>0, <2>1, <2>3
  <2>6. BatchIsKept'
    BY <1>0, <2>1, <2>4
  <2> QED BY <2>5, <2>6
<1>9. CASE Crash
  <2>1. /\ \A w \in Workers : pc[w] # "idle" => task[w] \in tasks'
        /\ \A m \in tasks' : m \in tasks \/ \E w \in Workers : pc[w] # "idle" /\ m = task[w]
        /\ tasks \subseteq tasks' /\ UNCHANGED <<submitted, done, killed, errors>>
        /\ \A w \in Workers : pc'[w] = "idle"
    BY <1>9 DEF Crash
  <2> QED BY <1>0, <2>1
<1>10. ASSUME NEW u \in Admins, AcknowledgeCommit(u) \/ \E r \in Ids : AcknowledgeLoad(u, r)
       PROVE  KeptInvariant'
  BY <1>2, <1>10 DEF AcknowledgeCommit, AcknowledgeLoad
<1>11. CASE UNCHANGED vars
  BY <1>2, <1>11 DEF vars
\* Whoever dies alone takes at most its own batch along.
<1>12. ASSUME NEW w \in Workers, Kill(w)
       PROVE  KeptInvariant'
  <2>1. /\ UNCHANGED <<tasks, submitted, done, errors>>
        /\ killed' = IF pc[w] = "raised" THEN killed ELSE killed \cup {task[w].id}
        /\ pc' = [pc EXCEPT ![w] = "idle"] /\ task' = [task EXCEPT ![w] = Nothing]
    BY <1>12 DEF Kill, Release, Move
  <2>2. \A v \in Workers : v # w => pc'[v] = pc[v] /\ task'[v] = task[v]
    BY <1>0, <2>1
  <2>3. \A i : InHand(w, i) => i \in killed'
    BY <2>1
  <2> QED BY <1>0, <2>1, <2>2, <2>3
<1> QED BY <1>3, <1>4, <1>5, <1>6, <1>7, <1>8, <1>9, <1>10, <1>11, <1>12 DEF Next, WorkerStep

\* With one worker a batch is lost only with a pool process that dies in the middle of
\* it, or when more errors happened than it has retries, however often the whole worker
\* dies and whatever is acknowledged meanwhile.
THEOREM NoBatchIsLost ==
  ASSUME \A v, w \in Workers : v = w
  PROVE  Spec => []BatchIsKept
<1>1. Init => KeptInvariant
  BY DEF Init, KeptInvariant, RetriesArePaid, BatchIsKept
<1>2. KeptInvariant => BatchIsKept
  BY DEF KeptInvariant
<1> QED BY AlertsWellFormed, OneWorkerKeepsUnique, KeptStep, <1>1, <1>2, PTL DEF Spec
=============================================================================
