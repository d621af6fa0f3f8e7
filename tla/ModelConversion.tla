--------------------------- MODULE ModelConversion ---------------------------
(***************************************************************************)
(* 3D models: the upload and delete handlers of app/routers/models.py, the *)
(* Celery task that converts a source file to GLB                          *)
(* (app/tasks/model_tasks.py), the rows of 3d_models that all of them      *)
(* write through app/services/model_service.py, and the object store.      *)
(*                                                                         *)
(* A session loads a row, assigns attributes and flushes.  The UPDATE goes *)
(* by primary key, contains the columns whose values differ from the       *)
(* loaded ones, and raises when the row is gone.                           *)
(***************************************************************************)
EXTENDS Naturals

CONSTANTS
  Models,      \* ids of rows of 3d_models
  Slots,       \* pool processes that serve the reports queue
  Deleters,    \* concurrent executions of DELETE /models/{id}
  Budget,      \* how often the environment may misbehave, by kind
  NoRow,       \* the row does not exist
  NoMessage,   \* what an idle slot holds
  NoRequest    \* what an idle deleter holds

\* error: an awaited call fails, or the process of an HTTP handler ends there
\* broker: delay() raises, whether or not the broker has taken the message
\* crash: the worker dies and its messages are delivered again
\* kill: a pool process dies and the worker acknowledges its message
\* duplicate: the visibility timeout expires on a message being executed
\* any: all of these together
Faults == {"error", "broker", "crash", "kill", "duplicate", "any"}

Rows == [status : {"pending", "processing", "success", "failed"},
         glb : Nat, error : BOOLEAN]

\* Object keys carry a fresh uuid; glb 0 is a null glb_key, object 0 the source file.
Objects == [model : Models, version : Nat]
Object(m, n) == [model |-> m, version |-> n]

\* One message per dispatch; a copy the broker delivers again beside it has a
\* number of its own.
Messages == [model : Models, copy : Nat]

ASSUME BudgetAssumption == Budget \in [Faults -> Nat]
ASSUME NoRowAssumption == NoRow \notin Rows
ASSUME NoMessageAssumption == NoMessage \notin Messages
ASSUME NoRequestAssumption ==
  NoRequest \notin [stage : {"loaded", "original", "glb"}, model : Models, glb : Nat]

VARIABLES
  row,      \* the table
  objects,  \* what MinIO holds
  made,     \* how many GLB files of each model were stored so far
  upload,   \* where the upload handler of each model is
  noted,    \* the row the upload handler loaded to mark it failed
  queue,    \* messages of the reports queue
  pc,       \* where each slot is in convert_model_task
  task,     \* the message each slot executes
  key,      \* the version each slot stored its GLB as
  seen,     \* the row each slot loaded last
  request,  \* each delete handler: its stage, its model and the glb_key it loaded
  spent     \* how often each kind of fault has happened

uploadVars == <<upload, noted>>
slotVars == <<pc, task, key, seen>>
vars == <<row, objects, made, uploadVars, queue, slotVars, request, spent>>

\* stored: the source file is in MinIO; committed: the row is too
\* unsent, failing: delay() raised; its row is to be loaded, updated
\* done, refused, broken: answered, failed without a row, failed after the commit
UploadStage == {"new", "stored", "committed", "unsent", "failing", "done",
                "refused", "broken"}

\* accepted, uploaded, rejecting, raised: a row is to be loaded to mark it
\* processing, success, failed, failed by the outer handler
\* marking, succeeding, rejected, failing: it was loaded and is to be updated
\* processing: before download and conversion; converted: before the GLB is stored
\* ended: the message is still to be acknowledged
Stage == {"idle", "accepted", "marking", "processing", "converted", "uploaded",
          "succeeding", "rejecting", "rejected", "raised", "failing", "ended"}
Updating == {"marking", "succeeding", "rejected", "failing"}
OuterHandler == {"raised", "failing"}

Deletions == [stage : {"loaded", "original", "glb"}, model : Models, glb : Nat]

Busy(s) == pc[s] \notin {"idle", "ended"}
ModelOf(s) == task[s].model

TypeOK ==
  /\ row \in [Models -> Rows \cup {NoRow}]
  /\ objects \subseteq Objects
  /\ made \in [Models -> Nat]
  /\ upload \in [Models -> UploadStage]
  /\ noted \in [Models -> Rows \cup {NoRow}]
  /\ \A m \in Models : upload[m] = "failing" => noted[m] \in Rows
  /\ queue \subseteq Messages
  /\ pc \in [Slots -> Stage]
  /\ task \in [Slots -> Messages \cup {NoMessage}]
  /\ \A s \in Slots : pc[s] # "idle" => task[s] \in Messages
  /\ key \in [Slots -> Nat]
  /\ seen \in [Slots -> Rows \cup {NoRow}]
  /\ \A s \in Slots : pc[s] \in Updating => seen[s] \in Rows
  /\ request \in [Deleters -> Deletions \cup {NoRequest}]
  /\ spent \in [Faults -> Nat]

Init ==
  /\ row = [m \in Models |-> NoRow]
  /\ objects = {}
  /\ made = [m \in Models |-> 0]
  /\ upload = [m \in Models |-> "new"]
  /\ noted = [m \in Models |-> NoRow]
  /\ queue = {}
  /\ pc = [s \in Slots |-> "idle"]
  /\ task = [s \in Slots |-> NoMessage]
  /\ key = [s \in Slots |-> 0]
  /\ seen = [s \in Slots |-> NoRow]
  /\ request = [d \in Deleters |-> NoRequest]
  /\ spent = [k \in Faults |-> 0]

Fault(k) ==
  /\ spent[k] < Budget[k] /\ spent["any"] < Budget["any"]
  /\ spent' = [spent EXCEPT ![k] = @ + 1, !["any"] = @ + 1]

\* What an UPDATE leaves in the table: the columns that differ from the loaded
\* row overwrite those of the current one.
Updated(current, loaded, new) ==
  [status |-> IF new.status # loaded.status THEN new.status ELSE current.status,
   glb    |-> IF new.glb # loaded.glb THEN new.glb ELSE current.glb,
   error  |-> IF new.error # loaded.error THEN new.error ELSE current.error]

Processing(loaded) == [loaded EXCEPT !.status = "processing"]
Failed(loaded) == [loaded EXCEPT !.status = "failed", !.error = TRUE]

\* Mutant of Succeeded: the key is not written.
SucceededWithoutKey(loaded, n) == [loaded EXCEPT !.status = "success", !.error = FALSE]
Succeeded(loaded, n) ==
  [loaded EXCEPT !.status = "success", !.glb = n, !.error = FALSE]

-----------------------------------------------------------------------------
(* POST /models/{project_id}/upload: the source file is stored first, then  *)
(* the row is committed, then the message is sent.                          *)

UploadSource(m) ==
  /\ upload[m] = "new"
  /\ objects' = objects \cup {Object(m, 0)}
  /\ upload' = [upload EXCEPT ![m] = "stored"]
  /\ UNCHANGED <<row, made, noted, queue, slotVars, request, spent>>

UploadCommit(m) ==
  /\ upload[m] = "stored"
  /\ row' = [row EXCEPT ![m] = [status |-> "pending", glb |-> 0, error |-> FALSE]]
  /\ upload' = [upload EXCEPT ![m] = "committed"]
  /\ UNCHANGED <<objects, made, noted, queue, slotVars, request, spent>>

\* db.refresh finds the row, delay() succeeds.
UploadDispatch(m) ==
  /\ upload[m] = "committed"
  /\ row[m] # NoRow
  /\ queue' = queue \cup {[model |-> m, copy |-> 0]}
  /\ upload' = [upload EXCEPT ![m] = "done"]
  /\ UNCHANGED <<row, objects, made, noted, slotVars, request, spent>>

\* delay() raises: the answer of the broker may have been lost on its way.
UploadUnsent(m) ==
  /\ upload[m] = "committed"
  /\ row[m] # NoRow
  /\ Fault("broker")
  /\ queue' \in {queue, queue \cup {[model |-> m, copy |-> 0]}}
  /\ upload' = [upload EXCEPT ![m] = "unsent"]
  /\ UNCHANGED <<row, objects, made, noted, slotVars, request>>

UploadLoadFailed(m) ==
  /\ upload[m] = "unsent"
  /\ row[m] # NoRow
  /\ noted' = [noted EXCEPT ![m] = row[m]]
  /\ upload' = [upload EXCEPT ![m] = "failing"]
  /\ UNCHANGED <<row, objects, made, queue, slotVars, request, spent>>

UploadMarkFailed(m) ==
  /\ upload[m] = "failing"
  /\ row[m] # NoRow
  /\ row' = [row EXCEPT ![m] = Updated(@, noted[m], Failed(noted[m]))]
  /\ upload' = [upload EXCEPT ![m] = "done"]
  /\ UNCHANGED <<objects, made, noted, queue, slotVars, request, spent>>

\* A call fails, or the row it needs was deleted: the handler answers an error and
\* nothing is taken back.
UploadFails(m) ==
  /\ upload[m] \in {"new", "stored", "committed", "unsent", "failing"}
  /\ \/ Fault("error")
     \/ /\ upload[m] \in {"committed", "unsent", "failing"}
        /\ row[m] = NoRow
        /\ UNCHANGED spent
  /\ upload' = [upload EXCEPT ![m] = IF @ \in {"new", "stored"} THEN "refused"
                                     ELSE "broken"]
  /\ UNCHANGED <<row, objects, made, noted, queue, slotVars, request>>

-----------------------------------------------------------------------------
(* convert_model_task and _run.                                             *)

Move(s, stage) == pc' = [pc EXCEPT ![s] = stage]

\* What cannot go on: a needed row or source file has been deleted.  An UPDATE that
\* changes no column is not sent, so it does not miss its row.
Impossible(s) ==
  \/ /\ pc[s] \in {"accepted", "uploaded", "rejecting", "raised"} \cup Updating
     /\ row[ModelOf(s)] = NoRow
     /\ pc[s] = "marking" => seen[s].status # "processing"
  \/ pc[s] = "processing" /\ Object(ModelOf(s), 0) \notin objects

Take(s) ==
  /\ pc[s] = "idle"
  /\ \E t \in queue :
       /\ queue' = queue \ {t}
       /\ task' = [task EXCEPT ![s] = t]
  /\ Move(s, "accepted")
  /\ UNCHANGED <<row, objects, made, uploadVars, key, seen, request, spent>>

Load(s, from, to) ==
  /\ pc[s] = from
  /\ row[ModelOf(s)] # NoRow
  /\ seen' = [seen EXCEPT ![s] = row[ModelOf(s)]]
  /\ Move(s, to)
  /\ UNCHANGED <<row, objects, made, uploadVars, queue, task, key, request, spent>>

\* The row is read twice, by _run and by mark_running; both raise when it is gone.
LoadForRunning(s) == Load(s, "accepted", "marking")

\* Mutant of LoadForSuccess: the test for None is left out.
LoadForSuccessUntested(s) ==
  /\ pc[s] = "uploaded"
  /\ seen' = [seen EXCEPT ![s] = row[ModelOf(s)]]
  /\ Move(s, "succeeding")
  /\ UNCHANGED <<row, objects, made, uploadVars, queue, task, key, request, spent>>

LoadForSuccess(s) == Load(s, "uploaded", "succeeding")
LoadForRejection(s) == Load(s, "rejecting", "rejected")
LoadForFailure(s) == Load(s, "raised", "failing")

Update(s, from, new, to) ==
  /\ pc[s] = from
  /\ ~Impossible(s)
  /\ row' = [row EXCEPT ![ModelOf(s)] =
               IF @ = NoRow THEN NoRow ELSE Updated(@, seen[s], new)]
  /\ Move(s, to)
  /\ UNCHANGED <<objects, made, uploadVars, queue, task, key, seen, request, spent>>

MarkRunning(s) == Update(s, "marking", Processing(seen[s]), "processing")
MarkSuccess(s) == Update(s, "succeeding", Succeeded(seen[s], key[s]), "ended")
MarkRejected(s) == Update(s, "rejected", Failed(seen[s]), "ended")
MarkFailed(s) == Update(s, "failing", Failed(seen[s]), "ended")

\* The source is downloaded and converted, or convert_bytes raises ValueError.
Convert(s) ==
  /\ pc[s] = "processing"
  /\ ~Impossible(s)
  /\ \/ Move(s, "converted")
     \/ Move(s, "rejecting")
  /\ UNCHANGED <<row, objects, made, uploadVars, queue, task, key, seen, request, spent>>

\* Mutant of StoreGlb: a failing upload is swallowed.
StoreGlbSwallowed(s) ==
  /\ pc[s] = "converted"
  /\ made' = [made EXCEPT ![ModelOf(s)] = @ + 1]
  /\ key' = [key EXCEPT ![s] = made[ModelOf(s)] + 1]
  /\ objects' \in {objects, objects \cup {Object(ModelOf(s), made[ModelOf(s)] + 1)}}
  /\ Move(s, "uploaded")
  /\ UNCHANGED <<row, uploadVars, queue, task, seen, request, spent>>

StoreGlb(s) ==
  /\ pc[s] = "converted"
  /\ made' = [made EXCEPT ![ModelOf(s)] = @ + 1]
  /\ key' = [key EXCEPT ![s] = made[ModelOf(s)] + 1]
  /\ objects' = objects \cup {Object(ModelOf(s), made[ModelOf(s)] + 1)}
  /\ Move(s, "uploaded")
  /\ UNCHANGED <<row, uploadVars, queue, task, seen, request, spent>>

\* Mutant of Caught: the outer handler does not write the failure.
CaughtSilently(s) == Move(s, "ended")

\* The except clause of the task marks the row failed; what that raises is logged.
Caught(s) == Move(s, IF pc[s] \in OuterHandler THEN "ended" ELSE "raised")

Raises(s) ==
  /\ Busy(s)
  /\ \/ Impossible(s) /\ UNCHANGED spent
     \/ Fault("error")
  /\ Caught(s)
  /\ UNCHANGED <<row, objects, made, uploadVars, queue, task, key, seen, request>>

Release(s) ==
  /\ Move(s, "idle")
  /\ task' = [task EXCEPT ![s] = NoMessage]
  /\ key' = [key EXCEPT ![s] = 0]
  /\ seen' = [seen EXCEPT ![s] = NoRow]

Acknowledge(s) ==
  /\ pc[s] = "ended"
  /\ Release(s)
  /\ UNCHANGED <<row, objects, made, uploadVars, queue, request, spent>>

-----------------------------------------------------------------------------
(* The broker and the worker's processes (task_acks_late).                  *)

Crash ==
  /\ Fault("crash")
  /\ queue' = queue \cup {task[s] : s \in {z \in Slots : pc[z] # "idle"}}
  /\ pc' = [s \in Slots |-> "idle"]
  /\ task' = [s \in Slots |-> NoMessage]
  /\ key' = [s \in Slots |-> 0]
  /\ seen' = [s \in Slots |-> NoRow]
  /\ UNCHANGED <<row, objects, made, uploadVars, request>>

KillSlot(s) ==
  /\ pc[s] # "idle"
  /\ Fault("kill")
  /\ Release(s)
  /\ UNCHANGED <<row, objects, made, uploadVars, queue, request>>

Redeliver(s) ==
  /\ pc[s] # "idle"
  /\ Fault("duplicate")
  /\ queue' = queue \cup {[task[s] EXCEPT !.copy = @ + 1]}
  /\ UNCHANGED <<row, objects, made, uploadVars, slotVars, request>>

-----------------------------------------------------------------------------
(* DELETE /models/{id}: the row is deleted by primary key and the deletion  *)
(* committed; then the objects of the keys loaded with the row are deleted, *)
(* each failure being passed over.  Deleting a row that is gone is not an   *)
(* error.                                                                   *)

DeleteLoad(d, m) ==
  /\ request[d] = NoRequest
  /\ row[m] # NoRow
  /\ request' = [request EXCEPT ![d] =
                   [stage |-> "loaded", model |-> m, glb |-> row[m].glb]]
  /\ UNCHANGED <<row, objects, made, uploadVars, queue, slotVars, spent>>

\* Mutant of DeleteCommit: the objects are deleted before the commit.
DeleteCommitLast(d) ==
  /\ request[d] # NoRequest /\ request[d].stage = "loaded"
  /\ request' = [request EXCEPT ![d].stage = "original"]
  /\ objects' = objects \ {Object(request[d].model, request[d].glb)}
  /\ UNCHANGED <<row, made, uploadVars, queue, slotVars, spent>>

DeleteCommit(d) ==
  /\ request[d] # NoRequest /\ request[d].stage = "loaded"
  /\ row' = [row EXCEPT ![request[d].model] = NoRow]
  /\ request' = [request EXCEPT ![d].stage = "original"]
  /\ UNCHANGED <<objects, made, uploadVars, queue, slotVars, spent>>

DeleteFails(d) ==
  /\ request[d] # NoRequest /\ request[d].stage = "loaded"
  /\ Fault("error")
  /\ request' = [request EXCEPT ![d] = NoRequest]
  /\ UNCHANGED <<row, objects, made, uploadVars, queue, slotVars>>

DeleteOriginal(d) ==
  /\ request[d] # NoRequest /\ request[d].stage = "original"
  /\ \/ objects' = objects \ {Object(request[d].model, 0)} /\ UNCHANGED spent
     \/ Fault("error") /\ UNCHANGED objects
  /\ request' = [request EXCEPT ![d] =
                   IF @.glb = 0 THEN NoRequest ELSE [@ EXCEPT !.stage = "glb"]]
  /\ UNCHANGED <<row, made, uploadVars, queue, slotVars>>

DeleteGlb(d) ==
  /\ request[d] # NoRequest /\ request[d].stage = "glb"
  /\ \/ objects' = objects \ {Object(request[d].model, request[d].glb)}
        /\ UNCHANGED spent
     \/ Fault("error") /\ UNCHANGED objects
  /\ request' = [request EXCEPT ![d] = NoRequest]
  /\ UNCHANGED <<row, made, uploadVars, queue, slotVars>>

-----------------------------------------------------------------------------
UploadStep(m) ==
  \/ UploadCommit(m) \/ UploadDispatch(m) \/ UploadUnsent(m) \/ UploadLoadFailed(m)
  \/ UploadMarkFailed(m) \/ UploadFails(m)

SlotStep(s) ==
  \/ Take(s) \/ LoadForRunning(s) \/ MarkRunning(s) \/ Convert(s) \/ StoreGlb(s)
  \/ LoadForSuccess(s) \/ MarkSuccess(s) \/ LoadForRejection(s) \/ MarkRejected(s)
  \/ Raises(s) \/ LoadForFailure(s) \/ MarkFailed(s) \/ Acknowledge(s)

DeleteStep(d) == DeleteCommit(d) \/ DeleteFails(d) \/ DeleteOriginal(d) \/ DeleteGlb(d)

Next ==
  \/ \E m \in Models : UploadSource(m) \/ UploadStep(m)
  \/ \E s \in Slots : SlotStep(s) \/ KillSlot(s) \/ Redeliver(s)
  \/ \E d \in Deleters : DeleteStep(d) \/ \E m \in Models : DeleteLoad(d, m)
  \/ Crash

Spec == Init /\ [][Next]_vars

\* Upload handlers and pool processes that can go on do; nobody has to upload or
\* delete, and no fault has to happen.
Fairness ==
  /\ \A m \in Models : WF_vars(UploadStep(m))
  /\ \A s \in Slots : WF_vars(SlotStep(s))

FairSpec == Spec /\ Fairness

-----------------------------------------------------------------------------
(* Properties.                                                              *)

\* GET /models/{id}/file serves the object a successful row names: it is in the store,
\* and so is the source file, whatever is deleted, repeated or lost.
ReadyHasObject ==
  \A m \in Models :
    row[m] # NoRow =>
      /\ Object(m, 0) \in objects
      /\ row[m].status = "success" =>
           row[m].glb > 0 /\ Object(m, row[m].glb) \in objects

\* Without faults the store keeps nothing that no row names: every file belongs to a
\* row or to the handler or task about to write or delete it.  The exception is the
\* GLB of a model deleted during its conversion.
NothingLeaks ==
  spent["any"] = 0 =>
    \A m \in Models :
      /\ Object(m, 0) \in objects =>
           \/ row[m] # NoRow
           \/ upload[m] = "stored"
           \/ \E d \in Deleters : request[d] # NoRequest /\ request[d].model = m
      /\ \A n \in 1..made[m] :
           Object(m, n) \in objects =>
             \/ row[m] = NoRow
             \/ row[m].glb = n
             \/ \E s \in Slots : /\ pc[s] \in {"uploaded", "succeeding"}
                                 /\ ModelOf(s) = m /\ key[s] = n

Unsettled(m) == row[m] # NoRow /\ row[m].status \in {"pending", "processing"}

\* A conversion does not hang in pending or processing: any one failing call, a crash
\* and a repetition end in success or failed.  What hangs is a model whose message was
\* never sent because its upload broke, and one whose pool process was killed.
EveryModelSettles ==
  \A m \in Models :
    Unsettled(m) ~> \/ ~Unsettled(m)
                    \/ upload[m] = "broken"
                    \/ spent["kill"] > 0

-----------------------------------------------------------------------------
(* The inductive invariant behind ReadyHasObject: an object is stored       *)
(* before anything names it, and deleted after the row has gone for good.   *)

BeforeCommit(m) == upload[m] \in {"new", "stored"}

RowsAreStored ==
  \A m \in Models : row[m] # NoRow =>
    /\ Object(m, 0) \in objects
    /\ Object(m, row[m].glb) \in objects
    /\ row[m].status = "success" => row[m].glb > 0

KeysAreStored ==
  \A s \in Slots : pc[s] \in {"uploaded", "succeeding"} =>
    /\ key[s] > 0
    /\ row[ModelOf(s)] # NoRow => Object(ModelOf(s), key[s]) \in objects

\* glb_key is never taken back.
KeysStay ==
  \A s \in Slots :
    pc[s] = "succeeding" /\ seen[s].glb > 0 /\ row[ModelOf(s)] # NoRow
      => row[ModelOf(s)].glb > 0

DeletionsAreFinal ==
  \A d \in Deleters : request[d] # NoRequest =>
    /\ ~BeforeCommit(request[d].model)
    /\ request[d].stage # "loaded" => row[request[d].model] = NoRow

SourcesAreStored ==
  \A m \in Models : BeforeCommit(m) =>
    /\ row[m] = NoRow
    /\ upload[m] = "stored" => Object(m, 0) \in objects

TasksAreCommitted ==
  /\ \A s \in Slots : pc[s] # "idle" => ~BeforeCommit(ModelOf(s))
  /\ \A t \in queue : ~BeforeCommit(t.model)

StoreInvariant ==
  /\ TypeOK
  /\ RowsAreStored
  /\ KeysAreStored
  /\ KeysStay
  /\ DeletionsAreFinal
  /\ SourcesAreStored
  /\ TasksAreCommitted

-----------------------------------------------------------------------------
(* The inductive invariant behind NothingLeaks: without faults a model is   *)
(* converted once, so its row names no GLB before the task's own.           *)

Unconverted(m) == row[m] = NoRow \/ row[m].glb = 0
BeforeDispatch(m) == BeforeCommit(m) \/ upload[m] = "committed"

OneTask ==
  /\ \A t, u \in queue : t.model = u.model => t = u
  /\ \A r, s \in Slots :
       pc[r] # "idle" /\ pc[s] # "idle" /\ ModelOf(r) = ModelOf(s) => r = s
  /\ \A t \in queue, s \in Slots : pc[s] # "idle" => ModelOf(s) # t.model
  /\ \A m \in Models : BeforeDispatch(m) =>
       /\ \A t \in queue : t.model # m
       /\ \A s \in Slots : pc[s] # "idle" => ModelOf(s) # m

TaskFindsNoKey ==
  /\ \A m \in Models : /\ BeforeDispatch(m) => Unconverted(m)
                       /\ BeforeCommit(m) => made[m] = 0
  /\ \A t \in queue : Unconverted(t.model)
  /\ \A s \in Slots : Busy(s) => Unconverted(ModelOf(s))
  /\ \A s \in Slots : pc[s] = "succeeding" => seen[s].glb = 0

\* The source file is deleted before the GLB.
SourceGoesFirst ==
  \A d \in Deleters : request[d] # NoRequest /\ request[d].stage = "glb" =>
    Object(request[d].model, 0) \notin objects

TidyInvariant ==
  spent["any"] = 0 => OneTask /\ TaskFindsNoKey /\ SourceGoesFirst /\ NothingLeaks

-----------------------------------------------------------------------------
(* The safety half of EveryModelSettles, for any number of slots: somebody  *)
(* still holds the conversion of an unsettled model.                        *)

\* The slot will write an outcome over the status that the row has now.  A slot that
\* loaded the row with the outcome it brings sends no UPDATE of the status.
WillSettle(s) ==
  \/ Busy(s) /\ pc[s] \notin {"succeeding", "rejected", "failing"}
  \/ pc[s] = "succeeding" /\ seen[s].status # "success"
  \/ pc[s] \in {"rejected", "failing"} /\ seen[s].status # "failed"

\* Unless its upload broke or a pool process was killed, a model left pending or
\* processing is about to be dispatched or marked, or is in a message, or in a slot
\* that will write its outcome: neither one failing call nor crashes, messages the
\* broker took without saying so, repeated deliveries and deletions leave it behind.
OneErrorNoKill == spent["error"] <= 1 /\ spent["kill"] = 0
UnsettledHasCarrier ==
  \A m \in Models : Unsettled(m) /\ upload[m] # "broken" /\ OneErrorNoKill =>
    \/ upload[m] \in {"committed", "unsent"}
    \/ upload[m] = "failing" /\ noted[m].status # "failed"
    \/ \E t \in queue : t.model = m
    \/ \E s \in Slots : WillSettle(s) /\ ModelOf(s) = m

\* The outer handler runs after an error, or for a model that was deleted.
HandlerIsPaid ==
  \A s \in Slots : pc[s] \in OuterHandler =>
    row[ModelOf(s)] = NoRow \/ spent["error"] > 0

SettlingInvariant == StoreInvariant /\ HandlerIsPaid /\ UnsettledHasCarrier
=============================================================================
