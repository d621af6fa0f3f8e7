------------------------ MODULE ModelConversionProofs ------------------------
(***************************************************************************)
(* Proofs about ModelConversion for any models, slots, deleters, budgets.  *)
(***************************************************************************)
EXTENDS ModelConversion, TLAPS

\* The variables keep their types under every step: in particular a slot that is
\* about to update a row has loaded one.
THEOREM TypeCorrect == Spec => []TypeOK
<1> USE BudgetAssumption, NoRowAssumption, NoMessageAssumption
<1>1. Init => TypeOK
  BY DEF Init, TypeOK, UploadStage, Stage, Updating, Faults
<1>2. TypeOK /\ [Next]_vars => TypeOK'
  <2> SUFFICES ASSUME TypeOK, [Next]_vars PROVE TypeOK'
    OBVIOUS
  <2> USE DEF TypeOK, uploadVars, slotVars
  <2>0. \A current, loaded, new \in Rows : Updated(current, loaded, new) \in Rows
    BY DEF Updated, Rows
  <2>1. ASSUME NEW m \in Models, UploadSource(m) \/ UploadStep(m)
        PROVE  TypeOK'
    <3> USE DEF UploadStage, Fault, Faults
    <3>1. CASE UploadSource(m)
      BY <3>1 DEF UploadSource, Object, Objects
    <3>2. CASE UploadCommit(m)
      BY <3>2 DEF UploadCommit, Rows
    <3>3. CASE UploadDispatch(m) \/ UploadUnsent(m)
      BY <3>3 DEF UploadDispatch, UploadUnsent, Messages
    <3>4. CASE UploadLoadFailed(m)
      BY <3>4 DEF UploadLoadFailed
    <3>5. CASE UploadMarkFailed(m)
      <4>1. Failed(noted[m]) \in Rows
        BY <3>5 DEF UploadMarkFailed, Failed, Rows
      <4> QED BY <2>0, <3>5, <4>1 DEF UploadMarkFailed
    <3>6. CASE UploadFails(m)
      BY <3>6 DEF UploadFails
    <3> QED BY <2>1, <3>1, <3>2, <3>3, <3>4, <3>5, <3>6 DEF UploadStep
  <2>2. ASSUME NEW s \in Slots, SlotStep(s)
        PROVE  TypeOK'
    <3> USE DEF Stage, Updating, Move
    <3>1. CASE Take(s)
      BY <3>1 DEF Take
    <3>2. CASE \/ LoadForRunning(s) \/ LoadForSuccess(s)
               \/ LoadForRejection(s) \/ LoadForFailure(s)
      <4>1. ModelOf(s) \in Models
        BY <3>2 DEF LoadForRunning, LoadForSuccess, LoadForRejection, LoadForFailure,
                    Load, ModelOf, Messages
      <4> QED BY <3>2, <4>1 DEF LoadForRunning, LoadForSuccess, LoadForRejection,
                                LoadForFailure, Load
    <3>3. CASE MarkRunning(s) \/ MarkSuccess(s) \/ MarkRejected(s) \/ MarkFailed(s)
      <4>1. /\ seen[s] \in Rows
            /\ ModelOf(s) \in Models
        BY <3>3 DEF MarkRunning, MarkSuccess, MarkRejected, MarkFailed, Update, ModelOf,
                    Messages
      <4>2. /\ Processing(seen[s]) \in Rows
            /\ Failed(seen[s]) \in Rows
            /\ Succeeded(seen[s], key[s]) \in Rows
        BY <4>1 DEF Processing, Failed, Succeeded, Rows
      <4>3. ASSUME NEW from \in Updating, NEW new \in Rows,
                   NEW to \in {"processing", "ended"}, Update(s, from, new, to)
            PROVE  TypeOK'
        <5>1. row' \in [Models -> Rows \cup {NoRow}]
          <6>1. row[ModelOf(s)] # NoRow => Updated(row[ModelOf(s)], seen[s], new) \in Rows
            BY <2>0, <4>1, <4>3
          <6> QED BY <4>1, <4>3, <6>1 DEF Update
        <5>2. pc' \in [Slots -> Stage] /\ to \notin Updating /\ to # "idle"
          BY <4>3 DEF Update
        <5> QED BY <4>3, <5>1, <5>2 DEF Update
      <4> QED BY <3>3, <4>2, <4>3 DEF MarkRunning, MarkSuccess, MarkRejected, MarkFailed
    <3>4. CASE Convert(s)
      BY <3>4 DEF Convert
    <3>5. CASE StoreGlb(s)
      <4>1. ModelOf(s) \in Models
        BY <3>5 DEF StoreGlb, ModelOf, Messages
      <4> QED BY <3>5, <4>1 DEF StoreGlb, Object, Objects
    <3>6. CASE Raises(s)
      BY <3>6 DEF Raises, Busy, Caught, OuterHandler, Fault, Faults
    <3>7. CASE Acknowledge(s)
      BY <3>7 DEF Acknowledge, Release
    <3> QED BY <2>2, <3>1, <3>2, <3>3, <3>4, <3>5, <3>6, <3>7 DEF SlotStep
  <2>3. ASSUME NEW s \in Slots, KillSlot(s) \/ Redeliver(s)
        PROVE  TypeOK'
    <3> USE DEF Stage, Updating, Fault, Faults
    <3>1. CASE KillSlot(s)
      BY <3>1 DEF KillSlot, Release, Move
    <3>2. CASE Redeliver(s)
      <4>1. [task[s] EXCEPT !.copy = @ + 1] \in Messages
        BY <3>2 DEF Redeliver, Messages
      <4> QED BY <3>2, <4>1 DEF Redeliver
    <3> QED BY <2>3, <3>1, <3>2
  <2>4. ASSUME NEW d \in Deleters, NEW m \in Models, DeleteLoad(d, m)
        PROVE  TypeOK'
    BY <2>4 DEF DeleteLoad, Deletions, Rows
  <2>5. ASSUME NEW d \in Deleters, DeleteStep(d)
        PROVE  TypeOK'
    <3>1. request[d] \in Deletions
      BY <2>5 DEF DeleteStep, DeleteCommit, DeleteFails, DeleteOriginal, DeleteGlb
    <3> QED BY <2>5, <3>1 DEF DeleteStep, DeleteCommit, DeleteFails, DeleteOriginal,
                              DeleteGlb, Deletions, Fault, Faults
  <2>6. CASE Crash
    BY <2>6 DEF Crash, Fault, Faults, Stage, Updating
  <2>7. CASE UNCHANGED vars
    BY <2>7 DEF vars
  <2> QED BY <2>1, <2>2, <2>3, <2>4, <2>5, <2>6, <2>7 DEF Next
<1> QED BY <1>1, <1>2, PTL DEF Spec

-----------------------------------------------------------------------------
(* An object is stored before a row or a task names it, and deleted only    *)
(* when its row has gone for good.                                          *)

\* Objects of different models or versions are different.
LEMMA ObjectsDiffer ==
  ASSUME NEW m, NEW n, NEW i, NEW j, Object(m, i) = Object(n, j)
  PROVE  m = n /\ i = j
BY DEF Object

\* Marking a row processing or failed leaves its glb_key.
LEMMA MarksKeepKey ==
  ASSUME NEW current \in Rows, NEW loaded \in Rows,
         NEW new \in {Processing(loaded), Failed(loaded)}
  PROVE  /\ Updated(current, loaded, new) \in Rows
         /\ Updated(current, loaded, new).glb = current.glb
         /\ Updated(current, loaded, new).status \in {current.status, "processing", "failed"}
BY DEF Updated, Processing, Failed, Rows

\* A successful row names an object, even when it was loaded before another task
\* stored its own.
LEMMA SuccessSetsKey ==
  ASSUME NEW current \in Rows, NEW loaded \in Rows, NEW n \in Nat, n > 0,
         current.status = "success" => current.glb > 0,
         loaded.glb > 0 => current.glb > 0
  PROVE  /\ Updated(current, loaded, Succeeded(loaded, n)) \in Rows
         /\ Updated(current, loaded, Succeeded(loaded, n)).glb \in {current.glb, n}
         /\ Updated(current, loaded, Succeeded(loaded, n)).status = "success" =>
              Updated(current, loaded, Succeeded(loaded, n)).glb > 0
BY DEF Updated, Succeeded, Rows

\* The upload handler creates the row of a model whose source it stored, when no
\* task, message or deletion knows the model yet.
LEMMA UploadKeepsStore ==
  ASSUME StoreInvariant, TypeOK', NEW m \in Models, UploadSource(m) \/ UploadStep(m)
  PROVE  StoreInvariant'
<1> USE DEF StoreInvariant, TypeOK, RowsAreStored, KeysAreStored, KeysStay,
            DeletionsAreFinal, SourcesAreStored, TasksAreCommitted, BeforeCommit,
            ModelOf, Updating, uploadVars, slotVars
<1>0. \A s \in Slots : pc[s] # "idle" => task[s].model \in Models
  BY DEF Messages
<1>1. CASE UploadSource(m)
  BY <1>1 DEF UploadSource
<1>2. CASE UploadCommit(m)
  <2> USE <1>2 DEF UploadCommit
  <2>1. RowsAreStored'
    OBVIOUS
  <2>2. KeysAreStored' /\ KeysStay' /\ TasksAreCommitted'
    BY <1>0
  <2>3. DeletionsAreFinal' /\ SourcesAreStored'
    OBVIOUS
  <2> QED BY <2>1, <2>2, <2>3
<1>3. CASE UploadDispatch(m) \/ UploadUnsent(m)
  <2>1. \A t \in queue' : t \in queue \/ t.model = m
    BY <1>3 DEF UploadDispatch, UploadUnsent
  <2>2. TasksAreCommitted' /\ SourcesAreStored'
    BY <1>0, <1>3, <2>1 DEF UploadDispatch, UploadUnsent, Messages
  <2>3. RowsAreStored' /\ KeysAreStored' /\ KeysStay'
    BY <1>3 DEF UploadDispatch, UploadUnsent
  <2>4. DeletionsAreFinal'
    BY <1>3 DEF UploadDispatch, UploadUnsent, Deletions
  <2> QED BY <2>2, <2>3, <2>4
<1>4. CASE UploadLoadFailed(m)
  BY <1>4 DEF UploadLoadFailed
<1>5. CASE UploadMarkFailed(m)
  <2>1. /\ row'[m] # NoRow
        /\ row'[m].glb = row[m].glb
        /\ row'[m].status \in {row[m].status, "processing", "failed"}
    BY <1>5, NoRowAssumption, MarksKeepKey DEF UploadMarkFailed
  <2>2. \A n \in Models : n # m => row'[n] = row[n]
    BY <1>5 DEF UploadMarkFailed
  <2>3. RowsAreStored'
    BY <1>5, <2>1, <2>2 DEF UploadMarkFailed
  <2>4. KeysAreStored' /\ KeysStay' /\ TasksAreCommitted'
    BY <1>0, <1>5, <2>1, <2>2 DEF UploadMarkFailed
  <2>5. DeletionsAreFinal' /\ SourcesAreStored'
    BY <1>5, <2>1, <2>2 DEF UploadMarkFailed, Deletions
  <2> QED BY <2>3, <2>4, <2>5
<1>6. CASE UploadFails(m)
  BY <1>6 DEF UploadFails
<1> QED BY <1>1, <1>2, <1>3, <1>4, <1>5, <1>6 DEF UploadStep

\* A task names the object it stored, and never takes a key back.
LEMMA SlotKeepsStore ==
  ASSUME StoreInvariant, TypeOK', NEW s \in Slots, SlotStep(s)
  PROVE  StoreInvariant'
<1> USE DEF StoreInvariant, TypeOK, RowsAreStored, KeysAreStored, KeysStay,
            DeletionsAreFinal, SourcesAreStored, TasksAreCommitted, BeforeCommit,
            ModelOf, Updating, uploadVars, slotVars, Move
<1>0. \A z \in Slots : pc[z] # "idle" => task[z].model \in Models
  BY DEF Messages
<1>1. CASE Take(s)
  BY <1>1 DEF Take
<1>2. CASE LoadForRunning(s) \/ LoadForRejection(s) \/ LoadForFailure(s)
  BY <1>2 DEF LoadForRunning, LoadForRejection, LoadForFailure, Load
<1>3. CASE LoadForSuccess(s)
  BY <1>0, <1>3 DEF LoadForSuccess, Load, Rows
<1>4. CASE MarkRunning(s) \/ MarkSuccess(s) \/ MarkRejected(s) \/ MarkFailed(s)
  <2> DEFINE m == task[s].model
  <2>1. /\ pc[s] \in Updating /\ m \in Models /\ seen[s] \in Rows
        /\ pc' \in {[pc EXCEPT ![s] = "processing"], [pc EXCEPT ![s] = "ended"]}
        /\ \A n \in Models : n # m => row'[n] = row[n]
        /\ UNCHANGED <<objects, made, uploadVars, queue, task, key, seen, request>>
    BY <1>0, <1>4 DEF MarkRunning, MarkSuccess, MarkRejected, MarkFailed, Update
  <2>2. row[m] = NoRow => row'[m] = NoRow
    BY <1>4, <2>1 DEF MarkRunning, MarkSuccess, MarkRejected, MarkFailed, Update
  <2>3. row[m] # NoRow =>
          /\ row'[m] # NoRow
          /\ Object(m, row'[m].glb) \in objects
          /\ row'[m].status = "success" => row'[m].glb > 0
          /\ row[m].glb > 0 => row'[m].glb > 0
    <3> SUFFICES ASSUME row[m] # NoRow
                 PROVE  /\ row'[m] # NoRow
                        /\ Object(m, row'[m].glb) \in objects
                        /\ row'[m].status = "success" => row'[m].glb > 0
                        /\ row[m].glb > 0 => row'[m].glb > 0
      OBVIOUS
    <3>1. row[m] \in Rows /\ row'[m] \in Rows \cup {NoRow}
      BY <2>1
    <3>2. CASE MarkSuccess(s)
      <4>1. row'[m] = Updated(row[m], seen[s], Succeeded(seen[s], key[s]))
        BY <2>1, <3>2 DEF MarkSuccess, Update
      <4>2. /\ key[s] > 0 /\ Object(m, key[s]) \in objects
            /\ seen[s].glb > 0 => row[m].glb > 0
        BY <3>2 DEF MarkSuccess, Update
      <4>3. /\ row'[m] \in Rows
            /\ row'[m].glb \in {row[m].glb, key[s]}
            /\ row'[m].status = "success" => row'[m].glb > 0
        BY <2>1, <3>1, <4>1, <4>2, SuccessSetsKey
      <4> QED BY <2>1, <4>2, <4>3, NoRowAssumption
    <3>3. CASE MarkRunning(s) \/ MarkRejected(s) \/ MarkFailed(s)
      <4>1. row'[m] \in {Updated(row[m], seen[s], Processing(seen[s])),
                         Updated(row[m], seen[s], Failed(seen[s]))}
        BY <2>1, <3>3 DEF MarkRunning, MarkRejected, MarkFailed, Update
      <4>2. /\ row'[m] \in Rows
            /\ row'[m].glb = row[m].glb
            /\ row'[m].status \in {row[m].status, "processing", "failed"}
        BY <2>1, <3>1, <4>1, MarksKeepKey
      <4> QED BY <2>1, <4>2, NoRowAssumption
    <3> QED BY <1>4, <3>2, <3>3
  <2>4. RowsAreStored'
    BY <2>1, <2>2, <2>3
  <2>5. KeysAreStored'
    BY <1>0, <2>1, <2>2, <2>3
  <2>6. KeysStay'
    BY <1>0, <2>1, <2>2, <2>3
  <2>7. DeletionsAreFinal' /\ SourcesAreStored'
    BY <2>1, <2>2, <2>3 DEF Deletions
  <2>8. TasksAreCommitted'
    BY <2>1
  <2> QED BY <2>4, <2>5, <2>6, <2>7, <2>8
<1>5. CASE Convert(s)
  BY <1>5 DEF Convert
<1>6. CASE StoreGlb(s)
  BY <1>0, <1>6 DEF StoreGlb
<1>7. CASE Raises(s)
  BY <1>7 DEF Raises, Busy, Caught
<1>8. CASE Acknowledge(s)
  BY <1>8 DEF Acknowledge, Release
<1> QED BY <1>1, <1>2, <1>3, <1>4, <1>5, <1>6, <1>7, <1>8 DEF SlotStep

\* A deletion loads a row that exists and leaves none behind before it deletes the
\* objects of that model.
LEMMA DeletionKeepsStore ==
  ASSUME StoreInvariant, TypeOK', NEW d \in Deleters,
         DeleteStep(d) \/ \E m \in Models : DeleteLoad(d, m)
  PROVE  StoreInvariant'
<1> USE DEF StoreInvariant, TypeOK, RowsAreStored, KeysAreStored, KeysStay,
            DeletionsAreFinal, SourcesAreStored, TasksAreCommitted, BeforeCommit,
            ModelOf, uploadVars, slotVars
<1>1. ASSUME NEW m \in Models, DeleteLoad(d, m)
      PROVE  StoreInvariant'
  BY <1>1 DEF DeleteLoad
<1>2. CASE DeleteCommit(d)
  BY <1>2 DEF DeleteCommit
<1>3. CASE DeleteFails(d)
  BY <1>3 DEF DeleteFails
<1>4. CASE DeleteOriginal(d) \/ DeleteGlb(d)
  <2> DEFINE m == request[d].model
  <2>1. /\ m \in Models /\ row[m] = NoRow /\ ~BeforeCommit(m)
        /\ \E n \in Nat : objects' \in {objects, objects \ {Object(m, n)}}
        /\ request' \in [Deleters -> Deletions \cup {NoRequest}]
        /\ request'[d] # NoRequest => request'[d].model = m
        /\ UNCHANGED <<row, made, uploadVars, queue, slotVars>>
    BY <1>4, NoRequestAssumption DEF DeleteOriginal, DeleteGlb, Deletions
  <2>2. \A n \in Models \ {m} : \A i : Object(n, i) \in objects => Object(n, i) \in objects'
    BY <2>1, ObjectsDiffer
  <2>3. RowsAreStored' /\ SourcesAreStored'
    BY <2>1, <2>2
  <2>4. KeysAreStored' /\ KeysStay' /\ TasksAreCommitted'
    BY <2>1, <2>2 DEF Messages
  <2>5. DeletionsAreFinal'
    BY <1>4, <2>1 DEF DeleteOriginal, DeleteGlb
  <2> QED BY <2>3, <2>4, <2>5
<1> QED BY <1>1, <1>2, <1>3, <1>4 DEF DeleteStep

\* An object is stored before a row or a task names it, whatever fails.
THEOREM StoreSafe == Spec => []StoreInvariant
<1>1. Init => StoreInvariant
  <2>1. Init => TypeOK
    BY BudgetAssumption DEF Init, TypeOK, UploadStage, Stage, Updating, Faults
  <2> QED BY <2>1 DEF Init, StoreInvariant, RowsAreStored, KeysAreStored, KeysStay,
                      DeletionsAreFinal, SourcesAreStored, TasksAreCommitted
<1>2. StoreInvariant /\ TypeOK' /\ [Next]_vars => StoreInvariant'
  <2> SUFFICES ASSUME StoreInvariant, TypeOK', [Next]_vars PROVE StoreInvariant'
    OBVIOUS
  <2> USE DEF StoreInvariant, TypeOK, RowsAreStored, KeysAreStored, KeysStay,
              DeletionsAreFinal, SourcesAreStored, TasksAreCommitted, BeforeCommit,
              ModelOf, uploadVars, slotVars
  <2>1. ASSUME NEW s \in Slots, KillSlot(s)
        PROVE  StoreInvariant'
    BY <2>1 DEF KillSlot, Release, Move
  <2>2. ASSUME NEW s \in Slots, Redeliver(s)
        PROVE  StoreInvariant'
    BY <2>2 DEF Redeliver, Messages
  <2>3. CASE Crash
    BY <2>3 DEF Crash
  <2>4. CASE UNCHANGED vars
    BY <2>4 DEF vars
  <2> QED BY <2>1, <2>2, <2>3, <2>4, UploadKeepsStore, SlotKeepsStore, DeletionKeepsStore
          DEF Next
<1> QED BY TypeCorrect, <1>1, <1>2, PTL DEF Spec

\* What GET /models/{id}/file serves is in the object store.
THEOREM ReadyModelsStored == Spec => []ReadyHasObject
<1>1. StoreInvariant => ReadyHasObject
  BY DEF StoreInvariant, RowsAreStored, ReadyHasObject
<1> QED BY StoreSafe, <1>1, PTL

-----------------------------------------------------------------------------
(* What is left behind when nothing fails.                                  *)

\* A success recorded in a row without a GLB names the one just stored.
LEMMA FirstKeyIsSet ==
  ASSUME NEW current \in Rows, NEW loaded \in Rows, NEW n \in Nat, n > 0,
         current.glb = 0, loaded.glb = 0
  PROVE  /\ Updated(current, loaded, Succeeded(loaded, n)) \in Rows
         /\ Updated(current, loaded, Succeeded(loaded, n)).glb = n
BY DEF Updated, Succeeded, Rows

\* Every fault is counted.
LEMMA FaultIsCounted ==
  ASSUME TypeOK, NEW k \in Faults, Fault(k)
  PROVE  spent'["any"] # 0
BY DEF TypeOK, Fault, Faults

\* The upload handler sends one message for a model it has stored and committed.
LEMMA UploadIsTidy ==
  ASSUME StoreInvariant, TidyInvariant, spent["any"] = 0, spent'["any"] = 0,
         NEW m \in Models, UploadSource(m) \/ UploadStep(m)
  PROVE  TidyInvariant'
<1> USE DEF StoreInvariant, TypeOK, TidyInvariant, BeforeCommit, BeforeDispatch,
            Unconverted, ModelOf, uploadVars, slotVars
<1>0. /\ \A s \in Slots : pc[s] # "idle" => task[s].model \in Models
      /\ \A t \in queue : t.model \in Models
  BY DEF Messages
<1>1. /\ \A s \in Slots : Busy(s) => pc[s] # "idle"
      /\ UNCHANGED <<made, slotVars, request>>
  BY DEF UploadSource, UploadStep, UploadCommit, UploadDispatch, UploadUnsent,
         UploadLoadFailed, UploadMarkFailed, UploadFails, Busy
<1>2. CASE UploadSource(m)
  <2>1. /\ upload[m] = "new" /\ upload'[m] = "stored" /\ UNCHANGED <<row, queue>>
        /\ \A n \in Models \ {m} : upload'[n] = upload[n]
        /\ objects' = objects \cup {Object(m, 0)}
    BY <1>2 DEF UploadSource
  <2>2. OneTask'
    BY <1>1, <2>1 DEF OneTask
  <2>3. TaskFindsNoKey'
    BY <1>1, <2>1 DEF TaskFindsNoKey, Busy
  <2>4. SourceGoesFirst'
    BY <1>1, <2>1, ObjectsDiffer DEF SourceGoesFirst, DeletionsAreFinal
  <2>5. NothingLeaks'
    <3>1. \A n \in Models, i \in Nat :
            Object(n, i) \in objects' => Object(n, i) \in objects \/ (n = m /\ i = 0)
      BY <2>1, ObjectsDiffer
    <3> QED BY <1>1, <2>1, <3>1 DEF NothingLeaks
  <2> QED BY <2>2, <2>3, <2>4, <2>5
<1>3. CASE UploadCommit(m)
  <2>1. /\ upload[m] = "stored" /\ upload'[m] = "committed" /\ UNCHANGED <<objects, queue>>
        /\ \A n \in Models \ {m} : upload'[n] = upload[n] /\ row'[n] = row[n]
        /\ row'[m] \in Rows /\ row'[m].glb = 0
    BY <1>3 DEF UploadCommit, Rows
  <2>2. OneTask'
    BY <1>1, <2>1 DEF OneTask
  <2>3. TaskFindsNoKey'
    BY <1>0, <1>1, <2>1 DEF TaskFindsNoKey, Busy
  <2>4. SourceGoesFirst'
    BY <1>1, <2>1 DEF SourceGoesFirst
  <2>5. NothingLeaks'
    <3>1. made[m] = 0 /\ row'[m] # NoRow
      BY <2>1, NoRowAssumption DEF TaskFindsNoKey
    <3> QED BY <1>1, <2>1, <3>1 DEF NothingLeaks
  <2> QED BY <2>2, <2>3, <2>4, <2>5
<1>4. CASE UploadDispatch(m)
  <2> DEFINE first == [model |-> m, copy |-> 0]
  <2>1. /\ upload[m] = "committed" /\ upload'[m] = "done" /\ UNCHANGED <<row, objects>>
        /\ \A n \in Models \ {m} : upload'[n] = upload[n]
        /\ queue' = queue \cup {first} /\ first.model = m
    BY <1>4 DEF UploadDispatch
  <2> HIDE DEF first
  <2>2. OneTask'
    BY <1>0, <1>1, <2>1 DEF OneTask
  <2>3. TaskFindsNoKey'
    BY <1>1, <2>1 DEF TaskFindsNoKey, Busy
  <2>4. SourceGoesFirst' /\ NothingLeaks'
    BY <1>1, <2>1 DEF SourceGoesFirst, NothingLeaks
  <2> QED BY <2>2, <2>3, <2>4
<1>5. CASE UploadLoadFailed(m) \/ UploadFails(m)
  <2>1. /\ \A n \in Models : upload'[n] # upload[n] =>
             upload[n] # "stored" /\ upload'[n] \in {"broken", "failing", "refused"}
        /\ UNCHANGED <<row, objects, queue>>
    BY <1>5, FaultIsCounted DEF UploadLoadFailed, UploadFails, Faults
  <2>2. OneTask'
    BY <1>1, <2>1 DEF OneTask
  <2>3. TaskFindsNoKey'
    BY <1>1, <2>1 DEF TaskFindsNoKey, Busy
  <2>4. SourceGoesFirst'
    BY <1>1, <2>1 DEF SourceGoesFirst
  <2>5. NothingLeaks'
    <3>1. \A n \in Models : upload[n] = "stored" => upload'[n] = "stored"
      BY <2>1
    <3> QED BY <1>1, <2>1, <3>1 DEF NothingLeaks
  <2> QED BY <2>2, <2>3, <2>4, <2>5
<1>6. CASE UploadMarkFailed(m)
  <2>1. /\ row[m] # NoRow /\ row'[m] # NoRow /\ row'[m].glb = row[m].glb
        /\ \A n \in Models \ {m} : row'[n] = row[n]
        /\ upload[m] = "failing" /\ upload'[m] = "done"
        /\ \A n \in Models \ {m} : upload'[n] = upload[n]
        /\ UNCHANGED <<objects, queue>>
    BY <1>6, NoRowAssumption, MarksKeepKey DEF UploadMarkFailed
  <2>2. OneTask'
    BY <1>1, <2>1 DEF OneTask
  <2>3. \A n \in Models : Unconverted(n) => Unconverted(n)'
    BY <2>1
  <2>4. TaskFindsNoKey'
    BY <1>0, <1>1, <2>1, <2>3 DEF TaskFindsNoKey, Busy
  <2>5. SourceGoesFirst'
    BY <1>1, <2>1 DEF SourceGoesFirst
  <2>6. NothingLeaks'
    BY <1>1, <2>1 DEF NothingLeaks
  <2> QED BY <2>2, <2>4, <2>5, <2>6
<1>7. CASE UploadUnsent(m)
  BY <1>7, FaultIsCounted DEF UploadUnsent, Faults
<1> QED BY <1>2, <1>3, <1>4, <1>5, <1>6, <1>7 DEF UploadStep

\* A task names the GLB it stored in a row that named none.
LEMMA SlotIsTidy ==
  ASSUME StoreInvariant, TidyInvariant, spent["any"] = 0, spent'["any"] = 0,
         NEW s \in Slots, SlotStep(s)
  PROVE  TidyInvariant'
<1> USE DEF StoreInvariant, TypeOK, TidyInvariant, BeforeCommit, BeforeDispatch,
            Unconverted, ModelOf, uploadVars, slotVars, Move
<1>0. /\ \A z \in Slots : pc[z] # "idle" => task[z].model \in Models
      /\ \A t \in queue : t.model \in Models
  BY DEF Messages
<1>1. CASE Take(s)
  <2>1. PICK t \in queue : queue' = queue \ {t} /\ task' = [task EXCEPT ![s] = t]
    BY <1>1 DEF Take
  <2>2. /\ pc[s] = "idle" /\ pc' = [pc EXCEPT ![s] = "accepted"]
        /\ UNCHANGED <<row, objects, made, upload, key, seen, request>>
    BY <1>1 DEF Take
  <2>3. /\ \A z \in Slots \ {s} : pc'[z] = pc[z] /\ task'[z] = task[z]
        /\ pc'[s] = "accepted" /\ task'[s] = t
    BY <2>1, <2>2
  <2>4. OneTask'
    BY <2>1, <2>2, <2>3 DEF OneTask
  <2>5. TaskFindsNoKey'
    BY <2>1, <2>2, <2>3 DEF TaskFindsNoKey, Busy
  <2>6. SourceGoesFirst'
    BY <2>2 DEF SourceGoesFirst
  <2>7. NothingLeaks'
    BY <2>2, <2>3 DEF NothingLeaks
  <2> QED BY <2>4, <2>5, <2>6, <2>7
<1>2. ASSUME UNCHANGED <<row, objects, made, upload, queue, task, key, request>>,
             NEW to \in Stage \ {"idle"}, pc[s] # "idle", pc' = [pc EXCEPT ![s] = to],
             to # "ended" => Busy(s),
             to = "succeeding" => seen'[s].glb = 0,
             \A z \in Slots \ {s} : seen'[z] = seen[z],
             pc[s] \in {"uploaded", "succeeding"} =>
               to \in {"uploaded", "succeeding"} \/ row[ModelOf(s)] = NoRow
      PROVE  TidyInvariant'
  <2>1. pc'[s] = to /\ \A z \in Slots \ {s} : pc'[z] = pc[z]
    BY <1>2
  <2>2. OneTask'
    BY <1>2, <2>1 DEF OneTask
  <2>3. TaskFindsNoKey'
    BY <1>2, <2>1 DEF TaskFindsNoKey, Busy
  <2>4. SourceGoesFirst'
    BY <1>2 DEF SourceGoesFirst
  <2>5. NothingLeaks'
    BY <1>2, <2>1 DEF NothingLeaks
  <2> QED BY <2>2, <2>3, <2>4, <2>5
<1>3. CASE LoadForRunning(s) \/ LoadForRejection(s) \/ LoadForFailure(s)
  BY <1>2, <1>3 DEF LoadForRunning, LoadForRejection, LoadForFailure, Load, Stage, Busy
<1>4. CASE LoadForSuccess(s)
  <2>1. row[ModelOf(s)].glb = 0
    BY <1>4 DEF LoadForSuccess, Load, TaskFindsNoKey, Busy
  <2> QED BY <1>2, <1>4, <2>1 DEF LoadForSuccess, Load, Stage, Busy
<1>5. CASE MarkRunning(s) \/ MarkRejected(s) \/ MarkFailed(s)
  <2> DEFINE m == task[s].model
  <2>1. /\ pc[s] \in Updating \ {"succeeding"} /\ m \in Models /\ seen[s] \in Rows
        /\ pc' \in {[pc EXCEPT ![s] = "processing"], [pc EXCEPT ![s] = "ended"]}
        /\ \A n \in Models : n # m => row'[n] = row[n]
        /\ UNCHANGED <<objects, made, uploadVars, queue, task, key, seen, request>>
    BY <1>0, <1>5 DEF MarkRunning, MarkRejected, MarkFailed, Update, Updating
  <2>2. \/ row[m] = NoRow /\ row'[m] = NoRow
        \/ row[m] # NoRow /\ row'[m] # NoRow /\ row'[m].glb = row[m].glb
    <3>1. CASE row[m] = NoRow
      BY <1>5, <2>1, <3>1 DEF MarkRunning, MarkRejected, MarkFailed, Update
    <3>2. CASE row[m] # NoRow
      <4>1. row'[m] \in {Updated(row[m], seen[s], Processing(seen[s])),
                         Updated(row[m], seen[s], Failed(seen[s]))}
        BY <1>5, <2>1, <3>2 DEF MarkRunning, MarkRejected, MarkFailed, Update
      <4> QED BY <2>1, <3>2, <4>1, MarksKeepKey, NoRowAssumption
    <3> QED BY <3>1, <3>2
  <2>3. /\ \A z \in Slots : (pc'[z] # "idle") = (pc[z] # "idle")
        /\ \A z \in Slots : Busy(z)' => Busy(z)
        /\ \A z \in Slots : pc[z] \in {"uploaded", "succeeding"} => pc'[z] = pc[z]
        /\ \A z \in Slots : pc'[z] = "succeeding" => pc[z] = "succeeding"
    BY <2>1 DEF Busy, Updating
  <2>4. \A n \in Models : Unconverted(n) => Unconverted(n)'
    BY <2>1, <2>2
  <2>5. OneTask'
    BY <2>1, <2>3 DEF OneTask
  <2>6. TaskFindsNoKey'
    BY <1>0, <2>1, <2>3, <2>4 DEF TaskFindsNoKey, Busy
  <2>7. SourceGoesFirst'
    BY <2>1 DEF SourceGoesFirst
  <2>8. \A n \in Models : (row'[n] = NoRow) = (row[n] = NoRow)
                          /\ (row[n] # NoRow => row'[n].glb = row[n].glb)
    BY <2>1, <2>2
  <2>9. NothingLeaks'
    BY <2>1, <2>3, <2>8 DEF NothingLeaks
  <2> QED BY <2>5, <2>6, <2>7, <2>9
<1>6. CASE MarkSuccess(s)
  <2> DEFINE m == task[s].model
  <2>1. /\ pc[s] = "succeeding" /\ m \in Models /\ seen[s] \in Rows /\ row[m] # NoRow
        /\ pc' = [pc EXCEPT ![s] = "ended"]
        /\ row' = [row EXCEPT ![m] = Updated(row[m], seen[s], Succeeded(seen[s], key[s]))]
        /\ UNCHANGED <<objects, made, uploadVars, queue, task, key, seen, request>>
    BY <1>0, <1>6 DEF MarkSuccess, Update, Updating, Impossible
  <2>2. row[m] \in Rows /\ row[m].glb = 0 /\ seen[s].glb = 0 /\ key[s] \in Nat /\ key[s] > 0
    <3>1. Unconverted(m) /\ seen[s].glb = 0
      BY <2>1 DEF TaskFindsNoKey, Busy
    <3>2. key[s] > 0
      BY <2>1 DEF KeysAreStored
    <3> QED BY <2>1, <3>1, <3>2
  <2>3. row'[m] \in Rows /\ row'[m].glb = key[s] /\ row'[m] # NoRow
    BY <2>1, <2>2, NoRowAssumption, FirstKeyIsSet
  <2>4. /\ \A n \in Models : n # m => row'[n] = row[n]
        /\ pc'[s] = "ended" /\ \A z \in Slots \ {s} : pc'[z] = pc[z]
    BY <2>1
  <2>5. OneTask'
    BY <2>1, <2>4 DEF OneTask
  <2>6. /\ \A t \in queue : t.model # m
        /\ \A z \in Slots \ {s} : pc[z] # "idle" => task[z].model # m
        /\ ~BeforeDispatch(m)
    BY <2>1 DEF OneTask
  <2>7. TaskFindsNoKey'
    BY <1>0, <2>1, <2>4, <2>6 DEF TaskFindsNoKey, Busy
  <2>8. SourceGoesFirst'
    BY <2>1 DEF SourceGoesFirst
  <2>9. NothingLeaks'
    <3> DEFINE Named(n, i) ==
          \/ row[n] = NoRow \/ row[n].glb = i
          \/ \E z \in Slots : /\ pc[z] \in {"uploaded", "succeeding"}
                              /\ task[z].model = n /\ key[z] = i
    <3>1. ASSUME NEW n \in Models, NEW i \in 1..made[n], Object(n, i) \in objects
          PROVE  Named(n, i)'
      <4>1. Named(n, i) /\ i # 0
        BY <3>1 DEF NothingLeaks
      <4>2. CASE n = m
        <5>1. row[n] # NoRow /\ row[n].glb # i
          BY <2>1, <2>2, <4>1, <4>2
        <5>2. key[s] = i
          BY <2>6, <4>1, <4>2, <5>1
        <5> QED BY <2>3, <4>2, <5>2
      <4>3. CASE n # m
        <5>1. row'[n] = row[n] /\ \A z \in Slots : task[z].model = n => pc'[z] = pc[z]
          BY <2>4, <4>3
        <5>2. UNCHANGED <<task, key>>
          BY <2>1
        <5> QED BY <4>1, <5>1, <5>2
      <4> HIDE DEF Named, m
      <4> QED BY <4>2, <4>3
    <3>2. \A n \in Models : row'[n] = NoRow <=> row[n] = NoRow
      BY <2>1, <2>3, <2>4
    <3>3. ASSUME NEW n \in Models, Object(n, 0) \in objects
          PROVE  \/ row'[n] # NoRow \/ upload[n] = "stored"
                 \/ \E d \in Deleters : request[d] # NoRequest /\ request[d].model = n
      BY <3>2, <3>3 DEF NothingLeaks
    <3>4. /\ objects' = objects /\ made' = made /\ upload' = upload /\ request' = request
      BY <2>1
    <3>5. \A n \in Models : \A i \in 1..made'[n] : Object(n, i) \in objects' => Named(n, i)'
      BY <3>1, <3>4
    <3>6. \A n \in Models : Object(n, 0) \in objects' =>
            \/ row'[n] # NoRow \/ upload'[n] = "stored"
            \/ \E d \in Deleters : request'[d] # NoRequest /\ request'[d].model = n
      BY <3>3, <3>4
    <3> QED BY <3>5, <3>6 DEF NothingLeaks
  <2> QED BY <2>5, <2>7, <2>8, <2>9
<1>7. CASE Convert(s)
  BY <1>2, <1>7 DEF Convert, Stage, Busy
<1>8. CASE StoreGlb(s)
  <2> DEFINE m == task[s].model
             n == made[m] + 1
  <2>1. /\ pc[s] = "converted" /\ m \in Models /\ made[m] \in Nat /\ n \in Nat /\ n > 0
        /\ made' = [made EXCEPT ![m] = n]
        /\ key' = [key EXCEPT ![s] = n]
        /\ objects' = objects \cup {Object(m, n)}
        /\ pc' = [pc EXCEPT ![s] = "uploaded"]
        /\ UNCHANGED <<row, uploadVars, queue, task, seen, request>>
    BY <1>0, <1>8 DEF StoreGlb
  <2> HIDE DEF n
  <2>2. /\ pc'[s] = "uploaded" /\ \A z \in Slots \ {s} : pc'[z] = pc[z] /\ key'[z] = key[z]
        /\ key'[s] = n
        /\ \A l \in Models : l # m => made'[l] = made[l]
        /\ made'[m] = n
    BY <2>1
  <2>3. OneTask'
    BY <2>1, <2>2 DEF OneTask
  <2>4. ~BeforeCommit(m)
    BY <2>1 DEF OneTask
  <2>5. TaskFindsNoKey'
    BY <2>1, <2>2, <2>4 DEF TaskFindsNoKey, Busy
  <2>6. SourceGoesFirst'
    <3>1. \A l \in Models : Object(l, 0) # Object(m, n)
      BY <2>1, ObjectsDiffer
    <3> QED BY <2>1, <3>1 DEF SourceGoesFirst, Deletions
  <2>7. NothingLeaks'
    <3>1. \A l \in Models, i \in Nat :
            Object(l, i) \in objects' => Object(l, i) \in objects \/ (l = m /\ i = n)
      BY <2>1, ObjectsDiffer
    <3>2. ASSUME NEW l \in Models, Object(l, 0) \in objects'
          PROVE  \/ row[l] # NoRow \/ upload[l] = "stored"
                 \/ \E d \in Deleters : request[d] # NoRequest /\ request[d].model = l
      BY <2>1, <3>1, <3>2 DEF NothingLeaks
    <3>3. ASSUME NEW l \in Models, NEW i \in 1..made'[l], Object(l, i) \in objects'
          PROVE  \/ row[l] = NoRow \/ row[l].glb = i
                 \/ \E z \in Slots : /\ pc'[z] \in {"uploaded", "succeeding"}
                                     /\ task[z].model = l /\ key'[z] = i
      <4>1. CASE l = m /\ i = n
        BY <2>2, <4>1
      <4>2. CASE ~(l = m /\ i = n)
        <5>1. Object(l, i) \in objects /\ i \in 1..made[l]
          BY <2>1, <2>2, <3>1, <3>3, <4>2 DEF n
        <5>2. \/ row[l] = NoRow \/ row[l].glb = i
              \/ \E z \in Slots : /\ pc[z] \in {"uploaded", "succeeding"}
                                  /\ task[z].model = l /\ key[z] = i
          BY <5>1 DEF NothingLeaks
        <5> QED BY <2>1, <2>2, <5>2
      <4> QED BY <4>1, <4>2
    <3> QED BY <2>1, <3>2, <3>3 DEF NothingLeaks
  <2> QED BY <2>3, <2>5, <2>6, <2>7
<1>9. CASE Raises(s)
  <2>1. Impossible(s)
    BY <1>9, FaultIsCounted DEF Raises, Faults
  <2>2. pc[s] \in {"uploaded", "succeeding"} => row[ModelOf(s)] = NoRow
    BY <2>1 DEF Impossible
  <2> QED BY <1>2, <1>9, <2>2 DEF Raises, Caught, Stage, Busy
<1>10. CASE Acknowledge(s)
  <2>1. /\ pc[s] = "ended" /\ pc' = [pc EXCEPT ![s] = "idle"]
        /\ \A z \in Slots \ {s} : UNCHANGED <<pc[z], task[z], key[z], seen[z]>>
        /\ UNCHANGED <<row, objects, made, upload, queue, request>>
        /\ pc'[s] = "idle"
    BY <1>10 DEF Acknowledge, Release
  <2>2. OneTask'
    BY <2>1 DEF OneTask
  <2>3. TaskFindsNoKey'
    BY <2>1 DEF TaskFindsNoKey, Busy
  <2>4. SourceGoesFirst'
    BY <2>1 DEF SourceGoesFirst
  <2>5. NothingLeaks'
    <3>1. \A z \in Slots : pc[z] \in {"uploaded", "succeeding"} =>
            UNCHANGED <<pc[z], task[z], key[z]>>
      BY <2>1
    <3> QED BY <2>1, <3>1 DEF NothingLeaks
  <2> QED BY <2>2, <2>3, <2>4, <2>5
<1> QED BY <1>1, <1>3, <1>4, <1>5, <1>6, <1>7, <1>8, <1>9, <1>10 DEF SlotStep

\* A deletion takes the row first, then the source, then the GLB the row named.
LEMMA DeletionIsTidy ==
  ASSUME StoreInvariant, TidyInvariant, spent["any"] = 0, spent'["any"] = 0,
         NEW d \in Deleters, DeleteStep(d) \/ \E m \in Models : DeleteLoad(d, m)
  PROVE  TidyInvariant'
<1> USE DEF StoreInvariant, TypeOK, TidyInvariant, BeforeCommit, BeforeDispatch,
            Unconverted, ModelOf, uploadVars, slotVars
<1>0. /\ \A z \in Slots : pc[z] # "idle" => task[z].model \in Models
      /\ \A t \in queue : t.model \in Models
      /\ UNCHANGED <<made, uploadVars, queue, slotVars>>
  BY DEF Messages, DeleteStep, DeleteLoad, DeleteCommit, DeleteFails, DeleteOriginal, DeleteGlb
<1>1. ASSUME \A n \in Models : row'[n] = NoRow \/ row'[n] = row[n]
      PROVE  OneTask' /\ TaskFindsNoKey'
  BY <1>0, <1>1 DEF OneTask, TaskFindsNoKey, Busy
<1>2. ASSUME NEW m \in Models, DeleteLoad(d, m)
      PROVE  TidyInvariant'
  <2>1. /\ request[d] = NoRequest /\ UNCHANGED <<row, objects>>
        /\ request'[d].stage = "loaded"
        /\ \A e \in Deleters \ {d} : request'[e] = request[e]
    BY <1>2 DEF DeleteLoad
  <2>2. SourceGoesFirst'
    BY <2>1 DEF SourceGoesFirst
  <2>3. NothingLeaks'
    BY <1>0, <2>1 DEF NothingLeaks
  <2> QED BY <1>1, <2>1, <2>2, <2>3
<1>3. CASE DeleteCommit(d)
  <2> DEFINE m == request[d].model
  <2>1. /\ m \in Models /\ request[d] \in Deletions
        /\ row' = [row EXCEPT ![m] = NoRow] /\ objects' = objects
        /\ request'[d] \in Deletions /\ request'[d].model = m /\ request'[d].stage = "original"
        /\ \A e \in Deleters \ {d} : request'[e] = request[e]
    BY <1>3 DEF DeleteCommit, Deletions
  <2>2. SourceGoesFirst'
    BY <2>1 DEF SourceGoesFirst
  <2>3. NothingLeaks'
    BY <1>0, <2>1, NoRequestAssumption DEF NothingLeaks, Deletions
  <2> QED BY <1>1, <2>1, <2>2, <2>3
<1>4. CASE DeleteFails(d)
  BY <1>4, FaultIsCounted DEF DeleteFails, Faults
<1>5. CASE DeleteOriginal(d)
  <2> DEFINE m == request[d].model
  <2>1. /\ m \in Models /\ request[d] \in Deletions
        /\ UNCHANGED row /\ objects' = objects \ {Object(m, 0)}
        /\ request'[d] # NoRequest => request'[d].model = m
        /\ \A e \in Deleters \ {d} : request'[e] = request[e]
    BY <1>5, FaultIsCounted DEF DeleteOriginal, Deletions, Faults
  <2>2. Object(m, 0) \notin objects' /\ objects' \subseteq objects
    BY <2>1
  <2> HIDE DEF m
  <2>3. SourceGoesFirst'
    BY <2>1, <2>2 DEF SourceGoesFirst
  <2>4. NothingLeaks'
    <3>1. ASSUME NEW n \in Models, Object(n, 0) \in objects'
          PROVE  \/ row[n] # NoRow \/ upload[n] = "stored"
                 \/ \E e \in Deleters : request'[e] # NoRequest /\ request'[e].model = n
      <4>1. n # m /\ Object(n, 0) \in objects
        BY <2>2, <3>1
      <4>2. \/ row[n] # NoRow \/ upload[n] = "stored"
            \/ \E e \in Deleters : request[e] # NoRequest /\ request[e].model = n
        BY <4>1 DEF NothingLeaks
      <4> QED BY <4>1, <4>2, <2>1 DEF m
    <3>2. ASSUME NEW n \in Models, NEW i \in 1..made[n], Object(n, i) \in objects'
          PROVE  \/ row[n] = NoRow \/ row[n].glb = i
                 \/ \E z \in Slots : /\ pc[z] \in {"uploaded", "succeeding"}
                                     /\ ModelOf(z) = n /\ key[z] = i
      BY <2>2, <3>2 DEF NothingLeaks
    <3> QED BY <1>0, <2>1, <3>1, <3>2 DEF NothingLeaks
  <2> QED BY <1>1, <2>1, <2>3, <2>4
<1>6. CASE DeleteGlb(d)
  <2> DEFINE m == request[d].model
  <2>1. /\ m \in Models /\ request[d] \in Deletions /\ request[d] # NoRequest
        /\ request[d].stage = "glb"
        /\ UNCHANGED row /\ objects' \subseteq objects
        /\ request'[d] = NoRequest
        /\ \A e \in Deleters \ {d} : request'[e] = request[e]
    BY <1>6 DEF DeleteGlb, Deletions
  <2>2. Object(m, 0) \notin objects
    BY <2>1 DEF SourceGoesFirst
  <2> HIDE DEF m
  <2>3. SourceGoesFirst'
    BY <2>1 DEF SourceGoesFirst
  <2>4. NothingLeaks'
    <3>1. ASSUME NEW n \in Models, Object(n, 0) \in objects'
          PROVE  \/ row[n] # NoRow \/ upload[n] = "stored"
                 \/ \E e \in Deleters : request'[e] # NoRequest /\ request'[e].model = n
      <4>1. n # m /\ Object(n, 0) \in objects
        BY <2>1, <2>2, <3>1
      <4>2. \/ row[n] # NoRow \/ upload[n] = "stored"
            \/ \E e \in Deleters : request[e] # NoRequest /\ request[e].model = n
        BY <4>1 DEF NothingLeaks
      <4> QED BY <4>1, <4>2, <2>1 DEF m
    <3>2. ASSUME NEW n \in Models, NEW i \in 1..made[n], Object(n, i) \in objects'
          PROVE  \/ row[n] = NoRow \/ row[n].glb = i
                 \/ \E z \in Slots : /\ pc[z] \in {"uploaded", "succeeding"}
                                     /\ ModelOf(z) = n /\ key[z] = i
      BY <2>1, <3>2 DEF NothingLeaks
    <3> QED BY <1>0, <2>1, <3>1, <3>2 DEF NothingLeaks
  <2> QED BY <1>1, <2>1, <2>3, <2>4
<1> QED BY <1>2, <1>3, <1>4, <1>5, <1>6 DEF DeleteStep

\* As long as nothing fails, the object store keeps no file that no row names and no
\* handler or task is about to name or delete, however uploads, conversions and
\* deletions interleave; only the GLB of a model deleted meanwhile stays.
THEOREM StoreIsTidy == Spec => []NothingLeaks
<1>1. Init => TidyInvariant
  BY DEF Init, TidyInvariant, OneTask, TaskFindsNoKey, SourceGoesFirst, NothingLeaks,
         BeforeCommit, BeforeDispatch, Unconverted, Busy
<1>2. StoreInvariant /\ TidyInvariant /\ [Next]_vars => TidyInvariant'
  <2> SUFFICES ASSUME StoreInvariant, TidyInvariant, [Next]_vars, spent'["any"] = 0
               PROVE  TidyInvariant'
    BY DEF TidyInvariant
  <2>0. TypeOK
    BY DEF StoreInvariant
  <2>1. \A k \in Faults : ~Fault(k)
    BY <2>0, FaultIsCounted
  <2>2. CASE spent' = spent
    <3>1. spent["any"] = 0
      BY <2>2
    <3>2. ASSUME NEW s \in Slots, KillSlot(s) \/ Redeliver(s)
          PROVE  FALSE
      BY <2>1, <3>2 DEF KillSlot, Redeliver, Faults
    <3>3. ~Crash
      BY <2>1 DEF Crash, Faults
    <3>4. ASSUME UNCHANGED vars
          PROVE  TidyInvariant'
      BY <3>4 DEF vars, uploadVars, slotVars, TidyInvariant, OneTask, TaskFindsNoKey,
                  SourceGoesFirst, NothingLeaks, BeforeCommit, BeforeDispatch,
                  Unconverted, Busy, ModelOf
    <3> QED BY <3>1, <3>2, <3>3, <3>4, UploadIsTidy, SlotIsTidy, DeletionIsTidy DEF Next
  <2>3. CASE spent' # spent
    <3>1. \E k \in Faults : Fault(k)
      BY <2>3 DEF Next, vars, UploadSource, UploadStep, UploadCommit, UploadDispatch,
         UploadUnsent, UploadLoadFailed, UploadMarkFailed, UploadFails, SlotStep, Take,
         LoadForRunning, LoadForSuccess, LoadForRejection, LoadForFailure, Load,
         MarkRunning, MarkSuccess, MarkRejected, MarkFailed, Update, Convert, StoreGlb,
         Raises, Acknowledge, KillSlot, Redeliver, DeleteStep, DeleteLoad, DeleteCommit,
         DeleteFails, DeleteOriginal, DeleteGlb, Crash, Faults
    <3> QED BY <2>1, <3>1
  <2> QED BY <2>2, <2>3
<1>3. TidyInvariant => NothingLeaks
  BY DEF TidyInvariant, NothingLeaks
<1> QED BY StoreSafe, <1>1, <1>2, <1>3, PTL DEF Spec

-----------------------------------------------------------------------------
(* Somebody still holds the conversion of an unsettled model.               *)

\* An outcome that was not in the loaded row is written; one that was leaves the
\* status to whoever wrote it since.
LEMMA OutcomeIsWritten ==
  ASSUME NEW current \in Rows, NEW loaded \in Rows, NEW n \in Nat
  PROVE  /\ Updated(current, loaded, Succeeded(loaded, n)).status =
              IF loaded.status # "success" THEN "success" ELSE current.status
         /\ Updated(current, loaded, Failed(loaded)).status =
              IF loaded.status # "failed" THEN "failed" ELSE current.status
BY DEF Updated, Succeeded, Failed, Rows

\* Faults are never taken back, and each is counted.
LEMMA FaultsAddUp ==
  ASSUME TypeOK
  PROVE  /\ \A k \in Faults : Fault(k) =>
              /\ \A f \in Faults : spent'[f] >= spent[f]
              /\ spent'[k] > spent[k]
         /\ UNCHANGED spent => \A f \in Faults : spent'[f] >= spent[f]
BY DEF TypeOK, Fault, Faults

\* Who may hold an unsettled model.
Held(m) ==
  \/ upload[m] \in {"committed", "unsent"}
  \/ upload[m] = "failing" /\ noted[m].status # "failed"
  \/ \E t \in queue : t.model = m
  \/ \E s \in Slots : WillSettle(s) /\ ModelOf(s) = m

\* The upload handler passes its model on to a message, or marks it failed itself.
LEMMA UploadPassesOn ==
  ASSUME SettlingInvariant, TypeOK', NEW u \in Models, UploadSource(u) \/ UploadStep(u)
  PROVE  HandlerIsPaid' /\ UnsettledHasCarrier'
<1> USE DEF SettlingInvariant, StoreInvariant, TypeOK
<1>1. /\ UNCHANGED slotVars
      /\ \A s \in Slots : pc[s] # "idle" => ModelOf(s) \in Models /\ ~BeforeCommit(ModelOf(s))
      /\ \A f \in Faults : spent'[f] >= spent[f]
  <2>1. UNCHANGED slotVars /\ (UNCHANGED spent \/ \E k \in Faults : Fault(k))
    BY DEF UploadSource, UploadStep, UploadCommit, UploadDispatch, UploadUnsent,
           UploadLoadFailed, UploadMarkFailed, UploadFails, slotVars, Faults
  <2> QED BY <2>1, FaultsAddUp DEF TasksAreCommitted, ModelOf, Messages
<1>2. \A n \in Models \ {u} : /\ row'[n] = row[n] /\ upload'[n] = upload[n]
                              /\ noted'[n] = noted[n]
  BY DEF UploadSource, UploadStep, UploadCommit, UploadDispatch, UploadUnsent,
         UploadLoadFailed, UploadMarkFailed, UploadFails, uploadVars
<1>3. queue \subseteq queue'
  BY DEF UploadSource, UploadStep, UploadCommit, UploadDispatch, UploadUnsent,
         UploadLoadFailed, UploadMarkFailed, UploadFails
<1>4. ~BeforeCommit(u) /\ row[u] = NoRow => row'[u] = NoRow
  BY DEF UploadSource, UploadStep, UploadCommit, UploadDispatch, UploadUnsent,
         UploadLoadFailed, UploadMarkFailed, UploadFails, BeforeCommit
<1>5. HandlerIsPaid'
  BY <1>1, <1>2, <1>4 DEF HandlerIsPaid, ModelOf, slotVars, Faults, OuterHandler
<1>6. \A s \in Slots : WillSettle(s)' = WillSettle(s) /\ ModelOf(s)' = ModelOf(s)
  BY <1>1 DEF WillSettle, Busy, ModelOf, slotVars
<1>7. OneErrorNoKill' => OneErrorNoKill
  BY <1>1 DEF OneErrorNoKill, Faults
<1>8. ASSUME NEW m \in Models, Unsettled(m)', upload'[m] # "broken", OneErrorNoKill'
      PROVE  Held(m)'
  <2>1. CASE m # u
    BY <1>2, <1>3, <1>6, <1>7, <1>8, <2>1 DEF UnsettledHasCarrier, Unsettled, Held
  <2>2. CASE m = u /\ UNCHANGED row
    <3>1. Held(u) /\ row[u] # NoRow /\ row[u].status # "failed"
      BY <1>7, <1>8, <2>2 DEF UnsettledHasCarrier, Unsettled, Held, UploadSource, UploadStep,
         UploadCommit, UploadDispatch, UploadUnsent, UploadLoadFailed, UploadMarkFailed,
         UploadFails
    <3>2. CASE UploadSource(u) \/ UploadCommit(u) \/ UploadFails(u)
      <4>1. ~BeforeCommit(u)
        BY <3>1 DEF SourcesAreStored
      <4>2. UploadFails(u) => upload'[u] = "broken"
        BY <4>1 DEF UploadFails, BeforeCommit
      <4> QED BY <1>8, <2>2, <3>2, <4>1, <4>2 DEF UploadSource, UploadCommit, BeforeCommit
    <3>3. CASE UploadDispatch(u)
      <4>1. [model |-> u, copy |-> 0] \in queue'
        BY <3>3 DEF UploadDispatch
      <4> QED BY <2>2, <4>1 DEF Held
    <3>4. CASE UploadUnsent(u)
      BY <2>2, <3>4 DEF UploadUnsent, Held
    <3>5. CASE UploadLoadFailed(u)
      BY <2>2, <3>1, <3>5 DEF UploadLoadFailed, Held
    <3>6. CASE UploadMarkFailed(u)
      <4>1. /\ row[u] \in Rows /\ noted[u] \in Rows
            /\ row[u] = Updated(row[u], noted[u], Failed(noted[u]))
        BY <2>2, <3>6 DEF UploadMarkFailed
      <4>2. noted[u].status = "failed"
        BY <3>1, <4>1, OutcomeIsWritten
      <4>3. upload[u] = "failing"
        BY <3>6 DEF UploadMarkFailed
      <4> QED BY <1>3, <1>6, <2>2, <3>1, <4>2, <4>3 DEF Held
    <3> QED BY <3>2, <3>3, <3>4, <3>5, <3>6 DEF UploadStep
  <2>3. CASE m = u /\ UploadCommit(u)
    BY <2>3 DEF UploadCommit, Held
  <2>4. CASE m = u /\ UploadMarkFailed(u)
    <3>1. /\ row[u] \in Rows /\ noted[u] \in Rows /\ upload[u] = "failing"
          /\ row'[u] = Updated(row[u], noted[u], Failed(noted[u]))
      BY <2>4 DEF UploadMarkFailed
    <3>2. noted[u].status = "failed" /\ row'[u].status = row[u].status
      BY <1>8, <2>4, <3>1, OutcomeIsWritten DEF Unsettled
    <3>3. Held(u)
      BY <1>7, <1>8, <2>4, <3>1, <3>2, NoRowAssumption DEF Unsettled, UnsettledHasCarrier, Held
    <3> QED BY <1>3, <1>6, <2>4, <3>1, <3>2, <3>3 DEF Held
  <2>5. UNCHANGED row \/ UploadCommit(u) \/ UploadMarkFailed(u)
    BY DEF UploadSource, UploadStep, UploadCommit, UploadDispatch, UploadUnsent,
           UploadLoadFailed, UploadMarkFailed, UploadFails
  <2> QED BY <2>1, <2>2, <2>3, <2>4, <2>5
<1> QED BY <1>5, <1>8 DEF UnsettledHasCarrier, Held

\* A task that loads a row brings an outcome the row does not have yet; one that
\* writes nothing loaded the row after another task had settled it.
LEMMA SlotSettles ==
  ASSUME SettlingInvariant, TypeOK', NEW s \in Slots, SlotStep(s)
  PROVE  HandlerIsPaid' /\ UnsettledHasCarrier'
<1> USE DEF SettlingInvariant, StoreInvariant, TypeOK
<1>1. /\ UNCHANGED uploadVars
      /\ \A z \in Slots \ {s} : pc'[z] = pc[z] /\ task'[z] = task[z] /\ seen'[z] = seen[z]
      /\ \A f \in Faults : spent'[f] >= spent[f]
  <2>1. UNCHANGED uploadVars /\ (UNCHANGED spent \/ \E k \in Faults : Fault(k))
    BY DEF SlotStep, Take, LoadForRunning, LoadForSuccess, LoadForRejection,
           LoadForFailure, Load, MarkRunning, MarkSuccess, MarkRejected, MarkFailed,
           Update, Convert, StoreGlb, Raises, Acknowledge, Release, Faults
  <2>2. \A z \in Slots \ {s} : pc'[z] = pc[z] /\ task'[z] = task[z] /\ seen'[z] = seen[z]
    BY DEF SlotStep, Take, LoadForRunning, LoadForSuccess, LoadForRejection,
           LoadForFailure, Load, MarkRunning, MarkSuccess, MarkRejected, MarkFailed,
           Update, Convert, StoreGlb, Raises, Caught, Acknowledge, Release, Move
  <2> QED BY <2>1, <2>2, FaultsAddUp
<1>2. \A z \in Slots : pc[z] # "idle" => ModelOf(z) \in Models
  BY DEF ModelOf, Messages
<1>3. OneErrorNoKill' => OneErrorNoKill
  BY <1>1 DEF OneErrorNoKill, Faults
<1>4. \A z \in Slots \ {s} : WillSettle(z)' = WillSettle(z) /\ ModelOf(z)' = ModelOf(z)
  BY <1>1 DEF WillSettle, Busy, ModelOf
<1>5. ASSUME \A m \in Models : row[m] = NoRow => row'[m] = NoRow,
             pc'[s] \in OuterHandler =>
               row'[ModelOf(s)'] = NoRow \/ spent'["error"] > 0
      PROVE  HandlerIsPaid'
  BY <1>1, <1>2, <1>5 DEF HandlerIsPaid, ModelOf, Faults, OuterHandler
\* The step leaves a model with those who hold it, or the slot takes it over.
<1>6. ASSUME queue' = queue, task'[s] = task[s],
             \A m \in Models : Unsettled(m)' =>
               \/ Unsettled(m) /\ (ModelOf(s) = m => ~WillSettle(s))
               \/ pc[s] # "idle" /\ ModelOf(s) = m /\ (OneErrorNoKill' => WillSettle(s)')
               \/ Unsettled(m) /\ ModelOf(s) # m
      PROVE  UnsettledHasCarrier'
  <2> SUFFICES ASSUME NEW m \in Models, Unsettled(m)', upload'[m] # "broken",
                      OneErrorNoKill'
               PROVE  Held(m)'
    BY DEF UnsettledHasCarrier, Held
  <2>1. CASE Unsettled(m) /\ (ModelOf(s) = m => ~WillSettle(s))
    <3>1. Held(m)
      BY <1>1, <1>3, <2>1 DEF UnsettledHasCarrier, Held, uploadVars
    <3> QED BY <1>1, <1>4, <1>6, <2>1, <3>1 DEF Held, uploadVars
  <2>2. CASE ModelOf(s) = m /\ WillSettle(s)'
    BY <1>6, <2>2 DEF Held, ModelOf
  <2> QED BY <1>6, <2>1, <2>2
<1>7. CASE Take(s)
  <2>1. PICK t \in queue : queue' = queue \ {t} /\ task'[s] = t
    BY <1>7 DEF Take
  <2>2. UNCHANGED row /\ pc[s] = "idle" /\ pc'[s] = "accepted"
    BY <1>7 DEF Take, Move
  <2>3. WillSettle(s)' /\ ModelOf(s)' = t.model /\ ~WillSettle(s)
    BY <2>1, <2>2 DEF WillSettle, Busy, ModelOf
  <2>4. ASSUME NEW m \in Models, Unsettled(m)', upload'[m] # "broken", OneErrorNoKill'
        PROVE  Held(m)'
    <3>1. Held(m)
      BY <1>1, <1>3, <2>2, <2>4 DEF UnsettledHasCarrier, Unsettled, Held, uploadVars
    <3> QED BY <1>1, <1>4, <2>1, <2>3, <3>1 DEF Held, uploadVars
  <2> QED BY <1>5, <2>2, <2>4 DEF UnsettledHasCarrier, Held, OuterHandler
<1>8. CASE LoadForRunning(s) \/ LoadForSuccess(s) \/ LoadForRejection(s) \/ LoadForFailure(s)
  <2>1. /\ UNCHANGED <<row, queue, task, spent>>
        /\ pc[s] # "idle" /\ row[ModelOf(s)] # NoRow /\ seen'[s] = row[ModelOf(s)]
        /\ pc'[s] \in {"marking", "succeeding", "rejected", "failing"}
        /\ pc'[s] = "failing" => pc[s] = "raised"
    BY <1>8 DEF LoadForRunning, LoadForSuccess, LoadForRejection, LoadForFailure, Load, Move
  <2>2. HandlerIsPaid'
    BY <1>5, <2>1 DEF HandlerIsPaid, ModelOf, OuterHandler
  <2>3. Unsettled(ModelOf(s)) => WillSettle(s)'
    BY <2>1 DEF Unsettled, WillSettle, Busy
  <2> QED BY <1>6, <2>1, <2>2, <2>3 DEF Unsettled
<1>9. CASE MarkRunning(s)
  <2>1. /\ pc[s] = "marking" /\ pc'[s] = "processing" /\ UNCHANGED <<queue, task>>
        /\ \A m \in Models : m # ModelOf(s) => row'[m] = row[m]
        /\ \A m \in Models : row[m] = NoRow => row'[m] = NoRow
    BY <1>9 DEF MarkRunning, Update, Move
  <2>2. WillSettle(s)'
    BY <2>1 DEF WillSettle, Busy
  <2> QED BY <1>2, <1>5, <1>6, <2>1, <2>2 DEF Unsettled, OuterHandler
<1>10. CASE MarkSuccess(s) \/ MarkRejected(s) \/ MarkFailed(s)
  <2> DEFINE m == ModelOf(s)
  <2>1. /\ pc[s] \in {"succeeding", "rejected", "failing"} /\ pc'[s] = "ended"
        /\ UNCHANGED <<queue, task>>
        /\ \A n \in Models : n # m => row'[n] = row[n]
        /\ \A n \in Models : row[n] = NoRow => row'[n] = NoRow
        /\ m \in Models /\ seen[s] \in Rows /\ key[s] \in Nat
        /\ row[m] \in Rows \cup {NoRow}
    BY <1>2, <1>10 DEF MarkSuccess, MarkRejected, MarkFailed, Update, Move, Updating
  <2>2. Unsettled(m)' => Unsettled(m) /\ ~WillSettle(s)
    <3> SUFFICES ASSUME Unsettled(m)' PROVE Unsettled(m) /\ ~WillSettle(s)
      OBVIOUS
    <3>1. row'[m] # NoRow /\ row[m] # NoRow /\ row[m] \in Rows
      BY <2>1 DEF Unsettled, ModelOf
    <3>2. CASE MarkSuccess(s)
      <4>1. row'[m] = Updated(row[m], seen[s], Succeeded(seen[s], key[s]))
        BY <2>1, <3>1, <3>2 DEF MarkSuccess, Update
      <4>2. pc[s] = "succeeding" /\ row'[m].status \in {"pending", "processing"}
        BY <2>1, <3>2 DEF MarkSuccess, Update, Unsettled, ModelOf
      <4> QED BY <2>1, <3>1, <4>1, <4>2, OutcomeIsWritten DEF WillSettle, Unsettled, Busy
    <3>3. CASE MarkRejected(s) \/ MarkFailed(s)
      <4>1. row'[m] = Updated(row[m], seen[s], Failed(seen[s]))
        BY <2>1, <3>1, <3>3 DEF MarkRejected, MarkFailed, Update
      <4>2. pc[s] \in {"rejected", "failing"} /\ row'[m].status \in {"pending", "processing"}
        BY <2>1, <3>3 DEF MarkRejected, MarkFailed, Update, Unsettled, ModelOf
      <4> QED BY <2>1, <3>1, <4>1, <4>2, OutcomeIsWritten DEF WillSettle, Unsettled, Busy
    <3> QED BY <1>10, <3>2, <3>3
  <2>3. \A n \in Models \ {m} : Unsettled(n)' => Unsettled(n)
    BY <2>1 DEF Unsettled
  <2>4. \A n \in Models : Unsettled(n)' => Unsettled(n) /\ (m = n => ~WillSettle(s))
    BY <2>1, <2>2, <2>3 DEF Unsettled, ModelOf
  <2>5. HandlerIsPaid'
    BY <1>5, <2>1 DEF OuterHandler
  <2>6. queue' = queue /\ task'[s] = task[s]
    BY <2>1
  <2> HIDE DEF m
  <2> QED BY <1>6, <2>4, <2>5, <2>6 DEF m
<1>11. CASE Convert(s) \/ StoreGlb(s)
  <2>1. /\ UNCHANGED <<row, queue, task>> /\ pc[s] # "idle"
        /\ pc'[s] \in {"converted", "rejecting", "uploaded"}
    BY <1>11 DEF Convert, StoreGlb, Move
  <2>2. WillSettle(s)'
    BY <2>1 DEF WillSettle, Busy
  <2> QED BY <1>5, <1>6, <2>1, <2>2 DEF Unsettled, OuterHandler
<1>12. CASE Raises(s)
  <2> DEFINE m == ModelOf(s)
  <2>1. /\ UNCHANGED <<row, queue, task>> /\ pc[s] \notin {"idle", "ended"} /\ m \in Models
        /\ pc'[s] = IF pc[s] \in OuterHandler THEN "ended" ELSE "raised"
    BY <1>2, <1>12 DEF Raises, Caught, Busy, Move
  <2>2. row[m] = NoRow \/ spent'["error"] > spent["error"]
    BY <1>12, <2>1, FaultsAddUp DEF Raises, Impossible, RowsAreStored, Faults
  <2>3. HandlerIsPaid'
    BY <1>1, <1>5, <2>1, <2>2 DEF ModelOf, Faults
  <2>4. Unsettled(m) /\ OneErrorNoKill' => WillSettle(s)'
    <3>1. CASE pc[s] \in OuterHandler
      BY <1>1, <2>1, <2>2, <3>1 DEF HandlerIsPaid, Unsettled, OneErrorNoKill, Faults
    <3>2. CASE pc[s] \notin OuterHandler
      BY <2>1, <3>2 DEF WillSettle, Busy
    <3> QED BY <3>1, <3>2
  <2> QED BY <1>6, <2>1, <2>3, <2>4 DEF Unsettled
<1>13. CASE Acknowledge(s)
  <2>1. UNCHANGED <<row, queue>> /\ pc[s] = "ended" /\ pc'[s] = "idle"
    BY <1>13 DEF Acknowledge, Release, Move
  <2>2. ~WillSettle(s)
    BY <2>1 DEF WillSettle, Busy
  <2>3. ASSUME NEW m \in Models, Unsettled(m)', upload'[m] # "broken", OneErrorNoKill'
        PROVE  Held(m)'
    <3>1. Held(m)
      BY <1>1, <1>3, <2>1, <2>3 DEF UnsettledHasCarrier, Unsettled, Held, uploadVars
    <3> QED BY <1>1, <1>4, <2>1, <2>2, <3>1 DEF Held, uploadVars
  <2> QED BY <1>5, <2>1, <2>3 DEF UnsettledHasCarrier, Held, OuterHandler
<1> QED BY <1>7, <1>8, <1>9, <1>10, <1>11, <1>12, <1>13 DEF SlotStep

\* Neither one failing call, nor a crash, nor a repetition, nor a deletion leaves a
\* model pending or processing with nobody to settle it.
THEOREM UnsettledIsHeld == Spec => []UnsettledHasCarrier
<1>1. Init => HandlerIsPaid /\ UnsettledHasCarrier
  BY DEF Init, HandlerIsPaid, UnsettledHasCarrier, Unsettled, OuterHandler
<1>2. /\ StoreInvariant /\ StoreInvariant' /\ HandlerIsPaid /\ UnsettledHasCarrier
      /\ [Next]_vars
      => HandlerIsPaid' /\ UnsettledHasCarrier'
  <2> SUFFICES ASSUME StoreInvariant, StoreInvariant', HandlerIsPaid, UnsettledHasCarrier,
                      [Next]_vars
               PROVE  HandlerIsPaid' /\ UnsettledHasCarrier'
    OBVIOUS
  <2>1. SettlingInvariant /\ TypeOK /\ TypeOK'
    BY DEF SettlingInvariant, StoreInvariant
  <2>2. ASSUME UNCHANGED <<row, uploadVars, slotVars>>, queue \subseteq queue',
               UNCHANGED spent \/ \E k \in Faults : Fault(k)
        PROVE  HandlerIsPaid' /\ UnsettledHasCarrier'
    <3>1. \A f \in Faults : spent'[f] >= spent[f] /\ spent[f] \in Nat /\ spent'[f] \in Nat
      BY <2>1, <2>2, FaultsAddUp DEF TypeOK
    <3>2. OneErrorNoKill' => OneErrorNoKill
      BY <3>1 DEF OneErrorNoKill, Faults
    <3>3. HandlerIsPaid'
      BY <2>2, <3>1 DEF HandlerIsPaid, ModelOf, slotVars, Faults
    <3>4. UnsettledHasCarrier'
      BY <2>2, <3>2 DEF UnsettledHasCarrier, Unsettled, WillSettle, Busy, ModelOf,
                        slotVars, uploadVars
    <3> QED BY <3>3, <3>4
  <2>3. ASSUME NEW s \in Slots, KillSlot(s)
        PROVE  HandlerIsPaid' /\ UnsettledHasCarrier'
    <3>1. /\ spent'["kill"] > 0 /\ spent'["error"] >= spent["error"]
          /\ UNCHANGED row
          /\ \A z \in Slots : pc'[z] # "idle" => pc'[z] = pc[z] /\ task'[z] = task[z]
      BY <2>1, <2>3, FaultsAddUp DEF KillSlot, Release, Move, Faults, TypeOK
    <3>2. spent'["error"] \in Nat /\ spent["error"] \in Nat /\ spent'["kill"] \in Nat
      BY <2>1 DEF TypeOK, Faults
    <3> QED BY <3>1, <3>2 DEF HandlerIsPaid, UnsettledHasCarrier, OneErrorNoKill, ModelOf,
                              OuterHandler
  <2>4. ASSUME NEW s \in Slots, Redeliver(s)
        PROVE  HandlerIsPaid' /\ UnsettledHasCarrier'
    BY <2>2, <2>4 DEF Redeliver, Faults
  <2>5. ASSUME NEW d \in Deleters, DeleteStep(d) \/ \E m \in Models : DeleteLoad(d, m)
        PROVE  HandlerIsPaid' /\ UnsettledHasCarrier'
    <3>1. CASE DeleteCommit(d)
      <4>1. /\ \A m \in Models : row'[m] \in {row[m], NoRow}
            /\ UNCHANGED <<uploadVars, slotVars, queue, spent>>
        BY <2>1, <3>1 DEF DeleteCommit, TypeOK
      <4>2. \A s \in Slots : pc[s] # "idle" => ModelOf(s) \in Models
        BY <2>1 DEF TypeOK, ModelOf, Messages
      <4>3. HandlerIsPaid'
        BY <4>1, <4>2 DEF HandlerIsPaid, ModelOf, slotVars, OuterHandler
      <4>4. UnsettledHasCarrier'
        BY <4>1 DEF UnsettledHasCarrier, Unsettled, WillSettle, Busy, ModelOf, slotVars,
                    uploadVars, OneErrorNoKill
      <4> QED BY <4>3, <4>4
    <3>2. CASE ~DeleteCommit(d)
      BY <2>2, <2>5, <3>2 DEF DeleteStep, DeleteFails, DeleteOriginal, DeleteGlb,
                              DeleteLoad, Faults
    <3> QED BY <3>1, <3>2
  <2>6. CASE Crash
    <3>1. /\ UNCHANGED <<row, uploadVars>> /\ queue \subseteq queue'
          /\ \A s \in Slots : pc[s] # "idle" => task[s] \in queue'
          /\ \A s \in Slots : pc'[s] = "idle"
          /\ \A f \in Faults : spent'[f] >= spent[f] /\ spent[f] \in Nat /\ spent'[f] \in Nat
      BY <2>1, <2>6, FaultsAddUp DEF Crash, Faults, TypeOK
    <3>2. HandlerIsPaid'
      BY <3>1 DEF HandlerIsPaid, OuterHandler
    <3>3. OneErrorNoKill' => OneErrorNoKill
      BY <3>1 DEF OneErrorNoKill, Faults
    <3>4. UnsettledHasCarrier'
      BY <3>1, <3>3 DEF UnsettledHasCarrier, Unsettled, WillSettle, Busy, ModelOf, uploadVars
    <3> QED BY <3>2, <3>4
  <2>7. CASE UNCHANGED vars
    BY <2>2, <2>7 DEF vars
  <2> QED BY <2>1, <2>3, <2>4, <2>5, <2>6, <2>7, UploadPassesOn, SlotSettles DEF Next
<1> QED BY StoreSafe, <1>1, <1>2, PTL DEF Spec
=============================================================================
