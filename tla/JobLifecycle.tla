--------------------------- MODULE JobLifecycle ---------------------------
(***************************************************************************)
(* What app/services/analysis_service.py keeps of one job's status when    *)
(* each of its operations is atomic.  mark_running, mark_success and       *)
(* mark_failed find the row in the state their run left it in, unless a    *)
(* cancellation came between; cancel_job finds the row as it was loaded,   *)
(* unless the run ended since.  So a cancellation may overwrite an outcome *)
(* and a run that is under way may overwrite a cancellation, but success   *)
(* and failed never replace each other, a finished job never runs again,   *)
(* and no job becomes pending twice.                                       *)
(***************************************************************************)
CONSTANT Jobs
VARIABLE status

Init == status = [j \in Jobs |-> "none"]

Change(j, from, to) ==
  /\ status[j] \in from
  /\ status' = [status EXCEPT ![j] = to]

Submit(j) == Change(j, {"none"}, "pending")
Start(j) == Change(j, {"pending", "cancelled"}, "running")
Succeed(j) == Change(j, {"running", "cancelled"}, "success")
Fail(j) == Change(j, {"running", "cancelled"}, "failed")
Cancel(j) == Change(j, {"pending", "running", "success", "failed"}, "cancelled")

Next == \E j \in Jobs :
  Submit(j) \/ Start(j) \/ Succeed(j) \/ Fail(j) \/ Cancel(j)

Spec == Init /\ [][Next]_status
=============================================================================
