---------------------------- MODULE TaskLifecycle ----------------------------
(***************************************************************************)
(* The life of a competition task as /competition/status is meant to tell  *)
(* it: a task is selected, runs, and ends once, in one of three ways; no   *)
(* answer that comes late moves a task that has ended, and the task is     *)
(* never exchanged while it runs.                                          *)
(***************************************************************************)
CONSTANTS Tasks, NoTask

VARIABLES task, state

vars == <<task, state>>

Terminal == {"SUCCEEDED", "FAILED", "ABORTED"}

Init == task = NoTask /\ state = "IDLE"

Clear == state # "RUNNING" /\ task' = NoTask /\ state' = "IDLE"

Select == state # "RUNNING" /\ task' \in Tasks /\ state' = "READY"

Run == state = "READY" /\ state' = "RUNNING" /\ UNCHANGED task

End == state = "RUNNING" /\ state' \in Terminal /\ UNCHANGED task

Next == Clear \/ Select \/ Run \/ End

Spec == Init /\ [][Next]_vars
=============================================================================
