------------------------- MODULE CompetitionManager -------------------------
(***************************************************************************)
(* Task selection and lifecycle (competition_manager.py, task_loader.py).  *)
(* One node on a single-threaded executor: each service handler, the       *)
(* answer to its /mission/start call and each /mission/status sample is    *)
(* one action.  The mission manager is left open here: it may answer and   *)
(* publish whatever it likes; CompetitionStack puts the real one in.       *)
(*                                                                         *)
(* A loaded task definition is its number of waypoints: the file is read   *)
(* and validated anew at each selection, so the number may differ from one *)
(* selection to the next and the selection may fail, which changes nothing.*)
(* _latest_mission_state is only logged and is left out.                   *)
(***************************************************************************)
EXTENDS CompetitionTasks

VARIABLES
    task,           \* _current_task
    route,          \* len(_current_task_definition.waypoints)
    state,          \* _current_state
    message,        \* _current_message, by its kind and the task it names
    pending,        \* _mission_start_pending
    published       \* the latched sample on /competition/status

vars == <<task, route, state, message, pending, published>>

States == {"IDLE", "READY", "RUNNING", "SUCCEEDED", "FAILED", "ABORTED"}
Terminal == {"SUCCEEDED", "FAILED", "ABORTED"}
MissionStates == {"IDLE", "RUNNING"} \cup Terminal
Kinds == {"initialized", "cleared", "selected", "started", "start failed",
          "start refused", "completed", "mission over"}

-----------------------------------------------------------------------------
\* set_competition_state: nothing is published when nothing would change,
\* unless the caller forces it.  The task has been set before the call.
SetState(new, text, force) ==
    /\ state' = new
    /\ message' = text
    /\ published' = IF new = state /\ text = message /\ ~force
                    THEN published
                    ELSE [task |-> task', state |-> new]

Say(kind) == <<kind, task>>

-----------------------------------------------------------------------------
\* set_task_callback
MaySelect == ~pending /\ state # "RUNNING"

ClearTask ==
    /\ MaySelect
    /\ task' = NoTask
    /\ route' = 0
    /\ SetState("IDLE", <<"cleared", NoTask>>, task # NoTask)
    /\ UNCHANGED pending

SelectTask(t, n) ==
    /\ MaySelect
    /\ task' = t
    /\ route' = n
    /\ SetState("READY", <<"selected", t>>, task # t)
    /\ UNCHANGED pending

\* Mutant: a second start is sent while the first is on its way.
MayStartTwice == task # NoTask /\ state = "READY"

\* start_callback.  Without waypoints the Behavior Tree runs the task itself;
\* with them /mission/start is called, and the answer comes later.
MayStart == task # NoTask /\ state = "READY" /\ ~pending

StartDirect ==
    /\ MayStart
    /\ route = 0
    /\ task \notin WaypointTasks
    /\ UNCHANGED <<task, route, pending>>
    /\ SetState("RUNNING", Say("started"), FALSE)

StartMission ==
    /\ MayStart
    /\ route > 0
    /\ pending' = TRUE
    /\ UNCHANGED <<task, route, state, message, published>>

\* complete_callback; when already SUCCEEDED it agrees and changes nothing.
Complete ==
    /\ task # NoTask
    /\ state = "RUNNING"
    /\ route = 0
    /\ UNCHANGED <<task, route, pending>>
    /\ SetState("SUCCEEDED", Say("completed"), FALSE)

\* mission_start_response_callback: the call raised or returned nothing, was
\* refused, or was accepted.  A task definition is always loaded by then.
OnStartResponse(answer) ==
    /\ pending
    /\ pending' = FALSE
    /\ UNCHANGED <<task, route>>
    /\ \/ /\ answer = "failed"
          /\ SetState("READY", Say("start failed"), FALSE)
       \/ /\ answer = "refused"
          /\ SetState("READY", Say("start refused"), FALSE)
       \/ /\ answer = "accepted"
          /\ SetState("RUNNING", Say("started"), FALSE)

\* Mutant: the lifecycle state is not looked at.
RelevantWithoutState == task # NoTask

Relevant == task # NoTask /\ state = "RUNNING"

\* mission_status_callback
OnMissionStatus(s) ==
    /\ UNCHANGED <<task, route, pending>>
    /\ IF Relevant /\ s \in Terminal
       THEN SetState(s, Say("mission over"), FALSE)
       ELSE UNCHANGED <<state, message, published>>

-----------------------------------------------------------------------------
Init ==
    /\ task = NoTask
    /\ route = 0
    /\ state = "IDLE"
    /\ message = <<"initialized", NoTask>>
    /\ pending = FALSE
    /\ published = [task |-> NoTask, state |-> "IDLE"]

Operator ==
    \/ ClearTask
    \/ \E t \in Tasks, n \in 0..MaxRoute : SelectTask(t, n)
    \/ StartDirect
    \/ StartMission

Next ==
    \/ Operator
    \/ Complete
    \/ \E answer \in {"failed", "refused", "accepted"} : OnStartResponse(answer)
    \/ \E s \in MissionStates : OnMissionStatus(s)

Spec == Init /\ [][Next]_vars

-----------------------------------------------------------------------------
TypeOK ==
    /\ task \in Tasks \cup {NoTask}
    /\ route \in 0..MaxRoute
    /\ task = NoTask => route = 0 /\ state = "IDLE"
    /\ state \in States
    /\ message \in Kinds \X (Tasks \cup {NoTask})
    /\ pending \in BOOLEAN
    /\ published \in [task: Tasks \cup {NoTask}, state: States]

\* What /competition/status shows is what the node holds, although samples are
\* withheld when state and message stay the same: boat_bt routes by the task
\* and resets its docking controller by the state it reads there.
StatusIsCurrent == published = [task |-> task, state |-> state]

\* A start request is out only for a READY task with waypoints, so that the
\* answer, whenever it comes, finds the task it was asked for and not one that
\* has ended, been cleared or been exchanged.
PendingMeansReady == pending => task # NoTask /\ state = "READY" /\ route > 0

\* The lifecycle seen from outside, whatever the mission manager answers and
\* publishes and in whatever order.
Lifecycle == INSTANCE TaskLifecycle
KeepsLifecycle == Lifecycle!Spec
=============================================================================
