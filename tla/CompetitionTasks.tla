-------------------------- MODULE CompetitionTasks --------------------------
(***************************************************************************)
(* What competition_manager may be asked for (task_loader.py).             *)
(***************************************************************************)
EXTENDS Naturals

CONSTANTS
    Tasks,          \* the selectable tasks, TASK_NONE not among them
    WaypointTasks,  \* waypoint_required_tasks: cannot run without waypoints
    NoTask,         \* TASK_NONE
    MaxRoute        \* the longest list of waypoints in a file (a bound)

ASSUME TasksAssumption == NoTask \notin Tasks /\ WaypointTasks \subseteq Tasks
ASSUME MaxRouteAssumption == MaxRoute \in Nat
=============================================================================
