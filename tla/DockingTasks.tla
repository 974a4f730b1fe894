---------------------------- MODULE DockingTasks ----------------------------
(***************************************************************************)
(* What boat_bt is told of the competition's tasks, and how often it calls *)
(* back.                                                                   *)
(***************************************************************************)
EXTENDS Naturals

CONSTANTS
    Docking,         \* TASK_DOCKING
    Tasks,           \* what /competition/status may name, Docking among them
    TaskStates,      \* ... and the states of a task
    MaxCalls         \* /competition/complete calls outstanding (a bound)

ASSUME DockingAssumption == Docking \in Tasks /\ MaxCalls \in Nat \ {0}
ASSUME TaskStatesAssumption == {"IDLE", "RUNNING"} \subseteq TaskStates
=============================================================================
