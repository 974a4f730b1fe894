---------------------- MODULE MissionManagerRefinement ----------------------
(***************************************************************************)
(* MissionManager keeps the promise WaypointMission states.  The code does *)
(* not wait for the leftovers of one mission before it starts the next     *)
(* (see NoGoalAfterAbort), so a mission started on top of some is one that *)
(* nothing is promised of.                                                 *)
(***************************************************************************)
EXTENDS MissionManager

MissionPhase ==
    IF tainted THEN "unpromised"
    ELSE IF active THEN "running"
    ELSE IF total = 0 THEN "idle"
    ELSE IF status = "SUCCEEDED" THEN "succeeded"
    ELSE "stopped"

Promised(n) == IF tainted THEN 0 ELSE n

Contract == INSTANCE WaypointMission
    WITH phase <- MissionPhase, total <- Promised(total),
         done <- Promised(Cardinality(reached))

\* Every step of the node is a step of the abstract mission or leaves it alone: no
\* waypoint is skipped, none is counted that the mission's own goals did not reach
\* while it was active, and it succeeds once, with its last one, unless it was started
\* on top of leftovers.  What is said is said of the mission as MissionPhase and
\* reached tell it: late callbacks still move _idx of an ended mission and may
\* publish RUNNING or FAILED after ABORTED, which no phase shows.
KeepsContract == Contract!Spec
=============================================================================
