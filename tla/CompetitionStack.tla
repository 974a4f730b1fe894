-------------------------- MODULE CompetitionStack --------------------------
(***************************************************************************)
(* competition_manager and mission_manager together: the /mission/start    *)
(* request and its answer, and /mission/status, which both ends keep at    *)
(* depth 1, so that a sample not yet taken is replaced by the next.  The   *)
(* answer of the service and the status sample travel separately: ROS      *)
(* orders neither against the other.                                       *)
(*                                                                         *)
(* The operator selects and starts tasks and aborts missions; boat_bt      *)
(* requests bypasses and reports direct tasks complete.  Nobody but        *)
(* competition_manager starts a mission.                                   *)
(***************************************************************************)
EXTENDS CompetitionTasks, FiniteSets, TLC

CONSTANTS JobIds, None      \* of MissionManager

ASSUME JobsAssumption == None \notin JobIds /\ MaxRoute > 0

VARIABLES
    active, navigating, timer, total, idx, handle, bypassTarget, bypassPending,
    bypassActive, cancelForBypass, status, unread, jobs, tainted, reached,
    task, route, state, message, pending, published,
    request,     \* waypoints in the /mission/start request on its way, or 0
    answer       \* the service's answer on its way back, or "none"

MM == INSTANCE MissionManager WITH MaxWaypoints <- MaxRoute
CM == INSTANCE CompetitionManager

missionVars ==
    <<active, navigating, timer, total, idx, handle, bypassTarget,
      bypassPending, bypassActive, cancelForBypass, status, unread, jobs,
      tainted, reached>>
competitionVars == <<task, route, state, message, pending, published>>
call == <<request, answer>>
vars == <<missionVars, competitionVars, call>>

-----------------------------------------------------------------------------
\* Steps of one node that the other does not see.
MissionAlone ==
    /\ \/ MM!Abort
       \/ MM!SetBypassTarget
       \/ MM!Tick
       \/ \E j \in JobIds : MM!JobStep(j) \/ MM!Nav2Ends(j)
    /\ UNCHANGED <<competitionVars, call>>

CompetitionAlone ==
    /\ \/ CM!ClearTask
       \/ \E t \in Tasks, n \in 0..MaxRoute : CM!SelectTask(t, n)
       \/ CM!StartDirect
       \/ CM!Complete
    /\ UNCHANGED <<missionVars, call>>

\* /competition/start sends /mission/start.
RequestMission ==
    /\ CM!StartMission
    /\ request' = route
    /\ UNCHANGED <<missionVars, answer>>

\* mission_manager serves it, whether it accepts or not.
ServeRequest ==
    /\ request > 0
    /\ request' = 0
    /\ \/ MM!Start(request) /\ answer' = "accepted"
       \/ ~MM!StartAccepted(request) /\ answer' = "refused" /\ UNCHANGED missionVars
    /\ UNCHANGED competitionVars

TakeAnswer ==
    /\ answer # "none"
    /\ CM!OnStartResponse(answer)
    /\ answer' = "none"
    /\ UNCHANGED <<missionVars, request>>

TakeStatus ==
    /\ MM!ReadStatus
    /\ CM!OnMissionStatus(status)
    /\ UNCHANGED call

Init == MM!Init /\ CM!Init /\ request = 0 /\ answer = "none"

Next ==
    \/ MissionAlone
    \/ CompetitionAlone
    \/ RequestMission
    \/ ServeRequest
    \/ TakeAnswer
    \/ TakeStatus

Spec == Init /\ [][Next]_vars

-----------------------------------------------------------------------------
\* /mission/start is never refused for a mission still running.
NeverRefused == answer # "refused"

\* A task that is SUCCEEDED by way of waypoints had each of them
\* reached, unless leftovers of an earlier mission disturbed this one.
SuccessIsEarned ==
    state = "SUCCEEDED" /\ route > 0 /\ ~tainted => reached = 0 .. route - 1

\* Under a real mission manager too, the task goes through its lifecycle in
\* order: see TaskLifecycle.
KeepsLifecycle == CM!KeepsLifecycle

\* The chains of the mission manager are alike.
Symmetry == Permutations(JobIds)

=============================================================================
