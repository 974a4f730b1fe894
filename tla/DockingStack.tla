---------------------------- MODULE DockingStack ----------------------------
(***************************************************************************)
(* competition_manager and boat_bt over a docking: /competition/status,    *)
(* which the reader keeps at depth 1, and the /competition/complete calls. *)
(* mission_manager is left open: it may publish any status, which the two  *)
(* nodes read each in its own time.                                        *)
(*                                                                         *)
(* Of the other tasks only direct ones are needed here: they too may be    *)
(* RUNNING when a completion is served.                                    *)
(***************************************************************************)
EXTENDS DockingController, DockingTasks, Sequences

CONSTANTS
    NoTask,      \* TASK_NONE, one of Tasks
    Readings,    \* what the dock detector reports
    Prompt       \* the operator waits until boat_bt is answered and has heard

ASSUME PromptAssumption == Prompt \in BOOLEAN
ASSUME NoTaskAssumption == NoTask \in Tasks \ {Docking}
ASSUME ReadingsAssumption == Readings \subseteq Sights

VARIABLES
    odom, task, taskState, mission, finished, inDocking, sent, confirmed, calls,
    cmTask, route, cmState, message, pending, published,
    unread       \* published is still to be read by boat_bt

CM == INSTANCE CompetitionManager WITH
        Tasks <- Tasks \ {NoTask}, WaypointTasks <- {}, MaxRoute <- 0,
        task <- cmTask, state <- cmState
BT == INSTANCE BoatBT

ASSUME StatesAssumption == CM!States \subseteq TaskStates

treeVars == <<odom, task, taskState, mission, finished, inDocking, sent, confirmed>>
boatVars == <<controllerVars, treeVars, calls>>
competitionVars == <<cmTask, route, cmState, message, pending, published>>
vars == <<boatVars, competitionVars, unread>>

-----------------------------------------------------------------------------
\* A new sample replaces one that was not read.
Published == unread' = (unread \/ published' # published)

BoatAlone ==
    /\ \/ BT!OnOdom
       \/ BT!OnCompletionAnswer
       \/ \E d \in 1..MaxLate : BT!Tick(d)
       \/ \E sight \in Readings : BT!OnTarget(sight)
       \/ \E s \in BT!Missions : BT!OnMissionStatus(s)
    /\ UNCHANGED <<competitionVars, unread>>

Operator ==
    /\ Prompt => calls = <<>> /\ ~unread
    /\ \/ CM!ClearTask
       \/ \E t \in Tasks \ {NoTask} : CM!SelectTask(t, 0)
       \/ CM!StartDirect
    /\ Published
    /\ UNCHANGED boatVars

\* The end of some mission, which competition_manager maps to the running task.
MissionOver ==
    /\ \E s \in CM!Terminal : CM!OnMissionStatus(s)
    /\ Published
    /\ UNCHANGED boatVars

\* complete_callback: it completes a running direct task, agrees when that was
\* done already, and refuses otherwise.
ServeCompletion ==
    /\ \E ok \in BOOLEAN, i \in DOMAIN calls :
         /\ BT!Serve(i, ok)
         /\ \/ ok /\ CM!Complete
            \/ /\ ok = (cmTask # NoTask /\ cmState = "SUCCEEDED")
               /\ ~CM!Relevant
               /\ UNCHANGED competitionVars
    /\ Published
    /\ UNCHANGED <<controllerVars, treeVars>>

ReadStatus ==
    /\ unread
    /\ BT!OnCompetitionStatus(published.task, published.state)
    /\ unread' = FALSE
    /\ UNCHANGED competitionVars

Init == BT!Init /\ task = NoTask /\ CM!Init /\ unread = TRUE

Next ==
    \/ BoatAlone
    \/ Operator
    \/ MissionOver
    \/ ServeCompletion
    \/ ReadStatus

Spec == Init /\ [][Next]_vars

\* The timer keeps firing, what is sent arrives, and the completion service,
\* free for a call at infinitely many ticks, is found ready at one of them.
FairSpec ==
    /\ Spec
    /\ WF_vars(\E d \in 1..MaxLate : BT!Tick(d) /\ UNCHANGED <<competitionVars, unread>>)
    /\ SF_vars(\E d \in 1..MaxLate : BT!Tick(d) /\ sent' # sent
                                     /\ UNCHANGED <<competitionVars, unread>>)
    /\ WF_vars(BT!OnCompletionAnswer /\ UNCHANGED <<competitionVars, unread>>)
    /\ WF_vars(ServeCompletion)
    /\ WF_vars(ReadStatus)

-----------------------------------------------------------------------------
\* "This allows the same node process to be reused for multiple competition attempts
\* without retaining the previous DOCKED state" (boat_bt_node.cpp:489-494): the boat
\* takes no confirmation for a docking that is still RUNNING, the boat having read so.
ConfirmedByItsRun ==
    [][~confirmed /\ confirmed' /\ cmTask = Docking /\ ~unread => cmState # "RUNNING"]_vars

\* With prompt answers, a docking task that keeps running does not stay so with
\* the dock in sight: the boat docks, reports it and is heard.
DockingRunEnds ==
    ~<>[](cmTask = Docking /\ cmState = "RUNNING" /\ odom
          /\ target.usable /\ target.age <= TargetTimeout
          /\ target.ahead /\ target.entering)

=============================================================================
