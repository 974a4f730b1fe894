------------------------------- MODULE BoatBT -------------------------------
(***************************************************************************)
(* boat_bt_node: the behavior tree that routes to the docking controller,  *)
(* the two status callbacks that reset and stop it, and the call that      *)
(* reports a docking complete.  One node on a single-threaded executor.    *)
(*                                                                         *)
(* The tree, bt_xml/simple_boat.xml, is a ReactiveSequence of GlobalSafety,*)
(* CompetitionTaskSelector and MissionMonitor.  ExecuteDocking is the only *)
(* node under the selector that stays RUNNING; the Fallback and Sequence   *)
(* above it keep their place and go straight to it at the next tick, which *)
(* is inDocking.  GlobalSafety and the other tasks' subtrees always succeed*)
(* within the tick, by way of bypass requests, which are left out here.    *)
(***************************************************************************)
EXTENDS DockingController, DockingTasks, Sequences

VARIABLES
    odom,            \* odom_received_
    task,            \* competition_task_
    taskState,       \* competition_state_
    mission,         \* mission_state_; the three terminal states are "OVER"
    finished,        \* tree_finished_
    inDocking,       \* ExecuteDocking was RUNNING at the last tick
    sent,            \* competition_completion_request_sent_
    confirmed,       \* competition_completion_confirmed_
    calls            \* outstanding completion calls, in the order of the client

routing == <<task, taskState, mission>>
completion == <<sent, confirmed, calls>>
treeVars == <<finished, inDocking>>
vars == <<controllerVars, odom, routing, treeVars, completion>>

Missions == {"IDLE", "RUNNING", "OVER"}

-----------------------------------------------------------------------------
OnOdom ==
    /\ ~odom /\ odom' = TRUE
    /\ UNCHANGED <<controllerVars, routing, treeVars, completion>>

OnMissionStatus(s) ==
    /\ mission' = s
    /\ UNCHANGED <<controllerVars, odom, task, taskState, treeVars, completion>>

OnTarget(sight) ==
    /\ OnDockTarget(sight)
    /\ UNCHANGED <<odom, routing, treeVars, completion>>

\* competition_status_callback
RunStarts(t, s) ==
    t = Docking /\ s = "RUNNING" /\ <<task, taskState>> # <<Docking, "RUNNING">>

\* Mutant: a new run keeps the finished tree of the last.
StartRunStillFinished ==
    /\ Reset
    /\ sent' = FALSE
    /\ confirmed' = FALSE
    /\ UNCHANGED finished

StartRun ==
    /\ Reset
    /\ finished' = FALSE
    /\ sent' = FALSE
    /\ confirmed' = FALSE

StopBoat ==
    /\ Publish("stop", 0)
    /\ UNCHANGED <<phase, target, elapsed, loss, reversing, complete>>

OnCompetitionStatus(t, s) ==
    /\ task' = t
    /\ taskState' = s
    /\ \/ RunStarts(t, s) /\ StartRun
       \/ /\ t = Docking /\ s = "SUCCEEDED"
          /\ StopBoat
          /\ confirmed' = TRUE
          /\ UNCHANGED <<finished, sent>>
       \/ /\ t = Docking /\ s \in {"FAILED", "ABORTED"}
          /\ StopBoat
          /\ UNCHANGED <<finished, sent, confirmed>>
       \/ /\ ~RunStarts(t, s)
          /\ ~(t = Docking /\ s \in {"SUCCEEDED", "FAILED", "ABORTED"})
          /\ UNCHANGED <<controllerVars, finished, sent, confirmed>>
    /\ UNCHANGED <<odom, mission, inDocking, calls>>

-----------------------------------------------------------------------------
\* requestCompetitionCompletion; the service may not be ready.
RequestCompletion ==
    IF ~confirmed /\ ~sent
    THEN \/ UNCHANGED <<sent, calls>>
         \/ /\ Len(calls) < MaxCalls
            /\ sent' = TRUE
            /\ calls' = Append(calls, "asked")
    ELSE UNCHANGED <<sent, calls>>

\* The service answers the first call not yet answered; calls are answered and
\* the answers taken in order.
Serve(i, ok) ==
    /\ calls[i] = "asked" /\ \A k \in 1..i-1 : calls[k] # "asked"
    /\ calls' = [calls EXCEPT ![i] = IF ok THEN "yes" ELSE "no"]

Answered(ok) ==
    /\ \E i \in DOMAIN calls : Serve(i, ok)
    /\ UNCHANGED <<controllerVars, odom, routing, treeVars, sent, confirmed>>

\* The answer's callback; an exception counts as a refusal.
OnCompletionAnswer ==
    /\ calls # <<>> /\ Head(calls) # "asked"
    /\ calls' = Tail(calls)
    /\ IF Head(calls) = "yes"
       THEN confirmed' = TRUE /\ UNCHANGED sent
       ELSE sent' = FALSE /\ UNCHANGED confirmed
    /\ UNCHANGED <<controllerVars, odom, routing, treeVars>>

-----------------------------------------------------------------------------
RoutedToDocking == inDocking \/ task = Docking

\* MissionMonitor, and what tick_tree makes of its result.
MissionMonitor(d) ==
    /\ inDocking' = FALSE
    /\ IF mission = "OVER"
       THEN finished' = TRUE /\ command' = "stop"
       ELSE UNCHANGED finished

\* The docking branch: RUNNING, or SUCCESS and on to MissionMonitor.
DockingTick(d) ==
    /\ RoutedToDocking
    /\ Cycle(d)
    /\ IF complete' THEN RequestCompletion ELSE UNCHANGED <<sent, calls>>
    /\ IF complete' /\ confirmed
       THEN MissionMonitor(d)
       ELSE inDocking' = TRUE /\ UNCHANGED finished
    /\ UNCHANGED <<odom, routing, confirmed>>

OtherTick(d) ==
    /\ ~RoutedToDocking
    /\ IF mission = "OVER"
       THEN Grow(d) /\ Publish("stop", d) /\ UNCHANGED <<phase, loss, reversing, complete>>
       ELSE Idle(d)
    /\ MissionMonitor(d)
    /\ UNCHANGED <<odom, routing, completion>>

\* tick_tree returns early.
NoTick(d) ==
    /\ Idle(d)
    /\ UNCHANGED <<odom, routing, finished, inDocking, completion>>

\* tick_tree, d periods after the last.
Tick(d) ==
    IF finished \/ ~odom THEN NoTick(d) ELSE DockingTick(d) \/ OtherTick(d)

-----------------------------------------------------------------------------
Init ==
    /\ InitController
    /\ odom = FALSE
    /\ task \in Tasks \ {Docking} /\ taskState = "IDLE" /\ mission = "IDLE"
    /\ finished = FALSE /\ inDocking = FALSE
    /\ sent = FALSE /\ confirmed = FALSE /\ calls = <<>>

Next ==
    \/ OnOdom
    \/ OnCompletionAnswer
    \/ \E d \in 1..MaxLate : Tick(d)
    \/ \E ok \in BOOLEAN : Answered(ok)
    \/ \E sight \in Sights : OnTarget(sight)
    \/ \E s \in Missions : OnMissionStatus(s)
    \/ \E t \in Tasks, s \in TaskStates : OnCompetitionStatus(t, s)

Spec == Init /\ [][Next]_vars

-----------------------------------------------------------------------------
TypeOK ==
    /\ ControllerTypeOK
    /\ odom \in BOOLEAN /\ finished \in BOOLEAN /\ inDocking \in BOOLEAN
    /\ sent \in BOOLEAN /\ confirmed \in BOOLEAN
    /\ task \in Tasks /\ taskState \in TaskStates /\ mission \in Missions
    /\ calls \in Seq({"asked", "yes", "no"})

\* The boat moves under boat_bt only while ExecuteDocking is RUNNING, so that the
\* tree finishing, a change of task or a stop leaves no motion command behind.
OnlyDockingDrives == command # "stop" => inDocking /\ ~finished
=============================================================================
