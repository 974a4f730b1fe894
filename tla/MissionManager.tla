--------------------------- MODULE MissionManager ---------------------------
(***************************************************************************)
(* The waypoint executor of the competition stack                          *)
(* (mission/mission_manager.py).  One node, one single-threaded executor:  *)
(* every service handler, timer callback and future callback runs to its   *)
(* end before the next one, so each is one action here.  What interleaves  *)
(* is the ORDER in which they run: /mission/start, /mission/abort and      *)
(* /mission/set_bypass_target against the answers of /fromLL and of the    *)
(* navigate_to_pose action server, which come whenever they come.          *)
(*                                                                         *)
(* A chain fromLL call -> goal request -> accepted goal -> result is a     *)
(* "job".  The code keeps no list of them: it keeps the flag _navigating   *)
(* and the handle of the last accepted goal, and its callbacks cannot tell *)
(* which mission they belong to.  Here jobs[j] is the chain itself, what   *)
(* the callbacks that are still to come will be called with.               *)
(***************************************************************************)
EXTENDS Naturals, FiniteSets

CONSTANTS
    JobIds,          \* names for the chains outstanding at one time (a bound)
    MaxWaypoints,    \* the longest mission that is started (a bound)
    None             \* no goal handle

ASSUME NoneAssumption == None \notin JobIds
ASSUME MaxWaypointsAssumption == MaxWaypoints \in Nat \ {0}

VARIABLES
    active,          \* _active
    navigating,      \* _navigating
    timer,           \* _timer is not None: the 1 s tick exists
    total,           \* len(_waypoints)
    idx,             \* _idx
    handle,          \* _nav_handle: the job it belongs to, or None
    bypassTarget,    \* _bypass_target is not None
    bypassPending,   \* _bypass_pending
    bypassActive,    \* _bypass_active
    cancelForBypass, \* _cancel_for_bypass
    status,          \* last state published on /mission/status (latched)
    unread,          \* that sample still waits in the subscriber's queue
    jobs,            \* the chains of asynchronous calls, see above
    tainted,         \* history: this mission began while older jobs lived
    reached          \* history: waypoints this mission's own goals reached

control  == <<active, navigating, timer, total, idx>>
bypass   == <<bypassTarget, bypassPending, bypassActive, cancelForBypass>>
topic    == <<status, unread>>
external == <<handle, jobs>>
history  == <<tainted, reached>>
vars     == <<control, bypass, topic, external, history>>

Status == {"IDLE", "RUNNING", "SUCCEEDED", "FAILED", "ABORTED"}
Outcomes == {"succeeded", "canceled", "aborted"}
Phases == {"free", "ll", "goal", "nav"} \cup Outcomes

\* phase: "ll" while /fromLL is asked, "goal" while the goal request is out,
\* "nav" while Nav2 executes the goal, then how Nav2 ended it ("aborted"
\* stands for every other status too) until _on_result is run; bypass: the
\* is_bypass argument bound into the callbacks; cancel: this node asked Nav2 to
\* cancel the running goal; stale: sent for an earlier mission; wp: _idx then.
Job == [phase: Phases, bypass: BOOLEAN, wp: Nat,
        cancel: BOOLEAN, stale: BOOLEAN]
FreeJob == [phase |-> "free", bypass |-> FALSE, wp |-> 0,
            cancel |-> FALSE, stale |-> FALSE]
NewJob(isBypass) == [phase |-> "ll", bypass |-> isBypass, wp |-> idx,
                     cancel |-> FALSE, stale |-> FALSE]

Live == {j \in JobIds : jobs[j].phase # "free"}

\* Accepted by Nav2, its result not yet taken.
InHand(j) == jobs[j].phase \in {"nav"} \cup Outcomes

-----------------------------------------------------------------------------
\* The helpers of the node.

\* _publish_status: depth 1, transient local; a new sample replaces an unread one.
PublishStatus(s) == status' = s /\ unread' = TRUE

ClearBypass ==
    /\ bypassTarget' = FALSE
    /\ bypassPending' = FALSE
    /\ bypassActive' = FALSE
    /\ cancelForBypass' = FALSE

\* _fail_mission, whoever calls it: the handle is dropped, not cancelled.
FailMission ==
    /\ active' = FALSE
    /\ navigating' = FALSE
    /\ timer' = FALSE
    /\ handle' = None
    /\ ClearBypass
    /\ PublishStatus("FAILED")
    /\ UNCHANGED <<total, idx, history>>

\* handle.cancel_goal_async(): Nav2 is asked; a goal that has ended ignores it.
CancelRequested(j) == [jobs EXCEPT ![j].cancel = @ \/ jobs[j].phase = "nav"]

Freed(j) == [jobs EXCEPT ![j] = FreeJob]

\* What start does to the chains that are still out: nothing; they are now
\* another mission's.
Aged == [j \in JobIds |->
            IF jobs[j].phase = "free" THEN jobs[j]
                                      ELSE [jobs[j] EXCEPT !.stale = TRUE]]

-----------------------------------------------------------------------------
\* Service handlers.  A refused request changes nothing and is no action.

StartAccepted(k) == k > 0 /\ ~active

Start(k) ==
    /\ StartAccepted(k)
    /\ total' = k
    /\ idx' = 0
    /\ navigating' = FALSE
    /\ active' = TRUE
    /\ timer' = TRUE
    /\ handle' = None
    /\ ClearBypass
    /\ PublishStatus("RUNNING")
    /\ jobs' = Aged
    /\ tainted' = (Live # {})
    /\ reached' = {}

Abort ==
    /\ active
    /\ active' = FALSE
    /\ navigating' = FALSE
    /\ timer' = FALSE
    /\ ClearBypass
    /\ handle' = None
    /\ jobs' = IF handle # None THEN CancelRequested(handle) ELSE jobs
    /\ PublishStatus("ABORTED")
    /\ UNCHANGED <<total, idx, history>>

\* Only an accepted goal for a waypoint can be cancelled to make room.
InterruptsWaypoint == navigating /\ handle # None /\ ~bypassActive

SetBypassTarget ==
    /\ active
    /\ bypassTarget' = TRUE
    /\ bypassPending' = TRUE
    /\ PublishStatus("RUNNING")
    /\ cancelForBypass' = (cancelForBypass \/ InterruptsWaypoint)
    /\ jobs' = IF InterruptsWaypoint THEN CancelRequested(handle) ELSE jobs
    /\ UNCHANGED <<control, bypassActive, handle, history>>

-----------------------------------------------------------------------------
\* The tick.  A tick while Nav2 or /fromLL is unavailable changes nothing.

\* Mutant: the tick does not wait for the goal in flight.
TickRunsWhileNavigating == timer /\ active

TickRuns == timer /\ active /\ ~navigating

CallFromLL(isBypass) ==
    \E j \in JobIds \ Live : jobs' = [jobs EXCEPT ![j] = NewJob(isBypass)]

\* Mutant: the mission is complete one waypoint early.
AllReachedEarly == idx + 1 >= total

AllReached == idx >= total

SendBypass ==
    /\ bypassPending
    /\ bypassPending' = FALSE
    /\ \/ /\ ~bypassTarget
          /\ UNCHANGED <<navigating, bypassActive, jobs>>
       \/ /\ bypassTarget
          /\ navigating' = TRUE
          /\ bypassActive' = TRUE
          /\ CallFromLL(TRUE)
    /\ UNCHANGED <<active, timer, total, idx, bypassTarget, cancelForBypass,
                   topic, handle, history>>

Complete ==
    /\ ~bypassPending
    /\ AllReached
    /\ active' = FALSE
    /\ timer' = FALSE
    /\ PublishStatus("SUCCEEDED")
    /\ UNCHANGED <<navigating, total, idx, bypass, external, history>>

SendNext ==
    /\ ~bypassPending
    /\ ~AllReached
    /\ navigating' = TRUE
    /\ bypassActive' = FALSE
    /\ CallFromLL(FALSE)
    /\ UNCHANGED <<active, timer, total, idx, bypassTarget, bypassPending,
                   cancelForBypass, topic, handle, history>>

Tick == TickRuns /\ (SendBypass \/ Complete \/ SendNext)

-----------------------------------------------------------------------------
\* Future callbacks.  None of them looks at _active first.

\* _on_ll and _on_bypass_ll
OnLL(j) ==
    /\ jobs[j].phase = "ll"
    /\ \/ /\ jobs' = [jobs EXCEPT ![j].phase = "goal"]
          /\ UNCHANGED <<control, bypass, topic, handle, history>>
       \/ FailMission /\ jobs' = Freed(j)

OnAccepted(j) ==
    /\ jobs[j].phase = "goal"
    /\ \/ /\ jobs' = [jobs EXCEPT ![j].phase = "nav"]
          /\ handle' = j
          /\ UNCHANGED <<control, bypass, topic, history>>
       \/ FailMission /\ jobs' = Freed(j)

\* Mutant: a completed bypass counts as the waypoint it stood in for.
BypassReachedAdvances(j) ==
    /\ jobs[j].bypass
    /\ bypassActive' = FALSE
    /\ bypassTarget' = FALSE
    /\ idx' = idx + 1
    /\ PublishStatus("RUNNING")
    /\ UNCHANGED <<bypassPending, cancelForBypass, reached>>

BypassReached(j) ==
    /\ jobs[j].bypass
    /\ bypassActive' = FALSE
    /\ bypassTarget' = FALSE
    /\ PublishStatus("RUNNING")
    /\ UNCHANGED <<idx, bypassPending, cancelForBypass, reached>>

WaypointReached(j) ==
    /\ ~jobs[j].bypass
    /\ idx' = idx + 1
    /\ reached' = IF active /\ ~jobs[j].stale THEN reached \cup {jobs[j].wp}
                                              ELSE reached
    /\ PublishStatus("RUNNING")
    /\ UNCHANGED bypass

OnSucceeded(j) ==
    /\ jobs[j].phase = "succeeded"
    /\ BypassReached(j) \/ WaypointReached(j)
    /\ UNCHANGED <<active, timer, total, tainted>>

\* Mutant: the pause clears the request it was made for.
PauseClearsRequest == ClearBypass

PauseDone == cancelForBypass' = FALSE
             /\ UNCHANGED <<bypassTarget, bypassPending, bypassActive>>

PausedForBypass(j) == cancelForBypass /\ ~jobs[j].bypass

OnCanceled(j) ==
    /\ jobs[j].phase = "canceled"
    /\ \/ /\ PausedForBypass(j)
          /\ PauseDone
          /\ PublishStatus("RUNNING")
       \/ /\ ~PausedForBypass(j)
          /\ ~active
          /\ UNCHANGED <<bypass, topic>>
    /\ UNCHANGED <<active, timer, total, idx, history>>

\* Mutant: _navigating survives the result.
StillNavigating == handle' = None /\ UNCHANGED navigating

\* The first two assignments of _on_result, before the status is looked at.
GoalOver == handle' = None /\ navigating' = FALSE

OnResult(j) ==
    /\ GoalOver
    /\ OnSucceeded(j) \/ OnCanceled(j)
    /\ jobs' = Freed(j)

\* Canceled in no bypass while a mission is active, or ended any other way.
OnResultFailed(j) ==
    /\ \/ jobs[j].phase = "canceled" /\ ~PausedForBypass(j) /\ active
       \/ jobs[j].phase = "aborted"
    /\ FailMission
    /\ jobs' = Freed(j)

JobStep(j) == OnLL(j) \/ OnAccepted(j) \/ OnResult(j) \/ OnResultFailed(j)

\* Nav2 ends a goal in any way at any time, asked to cancel it or not.
Nav2Ends(j) ==
    /\ jobs[j].phase = "nav"
    /\ \E outcome \in Outcomes : jobs' = [jobs EXCEPT ![j].phase = outcome]
    /\ UNCHANGED <<control, bypass, topic, handle, history>>

\* The subscriber (competition_manager, boat_bt) takes the sample.
ReadStatus == unread /\ unread' = FALSE
              /\ UNCHANGED <<control, bypass, status, external, history>>

-----------------------------------------------------------------------------
Init ==
    /\ active = FALSE
    /\ navigating = FALSE
    /\ timer = FALSE
    /\ total = 0
    /\ idx = 0
    /\ handle = None
    /\ bypassTarget = FALSE
    /\ bypassPending = FALSE
    /\ bypassActive = FALSE
    /\ cancelForBypass = FALSE
    /\ status = "IDLE"
    /\ unread = TRUE
    /\ jobs = [j \in JobIds |-> FreeJob]
    /\ tainted = FALSE
    /\ reached = {}

Next ==
    \/ \E k \in 1..MaxWaypoints : Start(k)
    \/ Abort
    \/ SetBypassTarget
    \/ Tick
    \/ \E j \in JobIds : JobStep(j) \/ Nav2Ends(j)
    \/ ReadStatus

\* The executor spins until shutdown and the two servers answer: no callback
\* that stays ready waits for ever.  Nothing obliges an operator or the
\* Behavior Tree to call a service.
Fairness ==
    /\ WF_vars(Tick)
    /\ \A j \in JobIds : WF_vars(JobStep(j)) /\ WF_vars(Nav2Ends(j))

Spec == Init /\ [][Next]_vars /\ Fairness

-----------------------------------------------------------------------------
TypeOK ==
    /\ active \in BOOLEAN
    /\ navigating \in BOOLEAN
    /\ timer \in BOOLEAN
    /\ total \in 0..MaxWaypoints
    /\ idx \in Nat
    /\ handle \in JobIds \cup {None}
    /\ bypassTarget \in BOOLEAN
    /\ bypassPending \in BOOLEAN
    /\ bypassActive \in BOOLEAN
    /\ cancelForBypass \in BOOLEAN
    /\ status \in Status
    /\ unread \in BOOLEAN
    /\ jobs \in [JobIds -> Job]
    /\ tainted \in BOOLEAN
    /\ reached \in SUBSET Nat

\* One flag stands for the whole chain of calls: while a mission that began
\* with nothing outstanding is active, _navigating is true exactly when one
\* chain is out, and there is never a second one.
SingleFlight ==
    active /\ ~tainted =>
        /\ navigating <=> Live # {}
        /\ \A i, j \in Live : i = j

\* _nav_handle is what abort and bypass cancel: while such a mission is
\* active it holds the accepted goal, and nothing when there is none.
HandleIsTheGoal ==
    active /\ ~tainted =>
        \A j \in JobIds : InHand(j) <=> handle = j

\* A mission reported SUCCEEDED reached every one of its waypoints with goals
\* of its own, however bypasses, cancellations and retries fell.
SuccessMeansVisited ==
    status = "SUCCEEDED" /\ ~tainted => reached = 0 .. total - 1

\* After FAILED or SUCCEEDED nothing of the mission is left at Nav2.
EndLeavesNothingBehind ==
    status \in {"SUCCEEDED", "FAILED"} /\ ~active /\ ~tainted => Live = {}

\* After the end of a mission a goal Nav2 still executes was either asked to
\* cancel or is the one goal accepted too late for abort to know its handle.
OnlyLateGoalsSurvive ==
    ~active /\ ~tainted =>
        \A j \in Live : jobs[j].phase = "nav" => jobs[j].cancel \/ handle = j

\* Why these hold.  The chains of a mission that began with nothing
\* outstanding: at most one, of this mission, its goal in hand once accepted;
\* while the mission is active it is for the waypoint at _idx or for the bypass
\* under way, and the waypoints before _idx are the ones reached.
OneChain ==
    /\ \A i, j \in Live : i = j
    /\ \A j \in Live : ~jobs[j].stale
    /\ handle # None => InHand(handle)
    /\ \A j \in JobIds : InHand(j) => handle = j \/ ~active
    /\ \A j \in JobIds : jobs[j].phase = "nav" => handle = j \/ jobs[j].cancel

Progress ==
    /\ navigating <=> Live # {}
    /\ idx <= total
    /\ reached = 0 .. idx - 1
    /\ \A j \in Live : jobs[j].bypass => bypassActive
    /\ \A j \in Live : ~jobs[j].bypass => jobs[j].wp = idx /\ idx < total

Ended ==
    /\ status \in {"SUCCEEDED", "FAILED"} => Live = {}
    /\ status = "SUCCEEDED" => reached = 0 .. total - 1

Clean ==
    /\ active => status = "RUNNING"
    /\ ~tainted => OneChain /\ Ended /\ (active => Progress)

IInv == TypeOK /\ Clean

\* A requested bypass waits until a chain of its own carries it out, or the
\* mission ends.  One thing else takes it away: another bypass, under way when it
\* was accepted, that comes to its end (_on_result clears _bypass_target whosever
\* it is).  No failure, cancellation or late answer of a waypoint does.
SentNow == \E j \in JobIds \ Live : jobs'[j] = NewJob(TRUE)

OtherBypassOver ==
    \E j \in Live : jobs[j].bypass /\ jobs[j].phase = "succeeded" /\ jobs'[j] = FreeJob

BypassLostOnlyToAnother ==
    [][active /\ active' /\ ~tainted /\ bypassPending /\ bypassTarget =>
         \/ bypassTarget' /\ (bypassPending' \/ SentNow)
         \/ bypassActive /\ OtherBypassOver]_vars

\* If bypass requests stop, an active mission ends: no order of late answers
\* leaves _navigating set with nothing outstanding.
MissionEnds ==
    <>[][~SetBypassTarget]_vars => (active ~> ~active)

\* "Call /mission/abort.  Confirm thrusters stop" (src/TODOS.md): no goal is handed
\* to Nav2 while no mission is active.
NoGoalAfterAbort ==
    [][\A j \in JobIds :
          jobs[j].phase = "ll" /\ jobs'[j].phase = "goal" => active]_vars
=============================================================================
