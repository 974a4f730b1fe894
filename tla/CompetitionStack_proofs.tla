------------------------ MODULE CompetitionStack_proofs ------------------------
(***************************************************************************)
(* The two managers together, for any tasks, routes and chains: what holds *)
(* of each node alone, and what the service call and the status topic add. *)
(***************************************************************************)
EXTENDS CompetitionStack, TLAPS

Mission == INSTANCE MissionManager_proofs WITH MaxWaypoints <- MaxRoute

---------------------------------------------------------------------------
(* competition_manager alone, for any tasks and any routes, against a      *)
(* mission manager that answers and publishes what it likes.               *)

\* The definition is loaded exactly while a task is selected, the latched sample
\* is current, and a pending start holds the task READY.
CMInv == CM!TypeOK /\ CM!StatusIsCurrent /\ CM!PendingMeansReady

Texts == CM!Kinds \X (Tasks \cup {NoTask})

LEMMA CMInit == CM!Init => CMInv
<1> SUFFICES ASSUME CM!Init PROVE CMInv
  OBVIOUS
<1>1. message \in Texts
  BY DEF CM!Init, Texts, CM!Kinds
<1>2. 0 \in 0..MaxRoute
  BY MaxRouteAssumption
<1>3. QED BY <1>1, <1>2 DEF CM!Init, CMInv, CM!TypeOK, CM!StatusIsCurrent, CM!PendingMeansReady,
             CM!States, Texts

\* set_competition_state keeps the types.
LEMMA SetStateTypes ==
    ASSUME CM!TypeOK, NEW new \in CM!States, NEW text \in Texts, NEW force,
           CM!SetState(new, text, force), task' \in Tasks \cup {NoTask}
    PROVE  /\ state' = new
           /\ message' \in Texts
           /\ published' \in [task: Tasks \cup {NoTask}, state: CM!States]
<1>1. QED BY DEF CM!SetState, CM!TypeOK

LEMMA SaysText ==
    ASSUME CM!TypeOK, NEW kind \in CM!Kinds PROVE CM!Say(kind) \in Texts
<1>1. QED BY DEF CM!Say, Texts, CM!TypeOK

\* set_competition_state leaves the sample current, published or not.
LEMMA SampleCurrent ==
    ASSUME CM!StatusIsCurrent, NEW new, NEW text, NEW force,
           CM!SetState(new, text, force),
           task' = task \/ text # message \/ force
    PROVE  CM!StatusIsCurrent'
<1>1. QED BY DEF CM!StatusIsCurrent, CM!SetState

LEMMA CMStep == CMInv /\ [CM!Next]_(CM!vars) => CMInv'
<1> SUFFICES ASSUME CMInv, [CM!Next]_(CM!vars) PROVE CMInv'
  OBVIOUS
<1> USE TasksAssumption, MaxRouteAssumption DEF CMInv, CM!PendingMeansReady
<1>0. /\ CM!States = {"IDLE", "READY", "RUNNING", "SUCCEEDED", "FAILED", "ABORTED"}
      /\ \A kind \in CM!Kinds : CM!Say(kind) \in Texts
      /\ \A t \in Tasks \cup {NoTask}, kind \in CM!Kinds : <<kind, t>> \in Texts
      /\ 0 \in 0..MaxRoute
  <2>1. \A kind \in CM!Kinds : CM!Say(kind) \in Texts
    BY SaysText
  <2>2. 0 \in 0..MaxRoute
    OBVIOUS
  <2>3. QED BY <2>1, <2>2 DEF CM!States, Texts
<1>k. CM!Kinds = {"initialized", "cleared", "selected", "started", "start failed",
               "start refused", "completed", "mission over"}
  BY DEF CM!Kinds
<1>1. CASE CM!ClearTask
  <2>1. CM!StatusIsCurrent'
    BY <1>1 DEF CM!ClearTask, CM!SetState, CM!StatusIsCurrent
  <2>2. <<"cleared", NoTask>> \in Texts /\ "IDLE" \in CM!States
    BY <1>0, <1>k
  <2>3. CM!TypeOK'
    BY <1>0, <1>1, <2>2, SetStateTypes DEF CM!ClearTask, CM!TypeOK, Texts
  <2>4. QED BY <1>1, <2>1, <2>3 DEF CM!ClearTask, CM!MaySelect
<1>2. ASSUME NEW t \in Tasks, NEW n \in 0..MaxRoute, CM!SelectTask(t, n)
      PROVE  CMInv'
  <2>1. CM!StatusIsCurrent'
    BY <1>2 DEF CM!SelectTask, CM!SetState, CM!StatusIsCurrent
  <2>2. <<"selected", t>> \in Texts /\ "READY" \in CM!States
    BY <1>0, <1>k
  <2>3. CM!TypeOK'
    BY <1>0, <1>2, <2>2, SetStateTypes DEF CM!SelectTask, CM!TypeOK, Texts
  <2>4. QED BY <1>2, <2>1, <2>3 DEF CM!SelectTask, CM!MaySelect
<1>3. CASE CM!StartDirect
  <2>1. CM!StatusIsCurrent'
    BY <1>3, SampleCurrent DEF CM!StartDirect
  <2>2. CM!Say("started") \in Texts /\ "RUNNING" \in CM!States
    BY <1>0, <1>k
  <2>3. CM!TypeOK'
    BY <1>0, <1>3, <2>2, SetStateTypes DEF CM!StartDirect, CM!MayStart, CM!TypeOK, Texts
  <2>4. QED BY <1>3, <2>1, <2>3 DEF CM!StartDirect, CM!MayStart
<1>4. CASE CM!StartMission
  BY <1>4 DEF CM!StartMission, CM!MayStart, CM!TypeOK, CM!StatusIsCurrent
<1>5. CASE CM!Complete
  <2>1. CM!StatusIsCurrent'
    BY <1>5, SampleCurrent DEF CM!Complete
  <2>2. CM!Say("completed") \in Texts /\ "SUCCEEDED" \in CM!States
    BY <1>0, <1>k
  <2>3. CM!TypeOK'
    BY <1>0, <1>5, <2>2, SetStateTypes DEF CM!Complete, CM!TypeOK, Texts
  <2>4. QED BY <1>5, <2>1, <2>3 DEF CM!Complete
<1>6. ASSUME NEW reply \in {"failed", "refused", "accepted"},
             CM!OnStartResponse(reply)
      PROVE  CMInv'
  <2>1. CM!StatusIsCurrent'
    BY <1>6, SampleCurrent DEF CM!OnStartResponse
  <2>2. /\ {CM!Say("start failed"), CM!Say("start refused"), CM!Say("started")} \subseteq Texts
        /\ {"READY", "RUNNING"} \subseteq CM!States
    BY <1>0, <1>k
  <2>3. CM!TypeOK'
    BY <1>0, <1>6, <2>2, SetStateTypes DEF CM!OnStartResponse, CM!TypeOK, Texts
  <2>4. QED BY <1>6, <2>1, <2>3 DEF CM!OnStartResponse
<1>7. ASSUME NEW s \in CM!MissionStates, CM!OnMissionStatus(s) PROVE CMInv'
  <2>1. CASE CM!Relevant /\ s \in CM!Terminal
    <3>1. CM!StatusIsCurrent'
      BY <1>7, <2>1, SampleCurrent DEF CM!OnMissionStatus
    <3>2. CM!Say("mission over") \in Texts /\ s \in CM!States
      BY <1>0, <1>k, <2>1 DEF CM!Terminal
    <3>3. CM!TypeOK'
      BY <1>0, <1>7, <2>1, <3>2, SetStateTypes DEF CM!OnMissionStatus, CM!Relevant, CM!TypeOK, Texts
    <3>4. QED BY <1>7, <2>1, <3>1, <3>3 DEF CM!OnMissionStatus, CM!Relevant
  <2>2. CASE ~(CM!Relevant /\ s \in CM!Terminal)
    BY <1>7, <2>2 DEF CM!OnMissionStatus, CM!TypeOK, CM!StatusIsCurrent
  <2>3. QED BY <2>1, <2>2
<1>8. CASE UNCHANGED CM!vars
  BY <1>8 DEF CM!vars, CM!TypeOK, CM!StatusIsCurrent
<1>9. QED BY <1>1, <1>2, <1>3, <1>4, <1>5, <1>6, <1>7, <1>8 DEF CM!Next, CM!Operator

\* What the node's own proofs rest on.
THEOREM CMInvariant == CM!Spec => []CMInv
<1>1. QED BY CMInit, CMStep, PTL DEF CM!Spec

\* The node's state keeps its type, and nothing is loaded without a task.
THEOREM CMTypeCorrect == CM!Spec => []CM!TypeOK
<1>1. QED BY CMInvariant, PTL DEF CMInv

\* What boat_bt reads on /competition/status is what the node holds.
THEOREM StatusHolds == CM!Spec => []CM!StatusIsCurrent
<1>1. QED BY CMInvariant, PTL DEF CMInv

\* The answer to /mission/start finds the task it was asked for, READY.
THEOREM PendingHolds == CM!Spec => []CM!PendingMeansReady
<1>1. QED BY CMInvariant, PTL DEF CMInv

\* A step of the node is a step of its lifecycle, or none.
LEMMA LifecycleStep == CMInv /\ [CM!Next]_(CM!vars) => [CM!Lifecycle!Next]_(CM!Lifecycle!vars)
<1> SUFFICES ASSUME CMInv, [CM!Next]_(CM!vars) PROVE [CM!Lifecycle!Next]_(CM!Lifecycle!vars)
  OBVIOUS
<1> USE DEF CM!Lifecycle!vars, CM!Lifecycle!Next, CM!Lifecycle!Terminal
<1>1. CASE CM!ClearTask
  BY <1>1 DEF CM!ClearTask, CM!MaySelect, CM!SetState, CM!Lifecycle!Clear
<1>2. ASSUME NEW t \in Tasks, NEW n \in 0..MaxRoute, CM!SelectTask(t, n)
      PROVE  CM!Lifecycle!Next
  BY <1>2 DEF CM!SelectTask, CM!MaySelect, CM!SetState, CM!Lifecycle!Select
<1>3. CASE CM!StartDirect
  BY <1>3 DEF CM!StartDirect, CM!MayStart, CM!SetState, CM!Lifecycle!Run
<1>4. CASE CM!StartMission
  BY <1>4 DEF CM!StartMission
<1>5. CASE CM!Complete
  BY <1>5 DEF CM!Complete, CM!SetState, CM!Lifecycle!End
<1>6. ASSUME NEW reply \in {"failed", "refused", "accepted"},
             CM!OnStartResponse(reply)
      PROVE  [CM!Lifecycle!Next]_(CM!Lifecycle!vars)
  BY <1>6 DEF CMInv, CM!PendingMeansReady, CM!OnStartResponse, CM!SetState, CM!Lifecycle!Run
<1>7. ASSUME NEW s \in CM!MissionStates, CM!OnMissionStatus(s)
      PROVE  [CM!Lifecycle!Next]_(CM!Lifecycle!vars)
  BY <1>7 DEF CM!OnMissionStatus, CM!Relevant, CM!Terminal, CM!SetState, CM!Lifecycle!End
<1>8. CASE UNCHANGED CM!vars
  BY <1>8 DEF CM!vars
<1>9. QED BY <1>1, <1>2, <1>3, <1>4, <1>5, <1>6, <1>7, <1>8 DEF CM!Next, CM!Operator

\* Whatever the mission manager answers and publishes, and however late, a task
\* runs once between selection and end.
THEOREM ImplementsLifecycle == CM!Spec => CM!KeepsLifecycle
<1>1. CM!Init => CM!Lifecycle!Init
  BY DEF CM!Init, CM!Lifecycle!Init
<1>2. QED BY <1>1, LifecycleStep, CMInvariant, PTL DEF CM!Spec, CM!KeepsLifecycle, CM!Lifecycle!Spec

---------------------------------------------------------------------------
(* The two together.                                                       *)

(* The call: one at a time, for the route of the task that is starting, and *)
(* never refused.                                                          *)
Call ==
    /\ request \in 0..MaxRoute /\ answer \in {"none", "accepted"}
    /\ pending <=> request > 0 \/ answer = "accepted"
    /\ request > 0 => answer = "none" /\ request = route

(* A mission is active only for the task that runs or is about to, and has *)
(* its waypoints; a task that succeeded has the last mission's.            *)
Expecting == answer = "accepted" \/ (state = "RUNNING" /\ route > 0)

Together ==
    /\ active => Expecting
    /\ Expecting => total = route
    /\ SuccessIsEarned

StackInv == Mission!IInv /\ CMInv /\ Call /\ Together

---------------------------------------------------------------------------
(* The mission manager is the one that its own proofs are about.           *)
LEMMA SameMission ==
    /\ MM!Init => Mission!Init
    /\ [MM!Next]_(MM!vars) => [Mission!Next]_(Mission!vars)
  BY DEF MM!Next, Mission!Next, MM!Start, Mission!Start, MM!Abort, Mission!Abort,
      MM!SetBypassTarget, Mission!SetBypassTarget, MM!Tick, Mission!Tick,
      MM!JobStep, Mission!JobStep, MM!Nav2Ends, Mission!Nav2Ends, MM!ReadStatus,
      Mission!ReadStatus, MM!StartAccepted, Mission!StartAccepted,
      MM!ClearBypass, Mission!ClearBypass, MM!PublishStatus,
      Mission!PublishStatus, MM!Aged, Mission!Aged, MM!Live, Mission!Live,
      MM!CancelRequested, Mission!CancelRequested, MM!Freed, Mission!Freed,
      MM!FreeJob, Mission!FreeJob, MM!NewJob, Mission!NewJob,
      MM!InterruptsWaypoint, Mission!InterruptsWaypoint, MM!TickRuns,
      Mission!TickRuns, MM!CallFromLL, Mission!CallFromLL, MM!AllReached,
      Mission!AllReached, MM!SendBypass, Mission!SendBypass, MM!Complete,
      Mission!Complete, MM!SendNext, Mission!SendNext, MM!FailMission,
      Mission!FailMission, MM!OnLL, Mission!OnLL, MM!OnAccepted,
      Mission!OnAccepted, MM!BypassReached, Mission!BypassReached,
      MM!WaypointReached, Mission!WaypointReached, MM!OnSucceeded,
      Mission!OnSucceeded, MM!PauseDone, Mission!PauseDone, MM!PausedForBypass,
      Mission!PausedForBypass, MM!OnCanceled, Mission!OnCanceled, MM!GoalOver,
      Mission!GoalOver, MM!OnResult, Mission!OnResult, MM!OnResultFailed,
      Mission!OnResultFailed, MM!Outcomes, Mission!Outcomes, MM!control,
      Mission!control, MM!bypass, Mission!bypass, MM!topic, Mission!topic,
      MM!external, Mission!external, MM!history, Mission!history, MM!vars,
      Mission!vars, MM!Init, Mission!Init

(* What MissionManager assumes of its constants holds of the stack's.      *)
LEMMA Constants ==
    None \notin JobIds /\ MaxRoute \in Nat \ {0} /\ MaxRoute \in Nat
  BY JobsAssumption, MaxRouteAssumption

(* Both nodes keep their invariants, whatever the other does.              *)
LEMMA MissionKeeps ==
    ASSUME Mission!IInv, [MM!Next]_(MM!vars) PROVE Mission!IInv'
<1>1. [Mission!Next]_(Mission!vars)
  BY SameMission
<1>2. Mission!IInv /\ [Mission!Next]_(Mission!vars) => Mission!IInv'
  BY Mission!InvStep, Constants
<1> QED BY <1>1, <1>2

LEMMA CompetitionKeeps ==
    ASSUME CMInv, [CM!Next]_(CM!vars) PROVE CMInv'
  BY CMStep

(* What the proof takes from them.                                         *)
LEMMA OfTheMission ==
    ASSUME Mission!IInv
    PROVE  /\ active => status = "RUNNING"
           /\ status = "SUCCEEDED" /\ ~tainted => reached = 0 .. total - 1
           /\ status \in CM!MissionStates
  BY DEF Mission!IInv, Mission!Clean, Mission!Ended, Mission!TypeOK, Mission!Status,
         CM!MissionStates, CM!Terminal

LEMMA OfTheTask ==
    ASSUME CMInv
    PROVE  /\ pending => state = "READY" /\ route > 0
           /\ pending \in BOOLEAN
           /\ route \in 0..MaxRoute
  BY DEF CMInv, CM!TypeOK, CM!PendingMeansReady

(* Nothing but a start sets the length and the taint of a mission, or has  *)
(* one begin, and one that is over reaches no more.                        *)
LEMMA MissionSteady ==
    ASSUME MissionAlone
    PROVE  /\ total' = total /\ tainted' = tainted
           /\ active' => active
           /\ ~active => reached' = reached
<1> USE DEF MM!control, MM!bypass, MM!topic, MM!external, MM!history, MM!PublishStatus
<1>1. CASE MM!Abort \/ MM!SetBypassTarget
  BY <1>1 DEF MM!Abort, MM!SetBypassTarget
<1>2. CASE MM!Tick
  BY <1>2 DEF MM!Tick, MM!TickRuns, MM!SendBypass, MM!Complete, MM!SendNext
<1>3. ASSUME NEW j \in JobIds, MM!JobStep(j)
      PROVE  /\ total' = total /\ tainted' = tainted
             /\ active' => active
             /\ ~active => reached' = reached
  BY <1>3 DEF MM!JobStep, MM!OnLL, MM!OnAccepted, MM!OnResult, MM!OnSucceeded,
     MM!BypassReached, MM!WaypointReached, MM!OnCanceled, MM!OnResultFailed, MM!FailMission
<1>4. ASSUME NEW j \in JobIds, MM!Nav2Ends(j)
      PROVE  UNCHANGED <<active, total, tainted, reached>>
  BY <1>4 DEF MM!Nav2Ends
<1> QED BY <1>1, <1>2, <1>3, <1>4 DEF MissionAlone

---------------------------------------------------------------------------
(* A step of the mission manager that the other node does not see.         *)
LEMMA MissionAloneKeeps == ASSUME StackInv, MissionAlone PROVE StackInv'
<1>1. MM!Next /\ UNCHANGED CM!vars
  BY DEF MissionAlone, MM!Next, CM!vars, competitionVars
<1>2. Mission!IInv' /\ CMInv'
  BY <1>1, MissionKeeps, CompetitionKeeps DEF StackInv
<1>3. UNCHANGED <<state, route, pending, request, answer>>
  BY DEF MissionAlone, competitionVars, call
<1>4. Call'
  BY <1>3 DEF StackInv, Call
<1>5. Together'
  <2>1. state = "SUCCEEDED" /\ route > 0 => ~active
    BY OfTheTask DEF StackInv, Together, Expecting, Call
  <2> QED BY <1>3, <2>1, MissionSteady DEF StackInv, Together, Expecting, SuccessIsEarned
<1> QED BY <1>2, <1>4, <1>5 DEF StackInv

(* A step of competition_manager that the other node does not see.         *)
LEMMA CompetitionAloneKeeps == ASSUME StackInv, CompetitionAlone PROVE StackInv'
<1>1. CM!Next /\ UNCHANGED MM!vars /\ UNCHANGED <<request, answer>>
  BY DEF CompetitionAlone, CM!Next, CM!Operator, missionVars, call, MM!vars, MM!control,
         MM!bypass, MM!topic, MM!external, MM!history
<1>2. Mission!IInv' /\ CMInv'
  BY <1>1, MissionKeeps, CompetitionKeeps DEF StackInv
<1>3. UNCHANGED <<active, total, tainted, reached>>
  BY DEF CompetitionAlone, missionVars
<1>4. /\ pending' = pending
      /\ \/ ~pending /\ state # "RUNNING" /\ state' \in {"IDLE", "READY"}
         \/ route = 0 /\ route' = 0
  BY DEF CompetitionAlone, CM!ClearTask, CM!SelectTask, CM!MaySelect, CM!StartDirect,
         CM!Complete, CM!SetState
<1>5. Call'
  <2>1. request > 0 => route' = route
    BY OfTheTask DEF StackInv, Call, CompetitionAlone, CM!ClearTask, CM!SelectTask,
       CM!MaySelect, CM!StartDirect, CM!Complete
  <2> QED BY <1>1, <1>4, <2>1 DEF StackInv, Call
<1>6. Together'
  BY <1>1, <1>3, <1>4, OfTheTask DEF StackInv, Call, Together, Expecting, SuccessIsEarned
<1> QED BY <1>2, <1>5, <1>6 DEF StackInv

(* The request: for a READY task, whose last mission is over.              *)
LEMMA RequestMissionKeeps == ASSUME StackInv, RequestMission PROVE StackInv'
<1>1. CM!Next /\ UNCHANGED MM!vars
  BY DEF RequestMission, CM!Next, CM!Operator, missionVars, MM!vars, MM!control,
         MM!bypass, MM!topic, MM!external, MM!history
<1>2. Mission!IInv' /\ CMInv'
  BY <1>1, MissionKeeps, CompetitionKeeps DEF StackInv
<1>3. /\ UNCHANGED <<active, total, tainted, reached, route, state, answer>>
      /\ ~pending /\ pending' /\ route > 0 /\ request' = route
  BY DEF RequestMission, CM!StartMission, CM!MayStart, missionVars
<1>4. Call'
  BY <1>3, OfTheTask DEF StackInv, Call
<1>5. Together'
  BY <1>3 DEF StackInv, Together, Expecting, SuccessIsEarned
<1> QED BY <1>2, <1>4, <1>5 DEF StackInv

(* The request is served while no mission is active, and so is accepted.   *)
LEMMA ServeRequestKeeps == ASSUME StackInv, ServeRequest PROVE StackInv'
<1>1. /\ request \in 1..MaxRoute /\ pending /\ answer = "none" /\ request = route
      /\ state = "READY" /\ ~active
  BY OfTheTask, MaxRouteAssumption DEF StackInv, Call, Together, Expecting, ServeRequest
<1>2. /\ MM!Start(request) /\ answer' = "accepted" /\ request' = 0
      /\ UNCHANGED <<state, route, pending>> /\ UNCHANGED CM!vars
  BY <1>1 DEF ServeRequest, MM!StartAccepted, competitionVars, CM!vars
<1>3. Mission!IInv' /\ CMInv'
  BY <1>1, <1>2, MissionKeeps, CompetitionKeeps DEF StackInv, MM!Next
<1>4. Call'
  BY <1>1, <1>2, MaxRouteAssumption DEF Call
<1>5. Together'
  BY <1>1, <1>2 DEF Together, Expecting, SuccessIsEarned, MM!Start
<1> QED BY <1>3, <1>4, <1>5 DEF StackInv

(* The answer makes the task RUNNING, over or not as its mission may be.   *)
LEMMA TakeAnswerKeeps == ASSUME StackInv, TakeAnswer PROVE StackInv'
<1>1. /\ answer = "accepted" /\ request = 0 /\ pending /\ route > 0 /\ total = route
  BY OfTheTask, MaxRouteAssumption DEF StackInv, Call, Together, Expecting, TakeAnswer
<1>2. CM!Next /\ UNCHANGED MM!vars
  BY <1>1 DEF TakeAnswer, CM!Next, missionVars, MM!vars, MM!control,
         MM!bypass, MM!topic, MM!external, MM!history
<1>3. Mission!IInv' /\ CMInv'
  BY <1>2, MissionKeeps, CompetitionKeeps DEF StackInv
<1>4. /\ UNCHANGED <<active, total, tainted, reached, route, request>>
      /\ state' = "RUNNING" /\ pending' = FALSE /\ answer' = "none"
  BY <1>1 DEF TakeAnswer, CM!OnStartResponse, CM!SetState, missionVars
<1>5. Call'
  BY <1>1, <1>4, MaxRouteAssumption DEF Call
<1>6. Together'
  BY <1>1, <1>4 DEF Together, Expecting, SuccessIsEarned
<1> QED BY <1>3, <1>5, <1>6 DEF StackInv

(* The sample: a mission that is active says so, and one that succeeded is *)
(* the task's.                                                             *)
LEMMA TakeStatusKeeps == ASSUME StackInv, TakeStatus PROVE StackInv'
<1>1. MM!Next /\ CM!Next
  BY OfTheMission DEF TakeStatus, MM!Next, CM!Next, StackInv
<1>2. Mission!IInv' /\ CMInv'
  BY <1>1, MissionKeeps, CompetitionKeeps DEF StackInv
<1>3. UNCHANGED <<active, total, tainted, reached, route, pending, request, answer>>
  BY DEF TakeStatus, MM!ReadStatus, CM!OnMissionStatus, MM!control, MM!history, call
<1>4. \/ state' = state
      \/ state = "RUNNING" /\ state' = status /\ status \in {"SUCCEEDED", "FAILED", "ABORTED"}
  BY DEF TakeStatus, CM!OnMissionStatus, CM!Relevant, CM!Terminal, CM!SetState
<1>5. Call'
  BY <1>3 DEF StackInv, Call
<1>6. Together'
  <2>1. /\ active => status = "RUNNING"
        /\ status = "SUCCEEDED" /\ ~tainted => reached = 0 .. total - 1
    BY OfTheMission DEF StackInv
  <2>2. state = "RUNNING" => answer # "accepted"
    BY OfTheTask DEF StackInv, Call
  <2> QED BY <1>3, <1>4, <2>1, <2>2 DEF StackInv, Together, Expecting, SuccessIsEarned
<1> QED BY <1>2, <1>5, <1>6 DEF StackInv

---------------------------------------------------------------------------
LEMMA StackStarts == ASSUME Init PROVE StackInv
<1>1. Mission!IInv
  <2>1. Mission!Init
    BY SameMission DEF Init
  <2>2. Mission!Init => Mission!IInv
    BY Mission!InvInit, Constants
  <2> QED BY <2>1, <2>2
<1>2. CMInv
  BY CMInit DEF Init
<1>3. Call /\ Together
  BY MaxRouteAssumption
     DEF Init, MM!Init, CM!Init, Call, Together, Expecting, SuccessIsEarned
<1> QED BY <1>1, <1>2, <1>3 DEF StackInv

LEMMA StackStep == ASSUME StackInv, [Next]_vars PROVE StackInv'
<1>1. CASE UNCHANGED vars
  <2>1. UNCHANGED MM!vars /\ UNCHANGED CM!vars
    BY <1>1 DEF vars, missionVars, competitionVars, MM!vars, CM!vars, MM!control,
           MM!bypass, MM!topic, MM!external, MM!history
  <2>2. Mission!IInv' /\ CMInv'
    BY <2>1, MissionKeeps, CompetitionKeeps DEF StackInv
  <2>3. Call' /\ Together'
    BY <1>1 DEF vars, missionVars, competitionVars, call, StackInv, Call, Together,
           Expecting, SuccessIsEarned
  <2> QED BY <2>2, <2>3 DEF StackInv
<1> QED BY <1>1, MissionAloneKeeps, CompetitionAloneKeeps, RequestMissionKeeps,
           ServeRequestKeeps, TakeAnswerKeeps, TakeStatusKeeps DEF Next

(* The inductive invariant of both nodes and what is between them.         *)
THEOREM StackInvariant == Spec => []StackInv
<1> QED BY StackStarts, StackStep, PTL DEF Spec

(* mission_manager never refuses a start of competition_manager: no mission *)
(* is running when one is requested.                                       *)
THEOREM NeverRefusedHolds == Spec => []NeverRefused
<1>1. StackInv => NeverRefused
  BY DEF StackInv, Call, NeverRefused
<1> QED BY <1>1, StackInvariant, PTL

(* A task with waypoints that SUCCEEDED had each of them reached, by goals  *)
(* of the mission that was started for it.                                 *)
THEOREM SuccessHolds == Spec => []SuccessIsEarned
<1>1. StackInv => SuccessIsEarned
  BY DEF StackInv, Together
<1> QED BY <1>1, StackInvariant, PTL

(* Under a real mission manager, and with it, the task keeps its lifecycle. *)
THEOREM LifecycleHolds == Spec => KeepsLifecycle
<1>1. Init => CM!Lifecycle!Init
  BY DEF Init, CM!Init, CM!Lifecycle!Init
<1>2. StackInv /\ [Next]_vars => [CM!Lifecycle!Next]_(CM!Lifecycle!vars)
  <2> SUFFICES ASSUME StackInv, [Next]_vars PROVE [CM!Lifecycle!Next]_(CM!Lifecycle!vars)
    OBVIOUS
  <2>1. answer \in {"none", "failed", "refused", "accepted"} /\ status \in CM!MissionStates
    BY OfTheMission DEF StackInv, Call
  <2>2. [CM!Next]_(CM!vars)
    BY <2>1 DEF Next, vars, MissionAlone, CompetitionAlone, RequestMission, ServeRequest,
           TakeAnswer, TakeStatus, competitionVars, CM!vars, CM!Next, CM!Operator
  <2> QED BY <2>2, LifecycleStep DEF StackInv
<1> QED BY <1>1, <1>2, StackInvariant, PTL
        DEF Spec, KeepsLifecycle, CM!KeepsLifecycle, CM!Lifecycle!Spec
=============================================================================
