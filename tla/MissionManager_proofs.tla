------------------------ MODULE MissionManager_proofs ------------------------
(***************************************************************************)
(* Proofs about MissionManager, for any set of outstanding chains and      *)
(* missions of any length.  The invariant IInv says what one mission that  *)
(* began with nothing outstanding looks like; nothing is claimed of a      *)
(* tainted one.  Of the others it says what the mapping onto               *)
(* WaypointMission needs, which is constant while a mission is tainted.    *)
(***************************************************************************)
EXTENDS MissionManagerRefinement, FiniteSetTheorems, TLAPS

LEMMA TypeInit == Init => TypeOK
<1> USE NoneAssumption, MaxWaypointsAssumption
<1> SUFFICES ASSUME Init PROVE TypeOK
  OBVIOUS
<1>1. jobs \in [JobIds -> Job]
  BY DEF Init, FreeJob, Job, Phases
<1>2. 0 \in 0..MaxWaypoints
  OBVIOUS
<1>3. QED BY <1>1, <1>2 DEF Init, TypeOK, Status

LEMMA TypeStep == TypeOK /\ [Next]_vars => TypeOK'
<1> USE NoneAssumption, MaxWaypointsAssumption
<1> SUFFICES ASSUME TypeOK, [Next]_vars PROVE TypeOK'
  OBVIOUS
<1> USE DEF TypeOK, Status
<1>1. ASSUME NEW k \in 1..MaxWaypoints, Start(k) PROVE TypeOK'
  <2>1. jobs' \in [JobIds -> Job]
    BY <1>1 DEF Start, Aged, Job
  <2>2. tainted' \in BOOLEAN
    BY <1>1, Zenon DEF Start
  <2>3. total' \in 0..MaxWaypoints
    BY <1>1 DEF Start
  <2>4. QED BY <1>1, <2>1, <2>2, <2>3 DEF Start, ClearBypass, PublishStatus
<1>2. CASE Abort
  <2>1. jobs' \in [JobIds -> Job]
    BY <1>2 DEF Abort, CancelRequested, Job
  <2>2. QED BY <1>2, <2>1 DEF Abort, ClearBypass, PublishStatus, history
<1>3. CASE SetBypassTarget
  <2>1. jobs' \in [JobIds -> Job]
    BY <1>3 DEF SetBypassTarget, CancelRequested, Job
  <2>2. QED BY <1>3, <2>1 DEF SetBypassTarget, PublishStatus, control, history
<1>4. CASE Tick
  <2>1. CASE SendBypass
    <3>0. \A b \in BOOLEAN : NewJob(b) \in Job
      BY DEF NewJob, Job, Phases
    <3>1. jobs' \in [JobIds -> Job]
      BY <2>1, <3>0 DEF SendBypass, CallFromLL
    <3>2. QED BY <2>1, <3>1 DEF SendBypass, topic, history
  <2>2. CASE Complete
    BY <2>2 DEF Complete, bypass, external, history, PublishStatus
  <2>3. CASE SendNext
    <3>0. \A b \in BOOLEAN : NewJob(b) \in Job
      BY DEF NewJob, Job, Phases
    <3>1. jobs' \in [JobIds -> Job]
      BY <2>3, <3>0 DEF SendNext, CallFromLL
    <3>2. QED BY <2>3, <3>1 DEF SendNext, topic, history
  <2>4. QED BY <1>4, <2>1, <2>2, <2>3 DEF Tick
<1>5. ASSUME NEW j \in JobIds, JobStep(j) PROVE TypeOK'
  <2>1. Freed(j) \in [JobIds -> Job]
    BY DEF Freed, FreeJob, Job, Phases, Outcomes
  <2>2. ASSUME FailMission, jobs' = Freed(j) PROVE TypeOK'
    BY <2>1, <2>2 DEF FailMission, ClearBypass, PublishStatus, history
  <2>3. CASE OnLL(j)
    <3>1. [jobs EXCEPT ![j].phase = "goal"] \in [JobIds -> Job]
      BY DEF Job, Phases
    <3>2. QED BY <2>2, <2>3, <3>1 DEF OnLL, control, bypass, topic, history
  <2>4. CASE OnAccepted(j)
    <3>1. [jobs EXCEPT ![j].phase = "nav"] \in [JobIds -> Job]
      BY DEF Job, Phases
    <3>2. QED BY <2>2, <2>4, <3>1 DEF OnAccepted, control, bypass, topic, history
  <2>5. CASE OnResult(j)
    <3>1. jobs' \in [JobIds -> Job] /\ handle' = None /\ navigating' = FALSE
      BY <2>1, <2>5 DEF OnResult, GoalOver
    <3>2. CASE OnSucceeded(j)
      <4>1. reached \cup {jobs[j].wp} \in SUBSET Nat
        BY DEF Job
      <4>2. CASE BypassReached(j)
        BY <3>1, <3>2, <4>2 DEF OnSucceeded, BypassReached, PublishStatus
      <4>3. CASE WaypointReached(j)
        <5>1. reached' \in SUBSET Nat /\ idx' \in Nat
          BY <4>1, <4>3 DEF WaypointReached
        <5>2. QED BY <3>1, <3>2, <4>3, <5>1
                  DEF OnSucceeded, WaypointReached, PublishStatus, bypass
      <4>4. QED BY <3>2, <4>2, <4>3 DEF OnSucceeded
    <3>3. CASE OnCanceled(j)
      BY <3>1, <3>3 DEF OnCanceled, PauseDone, PublishStatus, bypass, topic,
         history
    <3>4. QED BY <2>5, <3>2, <3>3 DEF OnResult
  <2>6. CASE OnResultFailed(j)
    BY <2>2, <2>6 DEF OnResultFailed
  <2>7. QED BY <1>5, <2>3, <2>4, <2>5, <2>6 DEF JobStep
<1>6. ASSUME NEW j \in JobIds, Nav2Ends(j) PROVE TypeOK'
  <2>1. jobs' \in [JobIds -> Job]
    BY <1>6 DEF Nav2Ends, Outcomes, Phases, Job
  <2>2. QED BY <1>6, <2>1 DEF Nav2Ends, control, bypass, topic, history
<1>7. CASE ReadStatus
  BY <1>7 DEF ReadStatus, control, bypass, external, history
<1>8. CASE UNCHANGED vars
  BY <1>8 DEF vars, control, bypass, topic, external, history
<1>9. QED BY <1>1, <1>2, <1>3, <1>4, <1>5, <1>6, <1>7, <1>8 DEF Next

\* The node's variables and jobs have their types.
THEOREM TypeCorrect == Spec => []TypeOK
<1>1. QED BY TypeInit, TypeStep, PTL DEF Spec

-----------------------------------------------------------------------------
LEMMA InvInit == Init => IInv
<1> SUFFICES ASSUME Init PROVE Clean
  BY TypeInit DEF IInv
<1> QED BY DEF Init, Clean, OneChain, Ended, Live, FreeJob, InHand, Outcomes

LEMMA InvStep == IInv /\ [Next]_vars => IInv'
<1> SUFFICES ASSUME IInv, [Next]_vars PROVE Clean'
  BY TypeStep DEF IInv
<1> USE NoneAssumption, MaxWaypointsAssumption
<1>0. TypeOK /\ TypeOK' /\ Clean
  BY TypeStep DEF IInv
<1> USE DEF Clean, OneChain, Progress, Ended, Live, InHand, Outcomes
<1>1. ASSUME NEW k \in 1..MaxWaypoints, Start(k) PROVE Clean'
  <2>1. CASE Live # {}
    BY <1>1, <2>1 DEF Start, PublishStatus
  <2>2. CASE Live = {}
    <3>1. \A j \in JobIds : jobs[j].phase = "free"
      BY <2>2
    <3>2. jobs' = jobs
      BY <1>0, <1>1, <3>1 DEF TypeOK, Start, Aged
    <3>3. Live' = {} /\ \A j \in JobIds : jobs'[j].phase = "free"
      BY <3>1, <3>2
    <3>4. OneChain' /\ Ended'
      BY <1>1, <3>3 DEF Start, PublishStatus
    <3>5. Progress'
      BY <1>1, <3>3 DEF Start, StartAccepted
    <3>6. QED BY <1>1, <3>4, <3>5 DEF Start, PublishStatus
  <2>3. QED BY <2>1, <2>2
<1>2. CASE Abort
  BY <1>0, <1>2 DEF TypeOK, Job, Abort, CancelRequested, ClearBypass, PublishStatus, history
<1>3. CASE SetBypassTarget
  BY <1>0, <1>3 DEF TypeOK, Job, SetBypassTarget, CancelRequested, PublishStatus, control,
     history
<1>4. CASE Tick
  <2>1. CASE SendBypass
    BY <1>0, <1>4, <2>1 DEF TypeOK, Tick, TickRuns, SendBypass, CallFromLL, NewJob, topic,
       history
  <2>2. CASE Complete
    BY <1>0, <1>4, <2>2 DEF TypeOK, Tick, TickRuns, Complete, AllReached, PublishStatus,
       bypass, external, history
  <2>3. CASE SendNext
    BY <1>0, <1>4, <2>3 DEF TypeOK, Tick, TickRuns, SendNext, AllReached, CallFromLL, NewJob,
       topic, history
  <2>4. QED BY <1>4, <2>1, <2>2, <2>3 DEF Tick
<1>5. ASSUME NEW j \in JobIds, JobStep(j) PROVE Clean'
  <2>1. ASSUME FailMission, jobs' = Freed(j), jobs[j].phase # "free" PROVE Clean'
    BY <1>0, <2>1 DEF TypeOK, FailMission, ClearBypass, PublishStatus, Freed, FreeJob, history
  <2>2. CASE OnLL(j)
    <3>1. CASE FailMission /\ jobs' = Freed(j)
      BY <2>1, <2>2, <3>1 DEF OnLL
    <3>2. CASE jobs' = [jobs EXCEPT ![j].phase = "goal"]
               /\ UNCHANGED <<control, bypass, topic, handle, history>>
      BY <1>0, <2>2, <3>2 DEF TypeOK, Job, OnLL, control, bypass, topic, history
    <3>3. QED BY <2>2, <3>1, <3>2 DEF OnLL
  <2>3. CASE OnAccepted(j)
    <3>1. CASE FailMission /\ jobs' = Freed(j)
      BY <2>1, <2>3, <3>1 DEF OnAccepted
    <3>2. CASE jobs' = [jobs EXCEPT ![j].phase = "nav"] /\ handle' = j
               /\ UNCHANGED <<control, bypass, topic, history>>
      BY <1>0, <2>3, <3>2 DEF TypeOK, Job, OnAccepted, control, bypass, topic, history
    <3>3. QED BY <2>3, <3>1, <3>2 DEF OnAccepted
  <2>4. CASE OnResult(j) /\ OnSucceeded(j) /\ BypassReached(j)
    BY <1>0, <2>4 DEF TypeOK, Job, OnResult, GoalOver, OnSucceeded, BypassReached,
       PublishStatus, Freed, FreeJob
  <2>5. CASE OnResult(j) /\ OnSucceeded(j) /\ WaypointReached(j)
    <3>1. SUFFICES ASSUME ~tainted PROVE Clean'
      BY <1>0, <2>5 DEF OnSucceeded, WaypointReached, PublishStatus
    <3>2. Live' = Live \ {j} /\ \A i \in JobIds : i # j => jobs'[i] = jobs[i]
      BY <1>0, <2>5 DEF TypeOK, OnResult, Freed, FreeJob
    <3>3. Live' = {} /\ \A i \in JobIds : jobs'[i].phase = "free"
      BY <1>0, <2>5, <3>1, <3>2 DEF OnSucceeded
    <3>4. OneChain' /\ Ended'
      BY <2>5, <3>3 DEF OnResult, GoalOver, OnSucceeded, WaypointReached, PublishStatus
    <3>5. ASSUME active PROVE Progress'
      <4>1. jobs[j].wp = idx /\ idx < total /\ ~jobs[j].stale
        BY <1>0, <2>5, <3>1, <3>5 DEF OnSucceeded, WaypointReached
      <4>2. reached' = 0 .. idx' - 1 /\ idx' <= total'
        <5>1. reached' = reached \cup {idx} /\ idx' = idx + 1 /\ total' = total
          BY <2>5, <3>5, <4>1 DEF OnSucceeded, WaypointReached
        <5>2. reached = 0 .. idx - 1 /\ idx \in Nat /\ total \in Nat
          BY <1>0, <3>1, <3>5 DEF TypeOK
        <5>3. QED BY <4>1, <5>1, <5>2
      <4>3. QED BY <2>5, <3>3, <4>2 DEF OnResult, GoalOver
    <3>6. QED BY <1>0, <2>5, <3>4, <3>5 DEF OnSucceeded, WaypointReached, PublishStatus
  <2>6. CASE OnResult(j) /\ OnCanceled(j)
    BY <1>0, <2>6 DEF TypeOK, Job, OnResult, GoalOver, OnCanceled, PauseDone, PublishStatus,
       Freed, FreeJob, bypass, topic, history
  <2>7. CASE OnResultFailed(j)
    BY <2>1, <2>7 DEF OnResultFailed
  <2>8. QED BY <1>5, <2>2, <2>3, <2>4, <2>5, <2>6, <2>7
            DEF JobStep, OnResult, OnSucceeded
<1>6. ASSUME NEW j \in JobIds, Nav2Ends(j) PROVE Clean'
  BY <1>0, <1>6 DEF TypeOK, Job, Nav2Ends, control, bypass, topic, history
<1>7. CASE ReadStatus
  BY <1>0, <1>7 DEF ReadStatus, control, bypass, external, history
<1>8. CASE UNCHANGED vars
  BY <1>0, <1>8 DEF vars, control, bypass, topic, external, history
<1>9. QED BY <1>1, <1>2, <1>3, <1>4, <1>5, <1>6, <1>7, <1>8 DEF Next, IInv

\* The invariant itself, for every set of chains and every mission length.
THEOREM Invariant == Spec => []IInv
<1>1. QED BY InvInit, InvStep, PTL DEF Spec

-----------------------------------------------------------------------------
\* One chain at a time: _navigating is the whole truth about what is out.
THEOREM SingleFlightHolds == Spec => []SingleFlight
<1>1. IInv => SingleFlight
  BY DEF IInv, Clean, OneChain, Progress, SingleFlight
<1>2. QED BY <1>1, Invariant, PTL

\* The handle that abort and bypass cancel is the goal in flight.
THEOREM HandleHolds == Spec => []HandleIsTheGoal
<1>1. IInv => HandleIsTheGoal
  BY NoneAssumption DEF IInv, Clean, OneChain, HandleIsTheGoal
<1>2. QED BY <1>1, Invariant, PTL

\* SUCCEEDED is never reported with a waypoint left out.
THEOREM SuccessHolds == Spec => []SuccessMeansVisited
<1>1. IInv => SuccessMeansVisited
  BY DEF IInv, Clean, Ended, SuccessMeansVisited
<1>2. QED BY <1>1, Invariant, PTL

\* SUCCEEDED and FAILED leave nothing at Nav2.
THEOREM EndHolds == Spec => []EndLeavesNothingBehind
<1>1. IInv => EndLeavesNothingBehind
  BY DEF IInv, Clean, Ended, EndLeavesNothingBehind
<1>2. QED BY <1>1, Invariant, PTL

\* After abort only a goal accepted too late runs on uncancelled.
THEOREM LateGoalsHold == Spec => []OnlyLateGoalsSurvive
<1>1. IInv => OnlyLateGoalsSurvive
  BY DEF IInv, Clean, OneChain, OnlyLateGoalsSurvive, Live
<1>2. QED BY <1>1, Invariant, PTL

-----------------------------------------------------------------------------
\* A step of an active mission keeps a requested bypass, carries it out, or ends
\* the bypass under way.
LEMMA BypassStep ==
    ASSUME IInv, [Next]_vars, active, active', ~tainted,
           bypassPending, bypassTarget
    PROVE  \/ bypassTarget' /\ (bypassPending' \/ SentNow)
           \/ bypassActive /\ OtherBypassOver
<1>1. ASSUME NEW k \in 1..MaxWaypoints, Start(k) PROVE FALSE
  BY <1>1 DEF Start, StartAccepted
<1>2. ~Abort
  BY DEF Abort
<1>3. CASE SetBypassTarget
  BY <1>3 DEF SetBypassTarget
<1>4. CASE Tick
  <2>1. CASE SendBypass
    <3>1. bypassTarget' /\ CallFromLL(TRUE)
      BY <2>1 DEF SendBypass
    <3>2. PICK j \in JobIds \ Live : jobs' = [jobs EXCEPT ![j] = NewJob(TRUE)]
      BY <3>1 DEF CallFromLL
    <3>3. jobs'[j] = NewJob(TRUE)
      BY <3>2 DEF IInv, TypeOK
    <3> QED BY <3>1, <3>3 DEF SentNow
  <2> QED BY <1>4, <2>1 DEF Tick, Complete, SendNext
<1>5. ASSUME NEW j \in JobIds, JobStep(j)
      PROVE  (bypassTarget' /\ bypassPending') \/ (bypassActive /\ OtherBypassOver)
  <2>1. ~FailMission
    BY DEF FailMission
  <2>2. CASE OnLL(j)
    BY <2>1, <2>2 DEF OnLL, bypass
  <2>3. CASE OnAccepted(j)
    BY <2>1, <2>3 DEF OnAccepted, bypass
  <2>4. CASE OnResult(j) /\ OnSucceeded(j)
    <3>1. CASE jobs[j].bypass
      <4>1. jobs[j].phase = "succeeded" /\ j \in Live
        BY <2>4 DEF OnSucceeded, Live
      <4>2. jobs'[j] = FreeJob
        BY <2>4 DEF OnResult, Freed, IInv, TypeOK
      <4>3. bypassActive
        BY <3>1, <4>1 DEF IInv, Clean, Progress
      <4> QED BY <3>1, <4>1, <4>2, <4>3 DEF OtherBypassOver
    <3>2. CASE ~jobs[j].bypass
      BY <2>4, <3>2 DEF OnSucceeded, BypassReached, WaypointReached, bypass
    <3> QED BY <3>1, <3>2
  <2>5. CASE OnCanceled(j)
    BY <2>5 DEF OnCanceled, PauseDone, bypass
  <2>6. QED BY <1>5, <2>1, <2>2, <2>3, <2>4, <2>5
            DEF JobStep, OnResult, OnResultFailed
<1>6. ASSUME NEW j \in JobIds, Nav2Ends(j) PROVE bypassTarget' /\ bypassPending'
  BY <1>6 DEF Nav2Ends, bypass
<1>7. CASE ReadStatus
  BY <1>7 DEF ReadStatus, bypass
<1>8. CASE UNCHANGED vars
  BY <1>8 DEF vars, bypass
<1>9. QED BY <1>1, <1>2, <1>3, <1>4, <1>5, <1>6, <1>7, <1>8 DEF Next

\* A requested bypass is carried out, unless the mission ends or another bypass,
\* under way when it was accepted, is completed before (_on_result).
THEOREM BypassHolds == Spec => BypassLostOnlyToAnother
<1>1. IInv /\ [Next]_vars =>
        [active /\ active' /\ ~tainted /\ bypassPending /\ bypassTarget =>
           \/ bypassTarget' /\ (bypassPending' \/ SentNow)
           \/ bypassActive /\ OtherBypassOver]_vars
  BY BypassStep
<1>2. QED BY <1>1, Invariant, PTL DEF Spec, BypassLostOnlyToAnother

-----------------------------------------------------------------------------
\* MissionManager implements WaypointMission.
Grounded == IInv /\ (status = "SUCCEEDED" => total > 0) /\ (active => total > 0)

LEMMA GroundedInit == Init => Grounded
<1>1. QED BY InvInit DEF Init, Grounded

\* Only Start sets the length and the taint of a mission, and only an active
\* mission comes to SUCCEEDED.
LEMMA Steady ==
    ASSUME [Next]_vars, ~\E k \in 1..MaxWaypoints : Start(k)
    PROVE  /\ total' = total /\ tainted' = tainted
           /\ active' => active
           /\ status' = "SUCCEEDED" => active \/ status = "SUCCEEDED"
<1> USE DEF control, bypass, topic, external, history, PublishStatus
<1>1. CASE Abort
  BY <1>1 DEF Abort
<1>2. CASE SetBypassTarget
  BY <1>2 DEF SetBypassTarget
<1>3. CASE Tick
  BY <1>3 DEF Tick, TickRuns, SendBypass, Complete, SendNext
<1>4. ASSUME NEW j \in JobIds, JobStep(j)
      PROVE  /\ total' = total /\ tainted' = tainted
             /\ active' => active
             /\ status' = "SUCCEEDED" => active \/ status = "SUCCEEDED"
  BY <1>4 DEF JobStep, OnLL, OnAccepted, OnResult, OnSucceeded, BypassReached,
     WaypointReached, OnCanceled, OnResultFailed, FailMission
<1>5. ASSUME NEW j \in JobIds, Nav2Ends(j)
      PROVE  UNCHANGED <<control, status, history>>
  BY <1>5 DEF Nav2Ends
<1>6. CASE ReadStatus \/ UNCHANGED vars
  BY <1>6 DEF ReadStatus, vars
<1>7. QED BY <1>1, <1>2, <1>3, <1>4, <1>5, <1>6 DEF Next

LEMMA GroundedStep == Grounded /\ [Next]_vars => Grounded'
<1> SUFFICES ASSUME Grounded, [Next]_vars PROVE Grounded'
  OBVIOUS
<1>1. IInv'
  BY InvStep DEF Grounded
<1>2. ASSUME NEW k \in 1..MaxWaypoints, Start(k) PROVE Grounded'
  <2>1. total' > 0
    BY <1>2, MaxWaypointsAssumption DEF Start
  <2>2. QED BY <1>1, <2>1 DEF Grounded
<1>3. CASE ~\E k \in 1..MaxWaypoints : Start(k)
  BY <1>1, <1>3, Steady DEF Grounded
<1>4. QED BY <1>2, <1>3

LEMMA SizeOfReached ==
    ASSUME NEW n \in Nat PROVE Cardinality(0 .. n - 1) = n
<1>1. QED BY FS_Interval

\* What the steps that neither start nor end anything do to the mapping.
LEMMA Unseen ==
    ASSUME UNCHANGED <<active, total, reached, tainted>>,
           active \/ (status = "SUCCEEDED" <=> status' = "SUCCEEDED")
    PROVE  UNCHANGED Contract!vars
<1>1. QED BY DEF Contract!vars, MissionPhase, Promised

\* Nothing is seen of a mission that is tainted and stays so.
LEMMA TaintedMaps ==
    ASSUME tainted, tainted'
    PROVE  UNCHANGED Contract!vars
<1>1. QED BY DEF Contract!vars, MissionPhase, Promised

\* A failure is a stop of the mission that runs, and nothing to one that has
\* ended.
LEMMA FailureMaps ==
    ASSUME Grounded, ~tainted, FailMission, Live # {}
    PROVE  [Contract!Next]_(Contract!vars)
<1>1. status # "SUCCEEDED"
  BY DEF Grounded, IInv, Clean, Ended
<1>2. CASE active
  BY <1>2 DEF Grounded, FailMission, PublishStatus, history, MissionPhase, Promised,
     Contract!Next, Contract!Stop
<1>3. CASE ~active
  BY <1>1, <1>3, Unseen DEF Grounded, IInv, TypeOK, FailMission, PublishStatus,
     history
<1>4. QED BY <1>2, <1>3

\* A start on nothing begins a mission, one on leftovers an unpromised one.
LEMMA StartMaps ==
    ASSUME NEW k \in 1..MaxWaypoints, Start(k)
    PROVE  [Contract!Next]_(Contract!vars)
<1> USE DEF Promised
<1>1. MissionPhase # "running"
  BY DEF Start, StartAccepted, MissionPhase
<1>2. CASE Live = {}
  <2>1. ~tainted'
    BY <1>2, Zenon DEF Start
  <2>2. Cardinality(reached') = 0
    BY FS_EmptySet DEF Start
  <2>3. total' \in Nat \ {0} /\ active'
    BY MaxWaypointsAssumption DEF Start
  <2>4. Contract!Begin
    BY <1>1, <2>1, <2>2, <2>3 DEF MissionPhase, Contract!Begin
  <2>5. QED BY <2>4 DEF Contract!Next
<1>3. CASE Live # {}
  <2>1. tainted'
    BY <1>3, Zenon DEF Start
  <2>2. Contract!BeginUnpromised
    BY <1>1, <2>1 DEF MissionPhase, Contract!BeginUnpromised
  <2>3. QED BY <2>2 DEF Contract!Next
<1>4. QED BY <1>2, <1>3

\* While a mission is promised, every step of the node that starts none is a
\* step of the abstract mission or a stutter.
LEMMA PromisedMaps ==
    ASSUME Grounded, Grounded', [Next]_vars, ~tainted, ~tainted',
           ~\E k \in 1..MaxWaypoints : Start(k)
    PROVE  [Contract!Next]_(Contract!vars)
<1> USE DEF Promised
<1>2. CASE Abort
  <2>1. Contract!Stop
    BY <1>2 DEF Grounded, Abort, PublishStatus, history, MissionPhase, Contract!Stop
  <2>2. QED BY <2>1 DEF Contract!Next
<1>3. CASE SetBypassTarget
  BY <1>3, Unseen DEF SetBypassTarget, control, history
<1>4. CASE Tick
  <2>1. CASE SendBypass
    BY <1>4, <2>1, Unseen DEF Tick, TickRuns, SendBypass, topic, history
  <2>2. CASE Complete
    <3>1. total \in Nat /\ total > 0 /\ active
      BY <1>4, MaxWaypointsAssumption
         DEF Grounded, IInv, TypeOK, Tick, TickRuns
    <3>2. reached = 0 .. total - 1
      BY <2>2, <3>1 DEF Grounded, IInv, Clean, Progress, TypeOK, Complete, AllReached
    <3>3. Cardinality(reached) = total
      BY <3>1, <3>2, SizeOfReached
    <3>4. Contract!Succeed
      BY <2>2, <3>1, <3>3 DEF Complete, PublishStatus, history, MissionPhase,
         Contract!Succeed
    <3>5. QED BY <3>4 DEF Contract!Next
  <2>3. CASE SendNext
    BY <1>4, <2>3, Unseen DEF Tick, TickRuns, SendNext, topic, history
  <2>4. QED BY <1>4, <2>1, <2>2, <2>3 DEF Tick
<1>5. ASSUME NEW j \in JobIds, JobStep(j)
      PROVE  [Contract!Next]_(Contract!vars)
  <2>1. Live # {}
    BY <1>5 DEF JobStep, OnLL, OnAccepted, OnResult, OnSucceeded, OnCanceled,
       OnResultFailed, Live
  <2>2. active \/ status # "SUCCEEDED"
    BY <2>1 DEF Grounded, IInv, Clean, Ended
  <2>3. CASE OnLL(j)
    BY <2>1, <2>3, FailureMaps, Unseen DEF OnLL, control, topic, history
  <2>4. CASE OnAccepted(j)
    BY <2>1, <2>4, FailureMaps, Unseen DEF OnAccepted, control, topic, history
  <2>5. CASE OnSucceeded(j) /\ BypassReached(j)
    BY <2>2, <2>5, Unseen DEF OnSucceeded, BypassReached, PublishStatus
  <2>6. CASE OnSucceeded(j) /\ WaypointReached(j)
    <3>1. CASE ~active
      BY <2>2, <2>6, <3>1, Unseen DEF OnSucceeded, WaypointReached, PublishStatus
    <3>2. CASE active
      <4>1. /\ idx \in Nat /\ total \in Nat
            /\ reached = 0 .. idx - 1
            /\ jobs[j].wp = idx /\ idx < total /\ ~jobs[j].stale
        BY <2>6, <3>2, MaxWaypointsAssumption
           DEF Grounded, IInv, Clean, OneChain, Progress, Live, TypeOK,
               OnSucceeded, WaypointReached
      <4>2. reached' = 0 .. (idx + 1) - 1
        <5>1. reached' = reached \cup {idx}
          BY <2>6, <3>2, <4>1 DEF WaypointReached
        <5>2. QED BY <4>1, <5>1
      <4>3. Cardinality(reached) = idx /\ Cardinality(reached') = idx + 1
        <5>1. idx + 1 \in Nat
          BY <4>1
        <5>2. QED BY <4>1, <4>2, <5>1, SizeOfReached
      <4>4. Contract!ReachWaypoint
        BY <2>6, <3>2, <4>1, <4>3
           DEF OnSucceeded, MissionPhase, Contract!ReachWaypoint
      <4>5. QED BY <4>4 DEF Contract!Next
    <3>3. QED BY <3>1, <3>2
  <2>7. CASE OnCanceled(j)
    BY <2>2, <2>7, Unseen DEF OnCanceled, PublishStatus, topic, history
  <2>8. CASE OnResultFailed(j)
    BY <2>1, <2>8, FailureMaps DEF OnResultFailed
  <2>9. QED BY <1>5, <2>3, <2>4, <2>5, <2>6, <2>7, <2>8
            DEF JobStep, OnResult, OnSucceeded
<1>6. ASSUME NEW j \in JobIds, Nav2Ends(j) PROVE UNCHANGED Contract!vars
  BY <1>6, Unseen DEF Nav2Ends, control, topic, history
<1>7. CASE ReadStatus
  BY <1>7, Unseen DEF ReadStatus, control, history
<1>8. CASE UNCHANGED vars
  BY <1>8, Unseen DEF vars, control, topic, history
<1>9. QED BY <1>2, <1>3, <1>4, <1>5, <1>6, <1>7, <1>8
          DEF Next

\* MissionManager is a WaypointMission: a mission ends once, succeeds only with
\* every waypoint reached, and moves on only while it runs.
THEOREM ImplementsContract == Spec => KeepsContract
<1>1. Init => Contract!Init
  BY FS_EmptySet DEF Init, MissionPhase, Promised, Contract!Init
<1>2. Grounded /\ Grounded' /\ [Next]_vars => [Contract!Next]_(Contract!vars)
  <2> SUFFICES ASSUME Grounded, Grounded', [Next]_vars
               PROVE  [Contract!Next]_(Contract!vars)
    OBVIOUS
  <2>1. CASE \E k \in 1..MaxWaypoints : Start(k)
    BY <2>1, StartMaps
  <2>2. CASE ~\E k \in 1..MaxWaypoints : Start(k)
    <3>1. tainted' = tainted
      BY <2>2, Steady
    <3>2. QED BY <2>2, <3>1, TaintedMaps, PromisedMaps
  <2>3. QED BY <2>1, <2>2
<1>3. QED BY <1>1, <1>2, GroundedInit, GroundedStep, PTL
          DEF Spec, KeepsContract, Contract!Spec
=============================================================================
