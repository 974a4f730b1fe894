------------------------ MODULE DockingStack_proofs ------------------------
(***************************************************************************)
(* A docking, for every choice of durations and however late the ticks     *)
(* come: first boat_bt alone, its controller inside its tree, then with    *)
(* competition_manager, where each node does what it does alone.           *)
(***************************************************************************)
EXTENDS DockingStack, TLAPS

\* What ties the clocks, the flags and the last command together.
Timed ==
    /\ phase = "DOCKED" /\ ~reversing => command = "stop" /\ elapsed <= still
    /\ reversing /\ ~complete => backed <= elapsed
    /\ command = "reverse" => reversing /\ ~complete /\ elapsed < Reverse
    /\ command \in {"align", "approach", "enter"} => phase # "DOCKED"

ControllerInv ==
    /\ BT!ControllerTypeOK
    /\ Timed
    /\ BT!SteersByFreshReading
    /\ BT!WaitsStanding
    /\ BT!CompleteIsEarned
    /\ BT!ReverseIsBounded

\* A motion command needs ExecuteDocking RUNNING in a tree that ticks: then the
\* next tick is the controller's, and no command stands while the clock goes on.
TreeInv ==
    /\ BT!TypeOK
    /\ ControllerInv
    /\ BT!OnlyDockingDrives
    /\ command # "stop" => odom

-----------------------------------------------------------------------------
\* Clocks stay in range, do not run backwards and keep their order.
LEMMA LaterFacts ==
    ASSUME NEW a \in 0..Horizon, NEW b \in 0..Horizon, NEW d \in 0..MaxLate
    PROVE  /\ BT!Later(a, d) \in 0..Horizon
           /\ a <= BT!Later(a, d)
           /\ BT!Later(a, d) <= a + d
           /\ a <= b => BT!Later(a, d) <= BT!Later(b, d)
           /\ BT!Later(a, 0) = a
  BY DurationsAssumption, SMT DEF BT!Later, DurationsAssumption

\* One cycle of the controller keeps ControllerInv, and a completed docking stands still.
LEMMA CycleKeepsControllerInv ==
    ASSUME ControllerInv, NEW d \in 1..MaxLate, BT!Cycle(d)
    PROVE  /\ ControllerInv'
           /\ complete' => command' = "stop"
           /\ ~reversing /\ reversing' => still' >= Hold
  <1> USE DEF DurationsAssumption
  <1> USE DurationsAssumption
  <1>a. d \in 0..MaxLate
    OBVIOUS
  <1>b. /\ elapsed \in 0..Horizon /\ still \in 0..Horizon /\ backed \in 0..Horizon
        /\ target.age \in 0..Horizon /\ 0 \in 0..Horizon
    BY DEF ControllerInv, BT!ControllerTypeOK
  <1>c. /\ BT!Later(elapsed, d) \in 0..Horizon /\ elapsed <= BT!Later(elapsed, d)
        /\ BT!Later(still, d) \in 0..Horizon
        /\ BT!Later(backed, d) \in 0..Horizon /\ BT!Later(backed, d) <= backed + d
        /\ BT!Later(target.age, d) \in 0..Horizon
        /\ elapsed <= still => BT!Later(elapsed, d) <= BT!Later(still, d)
        /\ backed <= elapsed => BT!Later(backed, d) <= BT!Later(elapsed, d)
    BY <1>a, <1>b, LaterFacts
  <1>d. target' = [target EXCEPT !.age = BT!Later(target.age, d)]
    BY DEF BT!Cycle, BT!Grow, BT!Restart, BT!LostTarget, BT!Steer, BT!Dock, BT!StandInDock, BT!BackOut,
           BT!Finish, BT!Age
  <1>e. target \in [usable: BOOLEAN, age: 0..Horizon, ahead: BOOLEAN, entering: BOOLEAN]
    BY DEF ControllerInv, BT!ControllerTypeOK
  <1>f. /\ target' \in [usable: BOOLEAN, age: 0..Horizon, ahead: BOOLEAN, entering: BOOLEAN]
        /\ target'.age = BT!Later(target.age, d)
    BY <1>c, <1>d, <1>e
  <1>1. CASE complete /\ BT!Grow(d) /\ BT!Publish("stop", d)
             /\ UNCHANGED <<phase, loss, reversing, complete>>
    BY <1>1, <1>b, <1>c, <1>f, SMTT(30)
    DEF BT!Grow, BT!Publish, BT!Age, ControllerInv, BT!ControllerTypeOK, Timed, BT!SteersByFreshReading,
        BT!WaitsStanding, BT!CompleteIsEarned, BT!ReverseIsBounded, BT!Approaching,
        BT!DockingStates, BT!Commands
  <1>2. CASE ~complete /\ BT!LostTarget(d)
    <2> USE <1>2, <1>b, <1>c, <1>f DEF BT!LostTarget, BT!LostCommand, BT!Restart, BT!Grow, BT!Publish, BT!Age
    <2>1. BT!ControllerTypeOK'
      BY DEF ControllerInv, BT!ControllerTypeOK, Timed, BT!Approaching, BT!DockingStates, BT!Commands
    <2>2. Timed'
      BY DEF ControllerInv, BT!ControllerTypeOK, Timed, BT!Approaching
    <2>3. BT!SteersByFreshReading' /\ BT!WaitsStanding' /\ BT!CompleteIsEarned'
      BY DEF ControllerInv, BT!ControllerTypeOK, Timed, BT!SteersByFreshReading, BT!WaitsStanding,
             BT!CompleteIsEarned, BT!Approaching
    <2>4. BT!ReverseIsBounded'
      BY DEF ControllerInv, BT!ControllerTypeOK, Timed, BT!ReverseIsBounded
    <2>5. complete' => command' = "stop"
      BY DEF ControllerInv, BT!ControllerTypeOK
    <2>6. ~reversing /\ reversing' => still' >= Hold
      BY DEF ControllerInv, BT!ControllerTypeOK, Timed
    <2> QED
      BY <2>1, <2>2, <2>3, <2>4, <2>5, <2>6 DEF ControllerInv
  <1>3. CASE ~complete /\ BT!Steer(d)
    <2> USE <1>3, <1>b, <1>c, <1>f DEF BT!Steer, BT!EntryBegins, BT!Settled, BT!Drive,
                                   BT!SteeringFresh, BT!Restart, BT!Grow, BT!Publish, BT!Age
    <2>1. BT!ControllerTypeOK'
      BY DEF ControllerInv, BT!ControllerTypeOK, Timed, BT!Approaching, BT!DockingStates, BT!Commands
    <2>2. Timed'
      BY DEF ControllerInv, BT!ControllerTypeOK, Timed, BT!Approaching
    <2>3. BT!SteersByFreshReading' /\ BT!WaitsStanding' /\ BT!CompleteIsEarned'
      BY DEF ControllerInv, BT!ControllerTypeOK, Timed, BT!SteersByFreshReading, BT!WaitsStanding,
             BT!CompleteIsEarned, BT!Approaching
    <2>4. BT!ReverseIsBounded'
      BY DEF ControllerInv, BT!ControllerTypeOK, Timed, BT!ReverseIsBounded
    <2>5. complete' => command' = "stop"
      BY DEF ControllerInv, BT!ControllerTypeOK
    <2>6. ~reversing /\ reversing' => still' >= Hold
      BY DEF ControllerInv, BT!ControllerTypeOK, Timed
    <2> QED
      BY <2>1, <2>2, <2>3, <2>4, <2>5, <2>6 DEF ControllerInv
  <1>4. CASE ~complete /\ BT!Dock(d)
    <2> USE <1>4, <1>b, <1>c, <1>f DEF BT!Dock, BT!EntryOver, BT!Restart, BT!Publish, BT!Age
    <2>1. BT!ControllerTypeOK'
      BY DEF ControllerInv, BT!ControllerTypeOK, Timed, BT!Approaching, BT!DockingStates, BT!Commands
    <2>2. Timed'
      BY DEF ControllerInv, BT!ControllerTypeOK, Timed, BT!Approaching
    <2>3. BT!SteersByFreshReading' /\ BT!WaitsStanding' /\ BT!CompleteIsEarned'
      BY DEF ControllerInv, BT!ControllerTypeOK, Timed, BT!SteersByFreshReading, BT!WaitsStanding,
             BT!CompleteIsEarned, BT!Approaching
    <2>4. BT!ReverseIsBounded'
      BY DEF ControllerInv, BT!ControllerTypeOK, Timed, BT!ReverseIsBounded
    <2>5. complete' => command' = "stop"
      BY DEF ControllerInv, BT!ControllerTypeOK
    <2>6. ~reversing /\ reversing' => still' >= Hold
      BY DEF ControllerInv, BT!ControllerTypeOK, Timed
    <2> QED
      BY <2>1, <2>2, <2>3, <2>4, <2>5, <2>6 DEF ControllerInv
  <1>5. CASE ~complete /\ BT!StandInDock(d)
    BY <1>5, <1>b, <1>c, <1>f, SMTT(30)
    DEF BT!StandInDock, BT!Grow, BT!Publish, BT!Age, ControllerInv, BT!ControllerTypeOK, Timed,
        BT!SteersByFreshReading, BT!WaitsStanding, BT!CompleteIsEarned, BT!ReverseIsBounded,
        BT!Approaching, BT!DockingStates, BT!Commands
  <1>6. CASE ~complete /\ BT!BackOut(d)
    <2> USE <1>6, <1>b, <1>c, <1>f DEF BT!BackOut, BT!HoldOver, BT!Restart, BT!Grow, BT!Publish, BT!Age
    <2>1. BT!ControllerTypeOK'
      BY DEF ControllerInv, BT!ControllerTypeOK, Timed, BT!Approaching, BT!DockingStates, BT!Commands
    <2>2. Timed'
      BY DEF ControllerInv, BT!ControllerTypeOK, Timed, BT!Approaching
    <2>3. BT!SteersByFreshReading' /\ BT!WaitsStanding' /\ BT!CompleteIsEarned'
      BY DEF ControllerInv, BT!ControllerTypeOK, Timed, BT!SteersByFreshReading, BT!WaitsStanding,
             BT!CompleteIsEarned, BT!Approaching
    <2>4. BT!ReverseIsBounded'
      BY DEF ControllerInv, BT!ControllerTypeOK, Timed, BT!ReverseIsBounded
    <2>5. complete' => command' = "stop"
      BY DEF ControllerInv, BT!ControllerTypeOK
    <2>6. ~reversing /\ reversing' => still' >= Hold
      <3> SUFFICES ASSUME ~reversing
                   PROVE  still' >= Hold
        OBVIOUS
      <3>1. BT!Later(elapsed, d) >= Hold
        OBVIOUS
      <3>2. elapsed <= still /\ still' = BT!Later(still, d)
        BY DEF ControllerInv, Timed
      <3> QED
        BY <3>1, <3>2
    <2> QED
      BY <2>1, <2>2, <2>3, <2>4, <2>5, <2>6 DEF ControllerInv
  <1>7. CASE ~complete /\ BT!Finish(d)
    BY <1>7, <1>b, <1>c, <1>f, SMTT(30)
    DEF BT!Finish, BT!Grow, BT!Publish, BT!Age, ControllerInv, BT!ControllerTypeOK, Timed,
        BT!SteersByFreshReading, BT!WaitsStanding, BT!CompleteIsEarned, BT!ReverseIsBounded,
        BT!Approaching, BT!DockingStates, BT!Commands
  <1> QED
    BY <1>1, <1>2, <1>3, <1>4, <1>5, <1>6, <1>7 DEF BT!Cycle

-----------------------------------------------------------------------------
\* A cycle in which the controller does not run finds the boat standing.
LEMMA IdleKeepsControllerInv ==
    ASSUME ControllerInv, NEW d \in 1..MaxLate, command = "stop", BT!Idle(d)
    PROVE  ControllerInv' /\ command' = "stop"
  <1> USE DurationsAssumption
  <1>1. d \in 0..MaxLate
    BY DEF DurationsAssumption
  <1>2. /\ elapsed \in 0..Horizon /\ still \in 0..Horizon /\ backed \in 0..Horizon
        /\ target \in [usable: BOOLEAN, age: 0..Horizon, ahead: BOOLEAN, entering: BOOLEAN]
    BY DEF ControllerInv, BT!ControllerTypeOK
  <1>3. /\ BT!Later(elapsed, d) \in 0..Horizon /\ elapsed <= BT!Later(elapsed, d)
        /\ BT!Later(still, d) \in 0..Horizon
        /\ BT!Later(target.age, d) \in 0..Horizon
        /\ elapsed <= still => BT!Later(elapsed, d) <= BT!Later(still, d)
    BY <1>1, <1>2, LaterFacts
  <1>4. target' \in [usable: BOOLEAN, age: 0..Horizon, ahead: BOOLEAN, entering: BOOLEAN]
    BY <1>2, <1>3 DEF BT!Idle, BT!Grow, BT!Age
  <1>5. elapsed' = BT!Later(elapsed, d) /\ still' = BT!Later(still, d) /\ backed' = backed
    BY DEF BT!Idle, BT!Grow, BT!Publish
  <1> QED
    BY <1>2, <1>3, <1>4, <1>5
    DEF BT!Idle, BT!Publish, ControllerInv, BT!ControllerTypeOK, Timed, BT!SteersByFreshReading,
        BT!WaitsStanding, BT!CompleteIsEarned, BT!ReverseIsBounded, BT!Approaching,
        DurationsAssumption

\* Stopping the boat between two cycles.
LEMMA StopKeepsControllerInv ==
    ASSUME ControllerInv, BT!StopBoat \/ BT!Reset
    PROVE  ControllerInv' /\ command' = "stop"
  <1> USE DurationsAssumption DEF DurationsAssumption
  <1>1. /\ 0 \in 0..MaxLate /\ still \in 0..Horizon /\ backed \in 0..Horizon
        /\ 0 \in 0..Horizon
    BY DEF ControllerInv, BT!ControllerTypeOK
  <1>2. BT!Later(still, 0) = still /\ BT!Later(backed, 0) = backed
    BY <1>1, LaterFacts
  <1>3. still' \in 0..Horizon /\ backed' = backed /\ command' = "stop" /\ target' = target
    BY <1>1, <1>2 DEF BT!StopBoat, BT!Reset, BT!Publish
  <1>4. CASE BT!StopBoat
    <2>1. phase = "DOCKED" /\ ~reversing => still' = still
      BY <1>2, <1>4 DEF BT!StopBoat, BT!Publish, ControllerInv, Timed
    <2> QED
      BY <1>1, <1>3, <1>4, <2>1
      DEF BT!StopBoat, ControllerInv, BT!ControllerTypeOK, Timed, BT!SteersByFreshReading,
          BT!WaitsStanding, BT!CompleteIsEarned, BT!ReverseIsBounded, BT!Approaching, BT!Commands
  <1>5. CASE BT!Reset
    BY <1>1, <1>3, <1>5
    DEF BT!Reset, ControllerInv, BT!ControllerTypeOK, Timed, BT!SteersByFreshReading,
        BT!WaitsStanding, BT!CompleteIsEarned, BT!ReverseIsBounded, BT!Approaching,
        BT!Commands, BT!DockingStates
  <1> QED
    BY <1>4, <1>5

LEMMA ReadingKeepsControllerInv ==
    ASSUME ControllerInv, NEW sight \in BT!Sights, BT!OnDockTarget(sight)
    PROVE  ControllerInv'
  <1>1. 0 \in 0..Horizon /\ 0 <= SteerHold
    BY DurationsAssumption DEF DurationsAssumption
  <1>2. /\ target' \in [usable: BOOLEAN, age: 0..Horizon, ahead: BOOLEAN, entering: BOOLEAN]
        /\ target'.age = 0
    <2>1. target \in [usable: BOOLEAN, age: 0..Horizon, ahead: BOOLEAN, entering: BOOLEAN]
      BY DEF ControllerInv, BT!ControllerTypeOK
    <2> QED
      BY <1>1, <2>1 DEF BT!OnDockTarget, BT!Sights
  <1> QED
    BY <1>1, <1>2
    DEF BT!OnDockTarget, BT!motion, ControllerInv, BT!ControllerTypeOK, Timed, BT!SteersByFreshReading,
        BT!WaitsStanding, BT!CompleteIsEarned, BT!ReverseIsBounded, BT!Approaching

LEMMA SameKeepsControllerInv ==
    ASSUME ControllerInv, UNCHANGED BT!controllerVars
    PROVE  ControllerInv'
  BY DEF BT!controllerVars, BT!motion, ControllerInv, BT!ControllerTypeOK, Timed,
         BT!SteersByFreshReading, BT!WaitsStanding, BT!CompleteIsEarned, BT!ReverseIsBounded,
         BT!Approaching

-----------------------------------------------------------------------------
LEMMA InitTreeInv ==
    ASSUME BT!Init
    PROVE  TreeInv
  <1>1. 0 \in 0..Horizon /\ 0 < Reverse + MaxLate /\ 0 <= SteerHold
    BY DurationsAssumption DEF DurationsAssumption
  <1>2. target \in [usable: BOOLEAN, age: 0..Horizon, ahead: BOOLEAN, entering: BOOLEAN]
    BY <1>1 DEF BT!Init, BT!InitController
  <1>3. ControllerInv
    BY <1>1, <1>2
    DEF BT!Init, BT!InitController, ControllerInv, BT!ControllerTypeOK, Timed, BT!SteersByFreshReading,
        BT!WaitsStanding, BT!CompleteIsEarned, BT!ReverseIsBounded, BT!DockingStates, BT!Commands
  <1>4. calls \in Seq({"asked", "yes", "no"})
    BY DEF BT!Init
  <1> QED
    BY <1>3, <1>4, TaskStatesAssumption
    DEF BT!Init, BT!InitController, TreeInv, ControllerInv, BT!TypeOK, BT!OnlyDockingDrives, BT!Missions,
        TaskStatesAssumption

\* A tick: the controller's if the boat moves, so no command stands over it.
LEMMA TickKeepsTreeInv ==
    ASSUME TreeInv, NEW d \in 1..MaxLate, BT!Tick(d)
    PROVE  TreeInv' /\ (~reversing /\ reversing' => still' >= Hold)
  <1>1. CASE finished \/ ~odom
    <2>1. BT!NoTick(d) /\ command = "stop"
      BY <1>1 DEF BT!Tick, TreeInv, BT!OnlyDockingDrives, BT!TypeOK, ControllerInv, BT!ControllerTypeOK
    <2>2. ControllerInv' /\ command' = "stop" /\ reversing' = reversing
      BY <2>1, IdleKeepsControllerInv DEF BT!NoTick, TreeInv, BT!Idle
    <2> QED
      BY <2>1, <2>2
      DEF BT!NoTick, BT!routing, BT!completion, TreeInv, BT!TypeOK, ControllerInv, BT!OnlyDockingDrives
  <1>2. CASE ~finished /\ odom /\ BT!DockingTick(d)
    <2>1. /\ ControllerInv'
          /\ complete' => command' = "stop"
          /\ ~reversing /\ reversing' => still' >= Hold
      BY <1>2, CycleKeepsControllerInv DEF BT!DockingTick, TreeInv
    <2>2. calls' \in Seq({"asked", "yes", "no"}) /\ sent' \in BOOLEAN
      <3>1. Append(calls, "asked") \in Seq({"asked", "yes", "no"})
        BY DEF TreeInv, BT!TypeOK
      <3> QED
        BY <1>2, <3>1 DEF BT!DockingTick, BT!RequestCompletion, TreeInv, BT!TypeOK
    <2>3. /\ inDocking' \in BOOLEAN /\ finished' \in BOOLEAN
          /\ command' # "stop" => inDocking' /\ ~finished'
      BY <1>2, <2>1 DEF BT!DockingTick, BT!MissionMonitor, TreeInv, BT!TypeOK
    <2> QED
      BY <1>2, <2>1, <2>2, <2>3
      DEF BT!DockingTick, BT!routing, TreeInv, BT!TypeOK, ControllerInv, BT!OnlyDockingDrives
  <1>3. CASE ~finished /\ odom /\ BT!OtherTick(d)
    <2>1. command = "stop"
      BY <1>3 DEF BT!OtherTick, BT!RoutedToDocking, TreeInv, BT!OnlyDockingDrives
    <2>2. BT!Idle(d)
      BY <1>3, <2>1 DEF BT!OtherTick, BT!Idle
    <2>3. ControllerInv' /\ command' = "stop" /\ reversing' = reversing
      BY <2>1, <2>2, IdleKeepsControllerInv DEF TreeInv, BT!Idle
    <2>4. inDocking' \in BOOLEAN /\ finished' \in BOOLEAN
      BY <1>3 DEF BT!OtherTick, BT!MissionMonitor, TreeInv, BT!TypeOK
    <2> QED
      BY <1>3, <2>3, <2>4
      DEF BT!OtherTick, BT!routing, BT!completion, TreeInv, BT!TypeOK, ControllerInv, BT!OnlyDockingDrives
  <1> QED
    BY <1>1, <1>2, <1>3 DEF BT!Tick, TreeInv, BT!TypeOK

LEMMA StatusKeepsTreeInv ==
    ASSUME TreeInv, NEW t \in Tasks, NEW s \in TaskStates, BT!OnCompetitionStatus(t, s)
    PROVE  TreeInv' /\ (~reversing /\ reversing' => still' >= Hold)
  <1>1. CASE BT!StartRun
    <2>1. ControllerInv' /\ command' = "stop" /\ reversing' = FALSE
      BY <1>1, StopKeepsControllerInv DEF BT!StartRun, TreeInv, BT!Reset
    <2> QED
      BY <1>1, <2>1
      DEF BT!StartRun, BT!OnCompetitionStatus, TreeInv, BT!TypeOK, ControllerInv, BT!OnlyDockingDrives
  <1>2. CASE BT!StopBoat /\ UNCHANGED <<finished, sent>> /\ confirmed' \in BOOLEAN
    <2>1. ControllerInv' /\ command' = "stop" /\ reversing' = reversing
      BY <1>2, StopKeepsControllerInv DEF TreeInv, BT!StopBoat
    <2> QED
      BY <1>2, <2>1
      DEF BT!OnCompetitionStatus, TreeInv, BT!TypeOK, ControllerInv, BT!OnlyDockingDrives
  <1>3. CASE UNCHANGED <<BT!controllerVars, finished, sent, confirmed>>
    <2>1. ControllerInv' /\ command' = command /\ reversing' = reversing
      BY <1>3, SameKeepsControllerInv DEF TreeInv, BT!controllerVars, BT!motion
    <2> QED
      BY <1>3, <2>1
      DEF BT!OnCompetitionStatus, TreeInv, BT!TypeOK, ControllerInv, BT!OnlyDockingDrives
  <1> QED
    BY <1>1, <1>2, <1>3 DEF BT!OnCompetitionStatus, TreeInv, BT!TypeOK

LEMMA NextTreeInv ==
    ASSUME TreeInv, [BT!Next]_(BT!vars)
    PROVE  TreeInv' /\ (~reversing /\ reversing' => still' >= Hold)
  <1>1. CASE BT!OnOdom \/ (\E s \in BT!Missions : BT!OnMissionStatus(s)) \/ UNCHANGED BT!vars
    <2>1. ControllerInv' /\ command' = command /\ reversing' = reversing
      BY <1>1, SameKeepsControllerInv
      DEF BT!OnOdom, BT!OnMissionStatus, BT!vars, TreeInv, BT!controllerVars, BT!motion
    <2>2. odom \in BOOLEAN /\ mission \in BT!Missions
      BY DEF TreeInv, BT!TypeOK
    <2>3. CASE BT!OnOdom
      BY <2>1, <2>2, <2>3
      DEF BT!OnOdom, BT!routing, BT!treeVars, BT!completion, TreeInv, BT!TypeOK, ControllerInv,
          BT!OnlyDockingDrives
    <2>4. CASE \E s \in BT!Missions : BT!OnMissionStatus(s)
      BY <2>1, <2>2, <2>4
      DEF BT!OnMissionStatus, BT!treeVars, BT!completion, TreeInv, BT!TypeOK, ControllerInv,
          BT!OnlyDockingDrives
    <2>5. CASE UNCHANGED BT!vars
      BY <2>1, <2>2, <2>5
      DEF BT!vars, BT!routing, BT!treeVars, BT!completion, TreeInv, BT!TypeOK, ControllerInv,
          BT!OnlyDockingDrives
    <2> QED
      BY <1>1, <2>3, <2>4, <2>5
  <1>2. CASE BT!OnCompletionAnswer \/ \E ok \in BOOLEAN : BT!Answered(ok)
    <2>1. ControllerInv' /\ command' = command /\ reversing' = reversing
      BY <1>2, SameKeepsControllerInv
      DEF BT!OnCompletionAnswer, BT!Answered, TreeInv, BT!controllerVars, BT!motion
    <2>2. calls' \in Seq({"asked", "yes", "no"})
      BY <1>2 DEF BT!OnCompletionAnswer, BT!Answered, BT!Serve, TreeInv, BT!TypeOK
    <2>3. sent' \in BOOLEAN /\ confirmed' \in BOOLEAN
      BY <1>2 DEF BT!OnCompletionAnswer, BT!Answered, TreeInv, BT!TypeOK
    <2> QED
      BY <1>2, <2>1, <2>2, <2>3
      DEF BT!OnCompletionAnswer, BT!Answered, BT!routing, BT!treeVars, TreeInv, BT!TypeOK, ControllerInv,
          BT!OnlyDockingDrives
  <1>3. CASE \E sight \in BT!Sights : BT!OnTarget(sight)
    <2>1. ControllerInv' /\ command' = command /\ reversing' = reversing
      BY <1>3, ReadingKeepsControllerInv DEF BT!OnTarget, BT!OnDockTarget, TreeInv, BT!motion
    <2> QED
      BY <1>3, <2>1
      DEF BT!OnTarget, BT!routing, BT!treeVars, BT!completion, TreeInv, BT!TypeOK, ControllerInv,
          BT!OnlyDockingDrives
  <1>4. CASE \E t \in Tasks, s \in TaskStates : BT!OnCompetitionStatus(t, s)
    BY <1>4, StatusKeepsTreeInv
  <1>5. CASE \E d \in 1..MaxLate : BT!Tick(d)
    BY <1>5, TickKeepsTreeInv
  <1> QED
    BY <1>1, <1>2, <1>3, <1>4, <1>5 DEF BT!Next

-----------------------------------------------------------------------------
\* The inductive invariant, for every choice of durations and lateness.
THEOREM TreeInvariant == BT!Spec => []TreeInv
  <1>1. TreeInv /\ [BT!Next]_(BT!vars) => TreeInv'
    BY NextTreeInv
  <1> QED
    BY <1>1, InitTreeInv, PTL DEF BT!Spec

\* boat_bt's variables keep their types.
THEOREM BTTypeCorrect == BT!Spec => []BT!TypeOK
  <1>1. TreeInv => BT!TypeOK
    BY DEF TreeInv
  <1> QED
    BY <1>1, TreeInvariant, PTL

\* While a lost target is awaited the boat stands.
THEOREM WaitsStandingHolds == BT!Spec => []BT!WaitsStanding
  <1>1. TreeInv => BT!WaitsStanding
    BY DEF TreeInv, ControllerInv
  <1> QED
    BY <1>1, TreeInvariant, PTL

\* The reverse ends in time, within one late tick.
THEOREM ReverseIsBoundedHolds == BT!Spec => []BT!ReverseIsBounded
  <1>1. TreeInv => BT!ReverseIsBounded
    BY DEF TreeInv, ControllerInv
  <1> QED
    BY <1>1, TreeInvariant, PTL

\* No motion command outlives ExecuteDocking or the tree.
THEOREM OnlyDockingDrivesHolds == BT!Spec => []BT!OnlyDockingDrives
  <1>1. TreeInv => BT!OnlyDockingDrives
    BY DEF TreeInv
  <1> QED
    BY <1>1, TreeInvariant, PTL

-----------------------------------------------------------------------------
(* With competition_manager.                                               *)

\* /competition/status shows what competition_manager holds.
StatusShown == published = [task |-> cmTask, state |-> cmState]

\* What competition_manager holds, whatever boat_bt does.
StatusInv == cmTask \in Tasks /\ cmState \in CM!States /\ StatusShown

LEMMA InitStatusInv ==
    ASSUME Init
    PROVE  StatusInv
  BY NoTaskAssumption DEF Init, CM!Init, StatusInv, StatusShown, CM!States

\* Every sample that is withheld would have said the same.
LEMMA NextStatusInv ==
    ASSUME StatusInv, [Next]_vars
    PROVE  StatusInv'
  <1> USE DEF StatusInv, StatusShown, CM!States
  <1>1. CASE UNCHANGED competitionVars
    BY <1>1 DEF competitionVars
  <1>2. CASE Operator
    <2>1. CASE CM!ClearTask
      BY <2>1, NoTaskAssumption DEF CM!ClearTask, CM!SetState
    <2>2. ASSUME NEW t \in Tasks \ {NoTask}, CM!SelectTask(t, 0)
          PROVE  StatusInv'
      BY <2>2 DEF CM!SelectTask, CM!SetState
    <2>3. CASE CM!StartDirect
      BY <2>3 DEF CM!StartDirect, CM!SetState
    <2> QED
      BY <1>2, <2>1, <2>2, <2>3 DEF Operator
  <1>3. CASE MissionOver
    BY <1>3 DEF MissionOver, CM!OnMissionStatus, CM!SetState, CM!Terminal
  <1>4. CASE ServeCompletion /\ CM!Complete
    BY <1>4 DEF CM!Complete, CM!SetState
  <1> QED
    BY <1>1, <1>2, <1>3, <1>4
    DEF Next, vars, BoatAlone, ReadStatus, ServeCompletion

\* In this composition each node does what it does alone.
LEMMA StackStepsAreTheNodes ==
    ASSUME StatusInv, [Next]_vars
    PROVE  [BT!Next]_(BT!vars) /\ [CM!Next]_(CM!vars)
  <1> USE DEF controllerVars, motion, treeVars, boatVars, competitionVars, vars,
              BT!vars, BT!controllerVars, BT!motion, BT!routing, BT!treeVars,
              BT!completion, CM!vars
  <1>1. CASE BoatAlone
    <2>1. BT!Next
      BY <1>1, ReadingsAssumption DEF BoatAlone, BT!Next, Sights, BT!Sights
    <2> QED
      BY <1>1, <2>1 DEF BoatAlone
  <1>2. CASE Operator
    BY <1>2 DEF Operator, CM!Next, CM!Operator
  <1>3. CASE MissionOver
    BY <1>3 DEF MissionOver, CM!Next, CM!Terminal, CM!MissionStates
  <1>4. CASE ServeCompletion
    <2>1. PICK ok \in BOOLEAN, i \in DOMAIN calls :
             /\ BT!Serve(i, ok)
             /\ CM!Complete \/ UNCHANGED competitionVars
      BY <1>4 DEF ServeCompletion
    <2>2. BT!Answered(ok)
      BY <1>4, <2>1 DEF ServeCompletion, BT!Answered
    <2> QED
      BY <2>1, <2>2 DEF BT!Next, CM!Next
  <1>5. CASE ReadStatus
    <2>1. published.task \in Tasks /\ published.state \in TaskStates
      BY StatesAssumption DEF StatusInv, StatusShown
    <2> QED
      BY <1>5, <2>1 DEF ReadStatus, BT!Next
  <1>6. CASE UNCHANGED vars
    BY <1>6
  <1> QED
    BY <1>1, <1>2, <1>3, <1>4, <1>5, <1>6 DEF Next

THEOREM StatusInvariant == Spec => []StatusInv
  <1>1. StatusInv /\ [Next]_vars => StatusInv'
    BY NextStatusInv
  <1> QED
    BY <1>1, InitStatusInv, PTL DEF Spec

\* What is proved of boat_bt alone holds of it here, and the same of
\* competition_manager.
THEOREM ImplementsNodes == Spec => BT!Spec /\ CM!Spec
  <1>1. Init => BT!Init /\ CM!Init
    BY DEF Init
  <1>2. StatusInv /\ [Next]_vars => [BT!Next]_(BT!vars) /\ [CM!Next]_(CM!vars)
    BY StackStepsAreTheNodes
  <1> QED
    BY <1>1, <1>2, StatusInvariant, PTL DEF Spec, BT!Spec, CM!Spec

THEOREM StackKeepsTree == Spec => []TreeInv
  BY ImplementsNodes, TreeInvariant, PTL

\* The boat is driven forward only by a reading no older than SteerHold.
THEOREM SteersByFreshReadingHolds == Spec => []SteersByFreshReading
  <1>1. TreeInv => SteersByFreshReading
    BY DEF TreeInv, ControllerInv, SteersByFreshReading, BT!SteersByFreshReading
  <1> QED
    BY <1>1, StackKeepsTree, PTL

\* A docking said complete was one.
THEOREM CompleteIsEarnedHolds == Spec => []CompleteIsEarned
  <1>1. TreeInv => CompleteIsEarned
    BY DEF TreeInv, ControllerInv, CompleteIsEarned, BT!CompleteIsEarned
  <1> QED
    BY <1>1, StackKeepsTree, PTL

\* The boat backs out only after standing still for the hold.
THEOREM HoldsBeforeReverseHolds == Spec => HoldsBeforeReverse
  <1>1. TreeInv /\ [BT!Next]_(BT!vars)
        => [~reversing /\ reversing' => still' >= Hold]_controllerVars
    BY NextTreeInv
  <1> QED
    BY <1>1, ImplementsNodes, TreeInvariant, PTL DEF BT!Spec, HoldsBeforeReverse

=============================================================================
