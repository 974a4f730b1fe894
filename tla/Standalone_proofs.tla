------------------------- MODULE Standalone_proofs -------------------------
(***************************************************************************)
(* The parts that share nothing, for every value of their constants: the   *)
(* firmware's loop, the chain of time-outs from a velocity source to the   *)
(* thrusters, the tile cache, the pre-flight, the obstacle cloud and the   *)
(* tracker.                                                                *)
(***************************************************************************)
EXTENDS PicoFirmware, VelocityChain, TileService, SystemTest, TrackedObjects,
        ObstacleFusion, FiniteSetTheorems, TLAPS

----------------------------------------------------------------------------
\* The firmware.  The invariant says how old each stamp can be at each place of
\* loop(): the checks are made against the clock of the pass, so an age may exceed
\* its timeout by the time since loop() read the clock, and in the next pass, until
\* it is looked at again, by a whole pass more.
LatchedIsDisarmed == estop_latched => ~armed

SticksAge ==
    thrust = "sticks" =>
        /\ pc = "top" => sbus_age <= SbusTimeout + late
        /\ pc \notin {"top", "failsafes"} => sbus_age <= SbusTimeout + MaxLate + late

CommandAge ==
    thrust = "command" =>
        /\ pc = "top" => command_age <= SerialTimeout + late
        /\ pc # "top" => command_age <= SerialTimeout + MaxLate + late

AutonomyAge ==
    current_mode = "AUTONOMOUS" =>
        /\ pc \in {"motors", "failsafes", "top"} => heartbeat_age <= HeartbeatTimeout + late
        /\ pc \in {"sbus", "serial", "state"} =>
             heartbeat_age <= HeartbeatTimeout + MaxLate + late

AutonomyAsked ==
    Arbitrated /\ current_mode = "AUTONOMOUS" =>
        ch.zone = "high" /\ ~ch.failsafe /\ serial_wants_auto

PicoIInv ==
    /\ TypeOK
    /\ DrivenByAuthority
    /\ LatchedIsDisarmed
    /\ ArmedByTransmitter
    /\ SticksAge
    /\ CommandAge
    /\ AutonomyAge
    /\ AutonomyAsked

\* setup() leaves the boat disarmed and at neutral.
LEMMA PicoStarts == Init => PicoIInv
<1> SUFFICES ASSUME Init PROVE PicoIInv
  OBVIOUS
<1> USE TimingAssumption DEF TimingAssumption, Init
<1>1. TypeOK
  <2>1. ch \in Channels
    BY DEF Channels
  <2>2. pc \in Phases /\ late \in 0..MaxLate /\ current_mode \in Modes
    BY DEF Phases, Modes
  <2>3. {sbus_age, command_age, heartbeat_age, relay_age} \subseteq Ages
    BY DEF Ages
  <2> QED
    BY <2>1, <2>2, <2>3 DEF TypeOK
<1>2. DrivenByAuthority /\ LatchedIsDisarmed /\ ArmedByTransmitter
  BY DEF DrivenByAuthority, LatchedIsDisarmed, ArmedByTransmitter
<1>3. SticksAge /\ CommandAge /\ AutonomyAge /\ AutonomyAsked
  BY DEF SticksAge, CommandAge, AutonomyAge, AutonomyAsked
<1> QED
  BY <1>1, <1>2, <1>3 DEF PicoIInv

\* The clock adds one to each age and to the pass, so no bound is overtaken.
LEMMA PicoTickKeeps == PicoIInv /\ Tick => PicoIInv'
<1> SUFFICES ASSUME PicoIInv, Tick PROVE PicoIInv'
  OBVIOUS
<1> USE TimingAssumption DEF TimingAssumption, PicoIInv, TypeOK, Tick, power, Older, Ages
<1>1. TypeOK'
  OBVIOUS
<1>2. DrivenByAuthority'
  BY DEF DrivenByAuthority
<1>3. LatchedIsDisarmed' /\ ArmedByTransmitter'
  BY DEF LatchedIsDisarmed, ArmedByTransmitter, Arbitrated
<1>4. SticksAge'
  BY DEF SticksAge
<1>5. CommandAge'
  BY DEF CommandAge
<1>6. AutonomyAge'
  BY DEF AutonomyAge
<1>7. AutonomyAsked'
  BY DEF AutonomyAsked, Arbitrated
<1> QED
  BY <1>1, <1>2, <1>3, <1>4, <1>5, <1>6, <1>7

\* A new pass starts its own clock: what was late becomes one whole pass.
LEMMA ReadClockKeeps == PicoIInv /\ ReadClock => PicoIInv'
<1> SUFFICES ASSUME PicoIInv, ReadClock PROVE PicoIInv'
  OBVIOUS
<1> USE TimingAssumption DEF TimingAssumption, PicoIInv, TypeOK, ReadClock, power, Phases, Ages
<1>1. TypeOK'
  OBVIOUS
<1>2. DrivenByAuthority' /\ LatchedIsDisarmed'
  BY DEF DrivenByAuthority, LatchedIsDisarmed
<1>3. ArmedByTransmitter' /\ AutonomyAsked'
  BY DEF ArmedByTransmitter, AutonomyAsked, Arbitrated
<1>4. SticksAge' /\ CommandAge' /\ AutonomyAge'
  BY DEF SticksAge, CommandAge, AutonomyAge
<1> QED
  BY <1>1, <1>2, <1>3, <1>4

\* What is read after arbitration counts from the next arbitration on.
LEMMA ReadingKeeps ==
  ASSUME PicoIInv,
         handle_sbus \/ (\E verb \in Verbs : handle_serial_line(verb)) \/ SerialDrained
  PROVE  PicoIInv'
<1> USE TimingAssumption DEF TimingAssumption, PicoIInv, TypeOK, power, Phases, Ages
<1>1. CASE handle_sbus
  <2>1. TypeOK'
    BY <1>1 DEF handle_sbus, Decode
  <2>2. DrivenByAuthority' /\ LatchedIsDisarmed' /\ ArmedByTransmitter' /\ AutonomyAsked'
    BY <1>1 DEF handle_sbus, DrivenByAuthority, LatchedIsDisarmed,
                ArmedByTransmitter, AutonomyAsked, Arbitrated
  <2>3. SticksAge' /\ CommandAge' /\ AutonomyAge'
    BY <1>1 DEF handle_sbus, Decode, SticksAge, CommandAge, AutonomyAge
  <2> QED
    BY <2>1, <2>2, <2>3
<1>2. ASSUME NEW verb \in Verbs, handle_serial_line(verb) PROVE PicoIInv'
  <2>1. /\ heartbeat_age' = 0
        /\ command_age' = IF verb = "motors" THEN 0 ELSE command_age
        /\ pc = "serial" /\ UNCHANGED <<pc, late, sbus_age, relay_age, ch>>
        /\ UNCHANGED <<current_mode, armed, relay_on, estop_latched>>
    BY <1>2 DEF handle_serial_line
  <2>2. serial_wants_auto' \in BOOLEAN
    BY <1>2, Zenon DEF handle_serial_line
  <2>3. \/ thrust' = thrust
        \/ /\ thrust' = "command" /\ verb = "motors" /\ armed
           /\ current_mode = "AUTONOMOUS" /\ relay_age >= ArmDelay
    BY <1>2, Zenon DEF handle_serial_line
  <2>4. heartbeat_age' \in Ages /\ command_age' \in Ages
    BY <2>1
  <2>5. TypeOK'
    BY <2>1, <2>2, <2>3, <2>4
  <2>6. DrivenByAuthority' /\ LatchedIsDisarmed' /\ ArmedByTransmitter' /\ AutonomyAsked'
    BY <2>1, <2>2, <2>3 DEF DrivenByAuthority, LatchedIsDisarmed, ArmedByTransmitter,
           AutonomyAsked, Arbitrated
  <2>7. SticksAge' /\ CommandAge' /\ AutonomyAge'
    BY <2>1, <2>3 DEF SticksAge, CommandAge, AutonomyAge
  <2> QED
    BY <2>5, <2>6, <2>7
<1>3. CASE SerialDrained
  <2> USE <1>3 DEF SerialDrained, clock
  <2>1. TypeOK' /\ DrivenByAuthority' /\ LatchedIsDisarmed' /\ ArmedByTransmitter'
    BY DEF DrivenByAuthority, LatchedIsDisarmed, ArmedByTransmitter, Arbitrated
  <2>2. SticksAge' /\ CommandAge' /\ AutonomyAge' /\ AutonomyAsked'
    BY DEF SticksAge, CommandAge, AutonomyAge, AutonomyAsked, Arbitrated
  <2> QED
    BY <2>1, <2>2
<1> QED
  BY <1>1, <1>2, <1>3

\* Either nothing changes, and the mode and the arming are what the channels
\* ask for, or the change passes through neutral.
LEMMA UpdateStateKeeps == PicoIInv /\ update_state => PicoIInv'
<1> SUFFICES ASSUME PicoIInv, update_state PROVE PicoIInv'
  OBVIOUS
<1> USE TimingAssumption DEF TimingAssumption, PicoIInv, TypeOK, Phases, Ages, Channels
<1>1. NewMode \in Modes /\ WantArmed(NewMode) \in BOOLEAN /\ StillLatched(NewMode) \in BOOLEAN
  BY DEF NewMode, Modes, WantArmed, StillLatched
<1>2. current_mode' = NewMode /\ armed' = WantArmed(NewMode) /\ relay_on' = armed'
  BY <1>1 DEF update_state, apply_transition, DrivenByAuthority
<1>3. WantArmed(NewMode) =>
        ch.arm /\ ch.zone # "low" /\ ~ch.failsafe /\ ~StillLatched(NewMode)
  BY DEF WantArmed, NewMode
<1>4. NewMode = "AUTONOMOUS" =>
        /\ ch.zone = "high" /\ ~ch.failsafe /\ serial_wants_auto
        /\ heartbeat_age <= HeartbeatTimeout
  BY DEF NewMode, serial_link_live
<1>5. \/ thrust' = "neutral"
      \/ /\ thrust' = thrust /\ relay_age' = relay_age
         /\ armed' = armed /\ current_mode' = current_mode
  BY <1>1, <1>2 DEF update_state, apply_transition
<1>6. TypeOK'
  BY <1>1, <1>2 DEF update_state, apply_transition
<1>7. DrivenByAuthority'
  BY <1>2, <1>5 DEF DrivenByAuthority
<1>8. LatchedIsDisarmed' /\ ArmedByTransmitter'
  BY <1>2, <1>3 DEF LatchedIsDisarmed, ArmedByTransmitter, update_state
<1>9. AutonomyAsked' /\ AutonomyAge'
  BY <1>2, <1>4 DEF AutonomyAsked, AutonomyAge, update_state
<1>10. SticksAge' /\ CommandAge'
  BY <1>5 DEF SticksAge, CommandAge, update_state
<1> QED
  BY <1>6, <1>7, <1>8, <1>9, <1>10

\* The sticks may be written here however old they are: the failsafes come next.
LEMMA UpdateMotorsKeeps == PicoIInv /\ update_motors => PicoIInv'
<1> SUFFICES ASSUME PicoIInv, update_motors PROVE PicoIInv'
  OBVIOUS
<1> USE TimingAssumption DEF TimingAssumption, PicoIInv, TypeOK, update_motors, clock, power, Phases, Ages
<1>1. TypeOK'
  OBVIOUS
<1>2. DrivenByAuthority' /\ LatchedIsDisarmed'
  BY DEF DrivenByAuthority, LatchedIsDisarmed
<1>3. ArmedByTransmitter' /\ AutonomyAsked'
  BY DEF ArmedByTransmitter, AutonomyAsked, Arbitrated
<1>4. SticksAge' /\ CommandAge' /\ AutonomyAge'
  BY DEF SticksAge, CommandAge, AutonomyAge
<1> QED
  BY <1>1, <1>2, <1>3, <1>4

\* What still drives after the failsafes was heard within its timeout of the
\* clock of the pass: a stamp newer than that clock is newer still.
LEMMA FailsafesKeep == PicoIInv /\ failsafes => PicoIInv'
<1> SUFFICES ASSUME PicoIInv, failsafes PROVE PicoIInv'
  OBVIOUS
<1> USE TimingAssumption DEF TimingAssumption, PicoIInv, TypeOK, failsafes, trigger_estop, clock, power, Phases, Ages
<1>1. thrust' = "sticks" => sbus_age <= SbusTimeout + late
  BY DEF DrivenByAuthority, SbusLost, CommandsLost, Elapsed
<1>2. thrust' = "command" => command_age <= SerialTimeout + late
  BY DEF DrivenByAuthority, SbusLost, CommandsLost, Elapsed
<1>3. TypeOK'
  OBVIOUS
<1>4. DrivenByAuthority' /\ LatchedIsDisarmed'
  <2>1. CASE SbusLost /\ trigger_estop
    BY <2>1 DEF DrivenByAuthority, LatchedIsDisarmed
  <2>2. CASE ~(SbusLost /\ trigger_estop)
    BY <2>2 DEF DrivenByAuthority, LatchedIsDisarmed
  <2> QED
    BY <2>1, <2>2
<1>5. ArmedByTransmitter' /\ AutonomyAsked'
  BY DEF ArmedByTransmitter, AutonomyAsked, Arbitrated
<1>6. SticksAge' /\ CommandAge'
  BY <1>1, <1>2 DEF SticksAge, CommandAge
<1>7. AutonomyAge'
  BY DEF AutonomyAge
<1> QED
  BY <1>3, <1>4, <1>5, <1>6, <1>7

\* The invariant holds at every step of loop() and at every tick of the clock.
THEOREM PicoInvariant == Spec => []PicoIInv
<1>1. PicoIInv /\ [Next]_vars => PicoIInv'
  <2> SUFFICES ASSUME PicoIInv, [Next]_vars PROVE PicoIInv'
    OBVIOUS
  <2>1. CASE UNCHANGED vars
    BY <2>1 DEF vars, clock, power, PicoIInv, TypeOK, DrivenByAuthority, LatchedIsDisarmed,
                ArmedByTransmitter, SticksAge, CommandAge, AutonomyAge,
                AutonomyAsked, Arbitrated
  <2> QED
    BY <2>1, PicoTickKeeps, ReadClockKeeps, ReadingKeeps,
       UpdateStateKeeps, UpdateMotorsKeeps, FailsafesKeep DEF Next
<1> QED
  BY <1>1, PicoStarts, PTL DEF Spec

\* Each variable keeps to its type.
THEOREM PicoTypeCorrect == Spec => []TypeOK
<1>1. PicoIInv => TypeOK
  BY DEF PicoIInv
<1> QED
  BY <1>1, PicoInvariant, PTL

\* Only the source the mode gives authority to turns the propellers, and only
\* when the boat is armed and the arm window is over.
THEOREM DrivenByAuthorityHolds == Spec => []DrivenByAuthority
<1>1. PicoIInv => DrivenByAuthority
  BY DEF PicoIInv
<1> QED
  BY <1>1, PicoInvariant, PTL

\* No line from the Jetson arms what the transmitter does not allow.
THEOREM ArmedByTransmitterHolds == Spec => []ArmedByTransmitter
<1>1. PicoIInv => ArmedByTransmitter
  BY DEF PicoIInv
<1> QED
  BY <1>1, PicoInvariant, PTL

\* Autonomy is never entered nor kept without switch, request and heartbeat.
THEOREM AutonomyIsPermittedHolds == Spec => []AutonomyIsPermitted
<1>1. PicoIInv => AutonomyIsPermitted
  BY TimingAssumption
  DEF TimingAssumption, PicoIInv, TypeOK, AutonomyAge, AutonomyAsked, AutonomyIsPermitted, Arbitrated, Ages
<1> QED
  BY <1>1, PicoInvariant, PTL

\* A silent receiver stops the propellers within two passes of its timeout.
THEOREM NoStaleSticksHolds == Spec => []NoStaleSticks
<1>1. PicoIInv => NoStaleSticks
  BY TimingAssumption DEF TimingAssumption, PicoIInv, TypeOK, SticksAge, NoStaleSticks, Ages
<1> QED
  BY <1>1, PicoInvariant, PTL

\* And so do motor commands that stop coming.
THEOREM NoStaleCommandHolds == Spec => []NoStaleCommand
<1>1. PicoIInv => NoStaleCommand
  BY TimingAssumption DEF TimingAssumption, PicoIInv, TypeOK, CommandAge, NoStaleCommand, Ages
<1> QED
  BY <1>1, PicoInvariant, PTL

----------------------------------------------------------------------------
(* Control.                                                                 *)

ChainAges == 0 .. Horizon

ChainTypeOK ==
    /\ since \in [Sources -> ChainAges]
    /\ setpoint \in Sources \cup {Neutral}
    /\ effort \in Sources \cup {Neutral}
    /\ applied \in Sources \cup {Neutral}
    /\ pid \in BOOLEAN
    /\ quiet \in ChainAges /\ unheard \in ChainAges /\ docked \in ChainAges

(* An effort other than none is on the Pico no longer than its own timeout *)
(* after the bridge last wrote, which it did on a recent effort.           *)
Held ==
    /\ quiet <= CmdTimeout + unheard
    /\ applied # Neutral => unheard <= PicoTimeout

(* While docking is active a running PID has no setpoint of Nav2: what is  *)
(* left of it was published before, and is at least as old.                *)
Masking ==
    /\ docked > 0 => Active(Docking)
    /\ Active(Docking) /\ pid => setpoint # Navigation
    /\ effort = Navigation => docked <= quiet
    /\ applied = Navigation => docked <= CmdTimeout + unheard

ChainIInv == ChainTypeOK /\ Held /\ Masking

---------------------------------------------------------------------------
(* A counter that stops at the horizon.                                    *)
LEMMA LaterIsLater ==
    ASSUME NEW n \in ChainAges
    PROVE  /\ Later(n) \in ChainAges
           /\ n <= Later(n)
           /\ Later(n) <= n + 1
           /\ n < Horizon => Later(n) = n + 1
           /\ n = Horizon => Later(n) = Horizon
  BY ChainAssumption DEF ChainAges, Later

(* Docking is passed on whenever it speaks, Nav2 when docking is silent.   *)
LEMMA WhoIsMasked ==
    /\ ~Masked(Docking)
    /\ Masked(Navigation) <=> Active(Docking)
  BY ChainAssumption DEF Masked, Sources, Priority

(* The first state.                                                        *)
LEMMA ChainStarts ==
    ASSUME ChainInit PROVE ChainIInv
  BY ChainAssumption DEF ChainInit, ChainIInv, ChainTypeOK, Held, Masking,
         ChainAges, Sources, Active

(* A message, from either source.                                          *)
LEMMA VelocityKeeps ==
    ASSUME ChainIInv, NEW s \in Sources, Velocity(s)
    PROVE  ChainIInv'
<1> USE DEF ChainIInv
<1>1. ChainTypeOK'
  BY ChainAssumption DEF ChainTypeOK, Velocity, ChainAges, Sources
<1>2. Held'
  BY DEF Held, Velocity
<1>3. since'[Docking] = 0 \/ since'[Docking] = since[Docking]
  BY DEF Velocity, ChainTypeOK, Sources
<1>4. docked' > 0 => Active(Docking)'
  BY <1>3, <1>1, ChainAssumption DEF Masking, Velocity, Active, ChainTypeOK, ChainAges
<1>5. ASSUME Active(Docking)', pid' PROVE setpoint' # Navigation
  <2>1. CASE s = Docking
    BY <2>1, <1>5, WhoIsMasked, ChainAssumption DEF Velocity
  <2>2. CASE s = Navigation
    <3>1. since'[Docking] = since[Docking]
      BY <2>2, ChainAssumption DEF Velocity, ChainTypeOK, Sources
    <3>2. Active(Docking) /\ pid /\ setpoint' = setpoint
      BY <3>1, <2>2, <1>5, WhoIsMasked DEF Velocity, Active
    <3> QED BY <3>2 DEF Masking
  <2> QED BY <2>1, <2>2 DEF Sources
<1>6. Masking'
  BY <1>4, <1>5 DEF Masking, Velocity
<1> QED BY <1>1, <1>2, <1>6

(* A tick, whichever of the two timers runs first.                         *)
LEMMA ControlKeeps ==
    ASSUME ChainIInv, NEW bridgeFirst \in BOOLEAN, Control(bridgeFirst)
    PROVE  ChainIInv'
<1> DEFINE age  == IF bridgeFirst THEN Later(quiet) ELSE QuietNow
           line == IF bridgeFirst THEN effort ELSE EffortNow
           held == IF Writes(age) THEN 0 ELSE Later(unheard)
<1>0. /\ since' = [s \in Sources |-> Later(since[s])]
      /\ quiet' = QuietNow /\ effort' = EffortNow /\ unheard' = held
      /\ applied' = HeldByPico(held, IF Writes(age) THEN line ELSE applied)
      /\ docked' = IF since[Docking] < MuxTimeout THEN Later(docked) ELSE 0
      /\ setpoint' = setpoint /\ pid' = pid
  BY DEF Control
<1>1. /\ Later(quiet) \in ChainAges /\ Later(unheard) \in ChainAges /\ Later(docked) \in ChainAges
      /\ \A s \in Sources : Later(since[s]) \in ChainAges
      /\ QuietNow \in ChainAges /\ age \in ChainAges /\ held \in ChainAges
      /\ QuietNow <= age /\ age <= Later(quiet)
  <2>1. quiet \in ChainAges /\ unheard \in ChainAges /\ docked \in ChainAges /\ 0 \in ChainAges
        /\ \A s \in Sources : since[s] \in ChainAges
    BY ChainAssumption DEF ChainIInv, ChainTypeOK, ChainAges
  <2>2. /\ Later(quiet) \in ChainAges /\ Later(unheard) \in ChainAges /\ Later(docked) \in ChainAges
        /\ \A s \in Sources : Later(since[s]) \in ChainAges
    BY <2>1, LaterIsLater
  <2> QED BY <2>1, <2>2, ChainAssumption DEF QuietNow, ChainAges
<1>2. ChainTypeOK'
  <2>1. line \in Sources \cup {Neutral} /\ EffortNow \in Sources \cup {Neutral}
    BY DEF EffortNow, ChainIInv, ChainTypeOK
  <2>2. applied' \in Sources \cup {Neutral}
    BY <1>0, <2>1 DEF HeldByPico, ChainIInv, ChainTypeOK
  <2>3. docked' \in ChainAges
    BY <1>0, <1>1, ChainAssumption DEF ChainAges
  <2> QED BY <1>0, <1>1, <2>1, <2>2, <2>3 DEF ChainTypeOK, ChainIInv
<1> HIDE DEF age, line, held
<1>3. Held'
  <2>1. applied' # Neutral => unheard' <= PicoTimeout
    BY <1>0, <1>1, ChainAssumption DEF HeldByPico, ChainAges
  <2>2. CASE Writes(age)
    BY <2>1, <2>2, <1>0, <1>1, ChainAssumption DEF Held, Writes, held, ChainAges
  <2>3. CASE ~Writes(age)
    BY <2>1, <2>3, <1>0, <1>1, ChainAssumption DEF Held, held, Later, ChainAges, ChainIInv, ChainTypeOK
  <2> QED BY <2>2, <2>3
<1>4. Active(Docking)' => since[Docking] < MuxTimeout
  BY <1>0, ChainAssumption DEF Active, Later, Sources, ChainIInv, ChainTypeOK, ChainAges
<1>5. since[Docking] < MuxTimeout => Active(Docking)' /\ Active(Docking)
  BY <1>0, ChainAssumption DEF Active, Later, Sources, ChainIInv, ChainTypeOK, ChainAges
<1>6. docked' > 0 => Active(Docking)' /\ Active(Docking) /\ docked' = Later(docked)
  BY <1>0, <1>5
<1>7. Active(Docking)' /\ pid' => setpoint' # Navigation
  BY <1>0, <1>4, <1>5 DEF Masking, ChainIInv
<1>8. effort = Navigation => docked' <= Later(quiet)
  <2>1. SUFFICES ASSUME effort = Navigation PROVE docked' <= Later(quiet)
    OBVIOUS
  <2>2. docked <= quiet
    BY <2>1 DEF Masking, ChainIInv
  <2> QED BY <1>0, <2>2, ChainAssumption DEF Later, ChainIInv, ChainTypeOK, ChainAges
<1>9. EffortNow = Navigation => docked' <= QuietNow
  <2>1. CASE pid
    <3>1. EffortNow = Navigation => docked' = 0
      BY <2>1, <1>0, <1>2, <1>5 DEF EffortNow, Masking, ChainIInv
    <3> QED BY <3>1, <1>1, ChainAssumption DEF ChainAges
  <2>2. CASE ~pid
    BY <2>2, <1>8 DEF EffortNow, QuietNow
  <2> QED BY <2>1, <2>2 DEF ChainIInv, ChainTypeOK
<1>10. applied' = Navigation => docked' <= CmdTimeout + unheard'
  <2>1. SUFFICES ASSUME applied' = Navigation PROVE docked' <= CmdTimeout + unheard'
    OBVIOUS
  <2>2. CASE Writes(age)
    <3>1. line = Navigation
      BY <2>1, <2>2, <1>0, ChainAssumption DEF HeldByPico
    <3>2. docked' <= age
      BY <3>1, <1>8, <1>9 DEF line, age
    <3> QED BY <3>2, <2>2, <1>0, <1>1, <1>2, ChainAssumption DEF Writes, held, ChainAges, ChainTypeOK
  <2>3. CASE ~Writes(age)
    <3>1. applied = Navigation
      BY <2>1, <2>3, <1>0, ChainAssumption DEF HeldByPico
    <3>2. docked <= CmdTimeout + unheard
      BY <3>1 DEF Masking, ChainIInv
    <3> QED BY <3>2, <2>3, <1>0, ChainAssumption DEF held, Later, ChainIInv, ChainTypeOK, ChainAges
  <2> QED BY <2>2, <2>3
<1>11. Masking'
  <2>1. effort' = Navigation => docked' <= quiet'
    BY <1>9, <1>0
  <2> QED BY <1>6, <1>7, <1>10, <2>1 DEF Masking
<1> QED BY <1>2, <1>3, <1>11 DEF ChainIInv

(* Every step.                                                             *)
LEMMA ChainSteps ==
    ASSUME ChainIInv, [ChainNext]_chainVars PROVE ChainIInv'
<1>1. ASSUME NEW s \in Sources, Velocity(s) PROVE ChainIInv'
  BY <1>1, VelocityKeeps
<1>2. ASSUME NEW bridgeFirst \in BOOLEAN, Control(bridgeFirst) PROVE ChainIInv'
  BY <1>2, ControlKeeps
<1>3. CASE PidStops
  BY <1>3 DEF PidStops, ChainIInv, ChainTypeOK, Held, Masking, Active
<1>4. CASE PidStarts
  BY <1>4, ChainAssumption DEF PidStarts, ChainIInv, ChainTypeOK, Held, Masking, Active
<1>5. CASE UNCHANGED chainVars
  BY <1>5 DEF chainVars, ChainIInv, ChainTypeOK, Held, Masking, Active
<1> QED BY <1>1, <1>2, <1>3, <1>4, <1>5 DEF ChainNext

(* The inductive invariant, which types the chain.                         *)
THEOREM ChainInvariant == ChainSpec => []ChainIInv
<1>1. ChainInit => ChainIInv
  BY ChainStarts
<1>2. ChainIInv /\ [ChainNext]_chainVars => ChainIInv'
  BY ChainSteps
<1> QED BY <1>1, <1>2, PTL DEF ChainSpec

(* The thrusters turn on an effort that the PID published within the two   *)
(* timeouts between it and them.                                           *)
THEOREM EffortsLive == ChainSpec => []LiveEffort
<1>1. ChainIInv => LiveEffort
  BY ChainAssumption DEF ChainIInv, ChainTypeOK, Held, LiveEffort, ChainAges
<1> QED BY <1>1, ChainInvariant, PTL

(* Nav2 does not drive the boat when docking has been heard for as long.   *)
THEOREM DockingIsNotOverruled == ChainSpec => []DockingDrives
<1>1. ChainIInv => DockingDrives
  BY ChainAssumption DEF ChainIInv, ChainTypeOK, Held, Masking, DockingDrives, ChainAges
<1> QED BY <1>1, ChainInvariant, PTL

----------------------------------------------------------------------------
(* The tile cache.                                                          *)

(* A request that is under way has a key, one to be written what it fetched, *)
(* and an eviction goes by a total above the limit.                         *)
WellMade(r) ==
    /\ r.pc \notin {"idle", "done"} => r.key \in Keys
    /\ r.pc = "put" => r.fetched \in Nat
    /\ r.pc = "evict" => r.total > MaxBytes
    /\ r.held => r.answer # "miss"

WellUnderWay == \A t \in Threads : WellMade(req[t])

(* Every row counts towards the total.                                      *)
Listed == \A k \in Keys : cache[k] # Nothing => \E i \in DOMAIN used : used[i] = k

(* A thread that will look at the total, or evicts by one as large as it is. *)
Looking(t) == \/ req[t].pc = "total"
              \/ req[t].pc = "evict" /\ req[t].total >= Total

\* The thread that wrote the newest row, unless its look has failed.
Overlooked == writer # Nothing /\ Total > MaxBytes => writer \in Threads /\ Looking(writer)

TilesIInv == TilesTypeOK /\ WellUnderWay /\ Listed /\ Overlooked

---------------------------------------------------------------------------
(* A key moved to the end.                                                   *)
LEMMA TouchedIsAsLong ==
    ASSUME NEW k \in Keys, NEW seq \in Seq(Keys)
    PROVE  /\ Touched(seq, k) \in Seq(Keys)
           /\ Len(Touched(seq, k)) <= Len(seq) + 1
           /\ (\E i \in DOMAIN seq : seq[i] = k) => Len(Touched(seq, k)) = Len(seq)
           /\ \E i \in DOMAIN Touched(seq, k) : Touched(seq, k)[i] = k
           /\ \A e \in Keys : (\E i \in DOMAIN seq : seq[i] = e)
                => \E i \in DOMAIN Touched(seq, k) : Touched(seq, k)[i] = e
<1>1. CASE ~ \E i \in DOMAIN seq : seq[i] = k
  <2>1. Touched(seq, k) = Append(seq, k)
    BY <1>1 DEF Touched
  <2>2. Touched(seq, k)[Len(seq) + 1] = k /\ \A i \in DOMAIN seq : Touched(seq, k)[i] = seq[i]
    BY <2>1
  <2>3. DOMAIN Touched(seq, k) = 1 .. Len(seq) + 1 /\ DOMAIN seq = 1 .. Len(seq)
        /\ Len(seq) + 1 \in 1 .. Len(seq) + 1 /\ 1 .. Len(seq) \subseteq 1 .. Len(seq) + 1
    BY <2>1
  <2>4. Touched(seq, k) \in Seq(Keys) /\ Len(Touched(seq, k)) = Len(seq) + 1
    BY <2>1
  <2>5. \A e \in Keys : (\E i \in DOMAIN seq : seq[i] = e)
                => \E i \in DOMAIN Touched(seq, k) : Touched(seq, k)[i] = e
    BY <2>2, <2>3
  <2>6. \E i \in DOMAIN Touched(seq, k) : Touched(seq, k)[i] = k
    BY <2>2, <2>3
  <2>7. Len(Touched(seq, k)) <= Len(seq) + 1
    BY <2>4
  <2> QED BY <1>1, <2>4, <2>5, <2>6, <2>7
<1>2. CASE \E i \in DOMAIN seq : seq[i] = k
  <2> DEFINE p == Place(seq, k)
             front == SubSeq(seq, 1, p - 1)
             back == SubSeq(seq, p + 1, Len(seq))
             rest == front \o back
  <2>1. p \in 1 .. Len(seq) /\ seq[p] = k
    BY <1>2 DEF Place
  <2>2. Touched(seq, k) = Append(rest, k)
    BY <1>2 DEF Touched, Without
  <2> HIDE DEF p
  <2>3. /\ front \in Seq(Keys) /\ Len(front) = p - 1
        /\ \A i \in 1 .. p - 1 : front[i] = seq[i]
    BY <2>1
  <2>0. /\ back \in Seq(Keys) /\ Len(back) = Len(seq) - p
        /\ \A i \in 1 .. Len(seq) - p : back[i] = seq[p + i]
    BY <2>1
  <2> HIDE DEF front, back
  <2>4. rest \in Seq(Keys) /\ Len(rest) = Len(seq) - 1
    <3>1. rest \in Seq(Keys) /\ Len(rest) = Len(front) + Len(back)
      BY <2>3, <2>0
    <3>2. Len(front) + Len(back) = Len(seq) - 1
      BY <2>1, <2>3, <2>0
    <3> QED BY <3>1, <3>2
  <2>5. \A i \in 1 .. p - 1 : rest[i] = seq[i]
    BY <2>1, <2>3, <2>0
  <2>6. \A i \in p .. Len(seq) - 1 : rest[i] = seq[i + 1]
    <3> SUFFICES ASSUME NEW i \in p .. Len(seq) - 1 PROVE rest[i] = seq[i + 1]
      OBVIOUS
    <3>1. i - (p - 1) \in 1 .. Len(seq) - p /\ rest[i] = back[i - (p - 1)]
      BY <2>1, <2>3, <2>0
    <3>2. p + (i - (p - 1)) = i + 1
      BY <2>1
    <3> QED BY <3>1, <3>2, <2>0
  <2> HIDE DEF rest
  <2>7. Touched(seq, k) \in Seq(Keys) /\ Len(Touched(seq, k)) = Len(seq)
        /\ DOMAIN Touched(seq, k) = 1 .. Len(seq)
    BY <2>2, <2>4, <2>1
  <2>8. Touched(seq, k)[Len(seq)] = k
    BY <2>2, <2>4, <2>1
  <2>9. \A i \in 1 .. Len(seq) - 1 : Touched(seq, k)[i] = rest[i]
    BY <2>2, <2>4, <2>1
  <2>10. ASSUME NEW e \in Keys, NEW i \in DOMAIN seq, seq[i] = e
         PROVE  \E j \in 1 .. Len(seq) : Touched(seq, k)[j] = e
    <3>0. i \in 1 .. Len(seq)
      OBVIOUS
    <3>1. CASE i < p
      BY <3>0, <3>1, <2>10, <2>5, <2>9, <2>1
    <3>2. CASE i = p
      BY <3>0, <3>2, <2>10, <2>8, <2>1
    <3>3. CASE i > p
      <4>1. i - 1 \in p .. Len(seq) - 1
        BY <3>0, <3>3, <2>1
      <4>2. rest[i - 1] = e
        BY <4>1, <2>6, <2>10, <3>0
      <4>3. i - 1 \in 1 .. Len(seq) - 1 /\ i - 1 \in 1 .. Len(seq)
        BY <4>1, <2>1
      <4> QED BY <4>2, <4>3, <2>9
    <3> QED BY <3>0, <3>1, <3>2, <3>3, <2>1
  <2> QED BY <2>1, <2>7, <2>8, <2>10, <1>2, SMTT(30)
<1> QED BY <1>1, <1>2

(* A row read again.                                                         *)
LEMMA RowsRead ==
    ASSUME TilesTypeOK, Listed, NEW k \in Keys, NEW blob, blob \in Findings(k),
           ReadRow(k, blob), UNCHANGED cache
    PROVE  used' \in Seq(Keys) /\ Len(used') = Len(used) /\ Listed'
<1>1. CASE used' = used
  BY <1>1 DEF Listed, TilesTypeOK
<1>2. CASE cache[k] # Nothing /\ used' = Touched(used, k)
  <2>1. \E i \in DOMAIN used : used[i] = k
    BY <1>2 DEF Listed
  <2>2. used \in Seq(Keys)
    BY DEF TilesTypeOK
  <2> QED BY <1>2, <2>1, <2>2, TouchedIsAsLong DEF Listed
<1>3. CASE blob = Nothing
  <2>1. used' = used
    BY <1>3 DEF ReadRow
  <2> QED BY <2>1, <1>1
<1>4. CASE blob # Nothing
  <2>1. blob = cache[k]
    BY <1>4 DEF Findings
  <2>2. cache[k] # Nothing
    BY <1>4, <2>1
  <2>3. CASE used' = Touched(used, k)
    BY <2>2, <2>3, <1>2
  <2>4. used' = used \/ used' = Touched(used, k)
    BY DEF ReadRow
  <2> QED BY <2>3, <2>4, <1>1
<1> QED BY <1>3, <1>4

(* A copy confirmed.                                                        *)
LEMMA RowsRefreshed ==
    ASSUME TilesTypeOK, Listed, NEW k \in Keys, Refreshed(k)
    PROVE  /\ used' \in Seq(Keys) /\ Len(used') = Len(used) /\ Listed'
           /\ cache' \in [Keys -> Blobs \cup {Nothing}]
<1>1. CASE cache[k] = Nothing
  BY <1>1 DEF Refreshed, Listed, TilesTypeOK
<1>2. CASE cache[k] # Nothing
  <2>1. cache' = [cache EXCEPT ![k].age = "new"] /\ used' = Touched(used, k)
    BY <1>2 DEF Refreshed
  <2>2. used \in Seq(Keys) /\ cache \in [Keys -> Blobs \cup {Nothing}] /\ cache[k] \in Blobs
    BY <1>2 DEF TilesTypeOK
  <2>3. \E i \in DOMAIN used : used[i] = k
    BY <1>2 DEF Listed
  <2>4. cache' \in [Keys -> Blobs \cup {Nothing}]
    BY <2>1, <2>2 DEF Blobs, CopyAges
  <2>5. \A e \in Keys : cache'[e] # Nothing => cache[e] # Nothing
    BY <2>1, <2>2, <1>2
  <2> QED BY <2>1, <2>2, <2>3, <2>4, <2>5, TouchedIsAsLong DEF Listed
<1> QED BY <1>1, <1>2

(* A copy written: a row more, or the same row again.                       *)
LEMMA RowsStored ==
    ASSUME TilesTypeOK, Listed, NEW k \in Keys, NEW v \in Nat, Stored(k, v)
    PROVE  /\ used' \in Seq(Keys) /\ Listed'
           /\ cache' \in [Keys -> Blobs \cup {Nothing}]
<1>1. /\ cache' = [cache EXCEPT ![k] = [version |-> v, age |-> "new"]]
      /\ used' = Touched(used, k)
  BY DEF Stored
<1>2. used \in Seq(Keys) /\ cache \in [Keys -> Blobs \cup {Nothing}]
  BY DEF TilesTypeOK
<1>3. cache' \in [Keys -> Blobs \cup {Nothing}]
  BY <1>1, <1>2 DEF Blobs, CopyAges
<1>4. \A e \in Keys : e # k => cache'[e] = cache[e]
  BY <1>1, <1>2
<1> QED BY <1>1, <1>2, <1>3, <1>4, TouchedIsAsLong DEF Listed

(* Rows gone: as many as the total given is above nine tenths of the limit.  *)
LEMMA RowsEvicted ==
    ASSUME TilesTypeOK, Listed, NEW total \in Nat, total > MaxBytes, Evicted(total)
    PROVE  /\ used' \in Seq(Keys) /\ Listed' /\ Len(used') <= Len(used)
           /\ cache' \in [Keys -> Blobs \cup {Nothing}]
           /\ total >= Len(used) => Len(used') <= MaxBytes
<1> DEFINE target == (MaxBytes * 9) \div 10
           n == IF total - target > Len(used) THEN Len(used) ELSE total - target
           gone == {used[i] : i \in 1 .. n}
<1>1. target \in Nat /\ target <= MaxBytes
  BY RoomAssumption
<1>2. used \in Seq(Keys) /\ Len(used) \in Nat /\ cache \in [Keys -> Blobs \cup {Nothing}]
  BY DEF TilesTypeOK
<1>3. cache' = [k \in Keys |-> IF k \in gone THEN Nothing ELSE cache[k]]
      /\ used' = SubSeq(used, n + 1, Len(used))
  BY DEF Evicted
<1> HIDE DEF target
<1>4. n \in 0 .. Len(used) /\ (total >= Len(used) => Len(used) - n <= MaxBytes)
  BY <1>1, <1>2, RoomAssumption
<1>5. \A k \in Keys : cache'[k] # Nothing => cache[k] # Nothing /\ \A i \in 1 .. n : used[i] # k
  BY <1>3
<1>6. cache' \in [Keys -> Blobs \cup {Nothing}]
  BY <1>2, <1>3
<1> HIDE DEF n
<1>7. used' \in Seq(Keys) /\ Len(used') = Len(used) - n
      /\ \A i \in 1 .. Len(used) - n : used'[i] = used[n + i]
  BY <1>2, <1>3, <1>4
<1>8. Listed'
  <2> SUFFICES ASSUME NEW k \in Keys, cache'[k] # Nothing
               PROVE  \E i \in DOMAIN used' : used'[i] = k
    BY DEF Listed
  <2>1. PICK j \in 1 .. Len(used) : used[j] = k
    BY <1>2, <1>5 DEF Listed
  <2>2. j > n
    BY <2>1, <1>4, <1>5
  <2>3. j - n \in 1 .. Len(used) - n /\ n + (j - n) = j
    BY <2>1, <2>2, <1>4, <1>2
  <2>4. j - n \in DOMAIN used' /\ used'[j - n] = k
    BY <2>1, <2>3, <1>7, <1>4, <1>2
  <2> QED BY <2>4
<1> QED BY <1>2, <1>4, <1>6, <1>7, <1>8

(* One thread takes a step: what it has in hand is well made.                *)
LEMMA ThreadSteps ==
    ASSUME TilesTypeOK, WellUnderWay, NEW t \in Threads, NEW r \in Requests,
           req' = [req EXCEPT ![t] = r], WellMade(r)
    PROVE  /\ req' \in [Threads -> Requests] /\ WellUnderWay'
           /\ req'[t] = r /\ \A u \in Threads \ {t} : req'[u] = req[u]
<1>1. req' \in [Threads -> Requests] /\ req'[t] = r /\ \A u \in Threads \ {t} : req'[u] = req[u]
  BY DEF TilesTypeOK
<1>2. \A u \in Threads : WellMade(req'[u])
  BY <1>1 DEF WellUnderWay
<1>3. WellUnderWay'
  BY <1>2 DEF WellUnderWay, WellMade
<1> QED BY <1>1, <1>3

(* Of an answered request nothing is left to do.                             *)
LEMMA DoneIsWellMade ==
    ASSUME NEW r \in Requests, NEW a \in Replies, a = "miss" => r.cached = Nothing
    PROVE  Done(r, a) \in Requests /\ WellMade(Done(r, a)) /\ Done(r, a).pc = "done"
<1> DEFINE h == r.cached # Nothing
<1>0. h \in BOOLEAN
  OBVIOUS
<1>1. Done(r, a) = [Idle EXCEPT !.pc = "done", !.answer = a, !.held = h]
  BY DEF Done
<1>2. h => a # "miss"
  OBVIOUS
<1> HIDE DEF h
<1>3. Done(r, a) \in Requests
  <2>1. Idle \in Requests
    BY DEF Requests, Idle
  <2>2. \A q \in Requests, b \in BOOLEAN : [q EXCEPT !.pc = "done", !.answer = a, !.held = b] \in Requests
    BY DEF Requests
  <2> QED BY <1>0, <1>1, <2>1, <2>2
<1>4. Done(r, a).pc = "done" /\ Done(r, a).answer = a /\ Done(r, a).held = h
  BY <1>1 DEF Idle
<1> QED BY <1>0, <1>2, <1>3, <1>4 DEF WellMade

(* A step of a thread that is not the one to look, or whose look has failed. *)
LEMMA StillOverlooked ==
    ASSUME TilesTypeOK, Overlooked, NEW t \in Threads,
           \/ ~Looking(t) /\ writer' = writer
           \/ writer' = Missed(t),
           used' \in Seq(Keys), Len(used') <= Len(used),
           \A u \in Threads \ {t} : req'[u] = req[u], req \in [Threads -> Requests]
    PROVE  Overlooked'
<1>1. Total \in Nat /\ Total' \in Nat /\ Total' <= Total
  BY DEF Total, TilesTypeOK
<1> SUFFICES ASSUME writer' # Nothing, Total' > MaxBytes
             PROVE  writer' \in Threads /\ Looking(writer)'
  BY DEF Overlooked
<1>2. writer' = writer /\ writer \in Threads /\ Looking(writer)
  BY <1>1, RoomAssumption DEF Overlooked, Missed
<1>3. writer # t
  BY <1>2 DEF Missed
<1>4. req'[writer] = req[writer] /\ req[writer].total \in Nat
  BY <1>2, <1>3 DEF Requests
<1> QED BY <1>1, <1>2, <1>4 DEF Looking

---------------------------------------------------------------------------
(* The first state.                                                          *)
LEMMA TilesStart == TilesInit => TilesIInv
<1> SUFFICES ASSUME TilesInit PROVE TilesIInv
  OBVIOUS
<1>1. Idle \in Requests /\ WellMade(Idle)
  BY DEF Idle, Requests, WellMade
<1>2. TilesTypeOK /\ WellUnderWay
  BY <1>1 DEF TilesInit, TilesTypeOK, WellUnderWay
<1>3. Listed /\ Overlooked
  BY RoomAssumption DEF TilesInit, Listed, Overlooked, Total
<1> QED BY <1>2, <1>3 DEF TilesIInv

(* A browser asks.                                                           *)
LEMMA AskKeeps ==
    ASSUME TilesIInv, NEW t \in Threads, NEW k \in Keys, NEW p \in Profiles, Ask(t, k, p)
    PROVE  TilesIInv'
<1> DEFINE r == [Idle EXCEPT !.pc = "get", !.key = k, !.may = MayGoUpstream(p)]
<1>1. r \in Requests /\ WellMade(r)
  <2>1. r \in Requests
    <3>1. MayGoUpstream(p) \in BOOLEAN
      BY OnlineAssumption DEF MayGoUpstream, MayFetch
    <3> QED BY <3>1 DEF Idle, Requests
  <2>2. r.pc = "get" /\ r.key = k /\ r.held = FALSE
    BY DEF Idle
  <2> QED BY <2>1, <2>2 DEF WellMade
<1>2. req' = [req EXCEPT ![t] = r] /\ UNCHANGED <<cache, used, upstream, writer>> /\ ~Looking(t)
  BY DEF Ask, Looking
<1> HIDE DEF r
<1>3. TilesTypeOK' /\ WellUnderWay' /\ \A u \in Threads \ {t} : req'[u] = req[u]
  BY <1>1, <1>2, ThreadSteps DEF TilesIInv, TilesTypeOK
<1>4. Listed'
  BY <1>2 DEF Listed, TilesIInv
<1>5. Overlooked'
  BY <1>2, <1>3, StillOverlooked DEF TilesIInv, TilesTypeOK
<1> QED BY <1>3, <1>4, <1>5 DEF TilesIInv

(* A thread that answers, or goes on to another place than the eviction.     *)
LEMMA MovesOn ==
    ASSUME TilesIInv, NEW t \in Threads, NEW r \in Requests, WellMade(r), ~Looking(t),
           req' = [req EXCEPT ![t] = r], Listed', writer' = writer,
           cache' \in [Keys -> Blobs \cup {Nothing}], upstream' \in Nat,
           used' \in Seq(Keys), Len(used') <= Len(used)
    PROVE  TilesIInv'
<1>1. TilesTypeOK' /\ WellUnderWay' /\ \A u \in Threads \ {t} : req'[u] = req[u]
  BY ThreadSteps DEF TilesIInv, TilesTypeOK
<1>2. Overlooked'
  BY <1>1, StillOverlooked DEF TilesIInv, TilesTypeOK
<1> QED BY <1>1, <1>2 DEF TilesIInv

(* What is known of a request under way.                                     *)
LEMMA InHand ==
    ASSUME TilesIInv, NEW t \in Threads
    PROVE  /\ req[t] \in Requests /\ WellMade(req[t])
           /\ req[t].pc \notin {"idle", "done"} => req[t].key \in Keys
           /\ used \in Seq(Keys) /\ Len(used) \in Nat
           /\ cache \in [Keys -> Blobs \cup {Nothing}] /\ upstream \in Nat
  BY DEF TilesIInv, TilesTypeOK, WellUnderWay, WellMade

(* The first look into the cache.                                            *)
LEMMA GetKeeps ==
    ASSUME TilesIInv, NEW t \in Threads, Get(t) PROVE TilesIInv'
<1>0. PICK blob \in Findings(req[t].key) :
         /\ ReadRow(req[t].key, blob)
         /\ LET r1 == [req[t] EXCEPT !.cached = blob]
            IN  req' = [req EXCEPT ![t] =
                   IF blob # Nothing /\ (IsFresh(blob) \/ ~req[t].may)
                   THEN Done(r1, "cache")
                   ELSE IF WorthAsking(req[t]) THEN [r1 EXCEPT !.pc = "fetch"]
                   ELSE Done(r1, Fallback(r1))]
  BY DEF Get
<1> DEFINE r == req[t]
           r1 == [r EXCEPT !.cached = blob]
           r2 == [r1 EXCEPT !.pc = "fetch"]
<1>1. r.pc = "get" /\ UNCHANGED <<cache, upstream, writer>> /\ ~Looking(t)
  BY DEF Get, Looking
<1>2. r \in Requests /\ WellMade(r) /\ r.key \in Keys /\ blob \in Blobs \cup {Nothing}
  BY <1>1, InHand DEF Findings
<1>3. r1 \in Requests /\ r2 \in Requests /\ r2.pc = "fetch" /\ r2.key = r.key
      /\ r2.held = r.held /\ r2.answer = r.answer /\ r1.cached = blob
  BY <1>2 DEF Requests
<1>4. \/ req' = [req EXCEPT ![t] = r2]
      \/ req' = [req EXCEPT ![t] = Done(r1, "cache")]
      \/ req' = [req EXCEPT ![t] = Done(r1, Fallback(r1))]
  BY <1>0
<1>5. WellMade(r2)
  BY <1>2, <1>3 DEF WellMade
<1>6. Fallback(r1) \in Replies /\ (Fallback(r1) = "miss" => r1.cached = Nothing)
  BY DEF Fallback, Replies
<1>7. "cache" \in Replies /\ "cache" # "miss"
  BY DEF Replies
<1>11. ReadRow(r.key, blob) /\ blob \in Findings(r.key)
  BY <1>0
<1> HIDE DEF r1, r2, r
<1>8. PICK q \in Requests : WellMade(q) /\ req' = [req EXCEPT ![t] = q]
  <2>1. Done(r1, "cache") \in Requests /\ WellMade(Done(r1, "cache"))
    BY <1>3, <1>7, DoneIsWellMade
  <2>2. Done(r1, Fallback(r1)) \in Requests /\ WellMade(Done(r1, Fallback(r1)))
    BY <1>3, <1>6, DoneIsWellMade
  <2> QED BY <1>3, <1>4, <1>5, <2>1, <2>2
<1>9. used' \in Seq(Keys) /\ Len(used') = Len(used) /\ Listed'
  BY <1>1, <1>2, <1>11, RowsRead DEF TilesIInv
<1>10. /\ Len(used') <= Len(used) /\ upstream' \in Nat
       /\ cache' \in [Keys -> Blobs \cup {Nothing}]
  BY <1>1, <1>9, InHand
<1> QED BY <1>1, <1>8, <1>9, <1>10, MovesOn

(* The request upstream.                                                     *)
LEMMA FetchKeeps ==
    ASSUME TilesIInv, NEW t \in Threads, NEW answers \in BOOLEAN, Fetch(t, answers)
    PROVE  TilesIInv'
<1> DEFINE r == req[t]
           r1 == [r EXCEPT !.pc = "refresh"]
           r2 == [r EXCEPT !.pc = "put", !.fetched = upstream]
<1>1. r.pc = "fetch" /\ UNCHANGED <<cache, used, upstream, writer>> /\ ~Looking(t)
  BY DEF Fetch, Looking
<1>2. r \in Requests /\ WellMade(r) /\ r.key \in Keys /\ upstream \in Nat
  BY <1>1, InHand
<1>3. r1 \in Requests /\ r1.pc = "refresh" /\ r1.key = r.key /\ r1.held = r.held
      /\ r1.answer = r.answer
  BY <1>2 DEF Requests
<1>4. r2 \in Requests /\ r2.pc = "put" /\ r2.key = r.key /\ r2.held = r.held
      /\ r2.answer = r.answer /\ r2.fetched = upstream
  BY <1>2 DEF Requests
<1>5. WellMade(r1) /\ WellMade(r2)
  BY <1>2, <1>3, <1>4 DEF WellMade
<1>6. \/ req' = [req EXCEPT ![t] = r1]
      \/ req' = [req EXCEPT ![t] = r2]
      \/ req' = [req EXCEPT ![t] = Done(r, Fallback(r))]
  <2>1. req \in [Threads -> Requests]
    BY DEF TilesIInv, TilesTypeOK
  <2>2. CASE req' = [req EXCEPT ![t].pc = "put", ![t].fetched = upstream]
    BY <2>1, <2>2
  <2> QED BY <2>2 DEF Fetch, Goto, Answer
<1>7. Fallback(r) \in Replies /\ (Fallback(r) = "miss" => r.cached = Nothing)
  BY DEF Fallback, Replies
<1> HIDE DEF r1, r2, r
<1>8. PICK q \in Requests : WellMade(q) /\ req' = [req EXCEPT ![t] = q]
  BY <1>2, <1>3, <1>4, <1>5, <1>6, <1>7, DoneIsWellMade
<1>9. Listed'
  BY <1>1 DEF Listed, TilesIInv
<1>10. /\ used' \in Seq(Keys) /\ Len(used') <= Len(used) /\ upstream' \in Nat
       /\ cache' \in [Keys -> Blobs \cup {Nothing}]
  BY <1>1, InHand
<1> QED BY <1>1, <1>8, <1>9, <1>10, MovesOn

(* The copy confirmed, a glyph range answered.                               *)
LEMMA RefreshKeeps ==
    ASSUME TilesIInv, NEW t \in Threads, NEW fails \in BOOLEAN, Refresh(t, fails) PROVE TilesIInv'
<1> DEFINE r == req[t]
           r1 == [r EXCEPT !.pc = "again"]
<1>1. r.pc = "refresh" /\ upstream' = upstream /\ writer' = writer /\ ~Looking(t)
  BY DEF Refresh, Looking
<1>2. r \in Requests /\ WellMade(r) /\ r.key \in Keys
  BY <1>1, InHand
<1>3. r1 \in Requests /\ r1.pc = "again" /\ r1.key = r.key /\ r1.held = r.held
      /\ r1.answer = r.answer
  BY <1>2 DEF Requests
<1>4. WellMade(r1)
  BY <1>2, <1>3 DEF WellMade
<1>5. \/ req' = [req EXCEPT ![t] = r1]
      \/ req' = [req EXCEPT ![t] = Done(r, "confirmed")]
  BY DEF Refresh, Goto, Answer
<1>6. "confirmed" \in Replies /\ "confirmed" # "miss"
  BY DEF Replies
<1>10. Refreshed(r.key) \/ UNCHANGED <<cache, used>>
  BY DEF Refresh
<1> HIDE DEF r1, r
<1>7. PICK q \in Requests : WellMade(q) /\ req' = [req EXCEPT ![t] = q]
  BY <1>2, <1>3, <1>4, <1>5, <1>6, DoneIsWellMade
<1>8. /\ used' \in Seq(Keys) /\ Len(used') = Len(used) /\ Listed'
      /\ cache' \in [Keys -> Blobs \cup {Nothing}]
  <2>1. CASE Refreshed(r.key)
    BY <1>2, <2>1, RowsRefreshed DEF TilesIInv
  <2>2. CASE UNCHANGED <<cache, used>>
    BY <2>2 DEF TilesIInv, TilesTypeOK, Listed
  <2> QED BY <1>10, <2>1, <2>2
<1>9. Len(used') <= Len(used) /\ upstream' \in Nat
  BY <1>1, <1>8, InHand
<1> QED BY <1>1, <1>7, <1>8, <1>9, MovesOn

(* The second look.                                                          *)
LEMMA GetAgainKeeps ==
    ASSUME TilesIInv, NEW t \in Threads, GetAgain(t) PROVE TilesIInv'
<1>0. PICK blob \in Findings(req[t].key) :
         /\ ReadRow(req[t].key, blob)
         /\ Answer(t, IF blob = Nothing THEN Fallback(req[t]) ELSE "confirmed")
  BY DEF GetAgain
<1> DEFINE r == req[t]
           a == IF blob = Nothing THEN Fallback(r) ELSE "confirmed"
<1>1. r.pc = "again" /\ UNCHANGED <<cache, upstream, writer>> /\ ~Looking(t)
      /\ req' = [req EXCEPT ![t] = Done(r, a)]
      /\ ReadRow(r.key, blob) /\ blob \in Findings(r.key)
  BY <1>0 DEF GetAgain, Looking, Answer
<1>2. r \in Requests /\ r.key \in Keys
  BY <1>1, InHand
<1>3. a \in Replies /\ (a = "miss" => r.cached = Nothing)
  BY DEF Fallback, Replies
<1> HIDE DEF r, a
<1>4. Done(r, a) \in Requests /\ WellMade(Done(r, a))
  BY <1>2, <1>3, DoneIsWellMade
<1>5. used' \in Seq(Keys) /\ Len(used') = Len(used) /\ Listed'
  BY <1>1, <1>2, RowsRead DEF TilesIInv
<1>6. /\ Len(used') <= Len(used) /\ upstream' \in Nat
      /\ cache' \in [Keys -> Blobs \cup {Nothing}]
  BY <1>1, <1>5, InHand
<1> QED BY <1>1, <1>4, <1>5, <1>6, MovesOn

(* A row more at most: the thread that wrote it will look.                   *)
LEMMA PutKeeps ==
    ASSUME TilesIInv, NEW t \in Threads, NEW fails \in BOOLEAN, Put(t, fails)
    PROVE  TilesIInv'
<1> DEFINE r == req[t]
           r1 == [r EXCEPT !.pc = "total"]
<1>1. r.pc = "put" /\ upstream' = upstream /\ ~Looking(t) /\ writer' \in {writer, t}
  BY DEF Put, Looking
<1>2. r \in Requests /\ WellMade(r) /\ r.key \in Keys /\ r.fetched \in Nat
  BY <1>1, InHand DEF WellMade
<1>3. CASE fails
  <2>1. req' = [req EXCEPT ![t] = Done(r, "upstream")] /\ UNCHANGED <<cache, used, writer>>
    BY <1>3 DEF Put, Answer
  <2>2. Done(r, "upstream") \in Requests /\ WellMade(Done(r, "upstream"))
    BY <1>2, DoneIsWellMade DEF Replies
  <2>3. Listed'
    BY <2>1 DEF Listed, TilesIInv
  <2>4. /\ used' \in Seq(Keys) /\ Len(used') <= Len(used) /\ upstream' \in Nat
        /\ cache' \in [Keys -> Blobs \cup {Nothing}]
    BY <1>1, <2>1, InHand
  <2> QED BY <1>1, <2>1, <2>2, <2>3, <2>4, MovesOn
<1>4. CASE ~fails
  <2>1. Stored(r.key, r.fetched) /\ req' = [req EXCEPT ![t] = r1] /\ writer' = t
    BY <1>4 DEF Put, Goto
  <2>2. r1 \in Requests /\ r1.pc = "total" /\ r1.key = r.key /\ r1.held = r.held
        /\ r1.answer = r.answer
    BY <1>2 DEF Requests
  <2>3. WellMade(r1)
    BY <1>2, <2>2 DEF WellMade
  <2> HIDE DEF r1, r
  <2>4. used' \in Seq(Keys) /\ Listed' /\ cache' \in [Keys -> Blobs \cup {Nothing}]
    BY <1>2, <2>1, RowsStored DEF TilesIInv
  <2>5. /\ req' \in [Threads -> Requests] /\ WellUnderWay' /\ req'[t].pc = "total"
    BY <2>1, <2>2, <2>3, ThreadSteps DEF TilesIInv
  <2>6. TilesTypeOK'
    BY <1>1, <2>1, <2>4, <2>5, InHand DEF TilesTypeOK
  <2>7. Overlooked'
    BY <2>1, <2>5 DEF Overlooked, Looking
  <2> QED BY <2>4, <2>5, <2>6, <2>7 DEF TilesIInv
<1> QED BY <1>3, <1>4

(* The look at the total: within the limit, or this thread will evict by it, *)
(* or the total cannot be read.                                             *)
LEMMA ReadTotalKeeps ==
    ASSUME TilesIInv, NEW t \in Threads, NEW fails \in BOOLEAN, ReadTotal(t, fails)
    PROVE  TilesIInv'
<1> DEFINE r == req[t]
           r1 == [r EXCEPT !.pc = "evict", !.total = Total]
           q == IF fails \/ Total <= MaxBytes THEN Done(r, "upstream") ELSE r1
<1>1. r.pc = "total" /\ UNCHANGED <<cache, used, upstream>>
      /\ writer' = IF fails THEN Missed(t) ELSE writer
  BY DEF ReadTotal
<1>2. r \in Requests /\ WellMade(r) /\ r.key \in Keys /\ Total \in Nat
  BY <1>1, InHand DEF Total
<1>3. r1 \in Requests /\ r1.pc = "evict" /\ r1.key = r.key /\ r1.held = r.held
      /\ r1.answer = r.answer /\ r1.total = Total
  BY <1>2 DEF Requests
<1>4. req' = [req EXCEPT ![t] = q]
  <2>1. req \in [Threads -> Requests]
    BY DEF TilesIInv, TilesTypeOK
  <2>2. CASE fails \/ Total <= MaxBytes
    BY <2>2 DEF ReadTotal, Answer
  <2>3. CASE ~(fails \/ Total <= MaxBytes)
    <3>1. req' = [req EXCEPT ![t].pc = "evict", ![t].total = Total]
      BY <2>3 DEF ReadTotal
    <3> QED BY <2>1, <2>3, <3>1
  <2> QED BY <2>2, <2>3
<1>5. Done(r, "upstream") \in Requests /\ WellMade(Done(r, "upstream"))
  BY <1>2, DoneIsWellMade DEF Replies
<1> HIDE DEF r1, r
<1>6. q \in Requests /\ WellMade(q)
  BY <1>2, <1>3, <1>5, RoomAssumption DEF WellMade
<1>7. /\ req' \in [Threads -> Requests] /\ WellUnderWay' /\ req'[t] = q
      /\ \A u \in Threads \ {t} : req'[u] = req[u]
  BY <1>4, <1>6, ThreadSteps DEF TilesIInv
<1>8. TilesTypeOK' /\ Listed'
  BY <1>1, <1>7 DEF TilesTypeOK, TilesIInv, Listed, Missed
<1>9. Overlooked'
  <2>1. CASE fails
    BY <1>1, <1>7, <2>1, StillOverlooked DEF TilesIInv, TilesTypeOK
  <2>2. CASE ~fails
    <3> SUFFICES ASSUME writer' # Nothing, Total' > MaxBytes
                 PROVE  writer' \in Threads /\ Looking(writer)'
      BY DEF Overlooked
    <3>1. Total' = Total /\ ~(Total <= MaxBytes) /\ writer' = writer
      BY <1>1, <1>2, <2>2, RoomAssumption DEF Total
    <3>2. writer \in Threads /\ Looking(writer)
      BY <3>1, <1>2, RoomAssumption DEF TilesIInv, Overlooked
    <3>3. CASE writer = t
      <4>1. req'[t] = r1
        BY <1>7, <2>2, <3>1
      <4> QED BY <1>2, <1>3, <3>1, <3>3, <4>1 DEF Looking
    <3>4. CASE writer # t
      <4>1. req'[writer] = req[writer]
        BY <1>7, <3>2, <3>4
      <4> QED BY <3>1, <3>2, <4>1 DEF Looking
    <3> QED BY <3>3, <3>4
  <2> QED BY <2>1, <2>2
<1> QED BY <1>7, <1>8, <1>9 DEF TilesIInv

(* The eviction: enough if the total read is still the largest, and if it is  *)
(* not somebody has written since and will look; or it fails.                *)
LEMMA EvictKeeps ==
    ASSUME TilesIInv, NEW t \in Threads, NEW fails \in BOOLEAN, Evict(t, fails)
    PROVE  TilesIInv'
<1> DEFINE r == req[t]
<1>1. r.pc = "evict" /\ upstream' = upstream /\ req' = [req EXCEPT ![t] = Done(r, "upstream")]
  BY DEF Evict, Answer
<1>2. r \in Requests /\ r.total \in Nat /\ r.total > MaxBytes /\ Len(used) \in Nat
  BY <1>1, InHand DEF Requests, WellMade
<1>3. Done(r, "upstream") \in Requests /\ WellMade(Done(r, "upstream"))
  BY <1>2, DoneIsWellMade DEF Replies
<1>4. /\ req' \in [Threads -> Requests] /\ WellUnderWay'
      /\ \A u \in Threads \ {t} : req'[u] = req[u]
  BY <1>1, <1>3, ThreadSteps DEF TilesIInv
<1>5. CASE fails
  <2>1. UNCHANGED <<cache, used>> /\ writer' = Missed(t)
    BY <1>5 DEF Evict
  <2>2. TilesTypeOK' /\ Listed'
    BY <1>1, <1>4, <2>1 DEF TilesTypeOK, TilesIInv, Listed, Missed
  <2>3. Overlooked'
    BY <1>4, <2>1, StillOverlooked DEF TilesIInv, TilesTypeOK
  <2> QED BY <1>4, <2>2, <2>3 DEF TilesIInv
<1>6. CASE ~fails
  <2>1. Evicted(r.total) /\ writer' = writer
    BY <1>6 DEF Evict
  <2>2. /\ used' \in Seq(Keys) /\ Listed' /\ Len(used') <= Len(used)
        /\ cache' \in [Keys -> Blobs \cup {Nothing}]
        /\ r.total >= Len(used) => Len(used') <= MaxBytes
    BY <2>1, <1>2, RowsEvicted DEF TilesIInv
  <2>3. CASE Looking(t)
    <3>1. Total' <= MaxBytes
      BY <1>1, <2>2, <2>3 DEF Looking, Total
    <3>2. TilesTypeOK'
      BY <1>1, <1>4, <2>1, <2>2, InHand DEF TilesTypeOK, TilesIInv
    <3>3. Overlooked'
      BY <3>1, <2>2, RoomAssumption DEF Overlooked, Total
    <3> QED BY <1>4, <2>2, <3>2, <3>3 DEF TilesIInv
  <2>4. CASE ~Looking(t)
    BY <1>1, <1>3, <2>1, <2>2, <2>4, InHand, MovesOn
  <2> QED BY <2>3, <2>4
<1> QED BY <1>5, <1>6

(* Time, and upstream.                                                       *)
LEMMA TimeKeeps ==
    ASSUME TilesIInv, (\E k \in Keys : GetsOld(k)) \/ Rendered \/ UNCHANGED tileVars
    PROVE  TilesIInv'
<1>1. used' = used /\ req' = req /\ writer' = writer
  BY DEF GetsOld, Rendered, tileVars
<1>2. upstream' \in Nat
  BY DEF GetsOld, Rendered, tileVars, TilesIInv, TilesTypeOK
<1>3. cache' \in [Keys -> Blobs \cup {Nothing}] /\ \A k \in Keys : cache'[k] # Nothing => cache[k] # Nothing
  <2>1. ASSUME NEW k \in Keys, GetsOld(k)
        PROVE  cache' \in [Keys -> Blobs \cup {Nothing}]
               /\ \A e \in Keys : cache'[e] # Nothing => cache[e] # Nothing
    BY <2>1 DEF GetsOld, TilesIInv, TilesTypeOK, Blobs, CopyAges
  <2>2. CASE cache' = cache
    BY <2>2 DEF TilesIInv, TilesTypeOK
  <2> QED BY <2>1, <2>2 DEF Rendered, tileVars
<1>4. TilesTypeOK'
  BY <1>1, <1>2, <1>3 DEF TilesIInv, TilesTypeOK
<1>5. WellUnderWay' /\ Overlooked'
  BY <1>1 DEF TilesIInv, WellUnderWay, WellMade, Overlooked, Looking, Total
<1>6. Listed'
  BY <1>1, <1>3 DEF TilesIInv, Listed
<1> QED BY <1>4, <1>5, <1>6 DEF TilesIInv

(* The inductive invariant of the tile cache.                                *)
THEOREM TilesInvariant == TilesSpec => []TilesIInv
<1>1. TilesIInv /\ [TilesNext]_tileVars => TilesIInv'
  BY AskKeeps, GetKeeps, FetchKeeps, RefreshKeeps, GetAgainKeeps, PutKeeps,
     ReadTotalKeeps, EvictKeeps, TimeKeeps DEF TilesNext
<1> QED BY <1>1, TilesStart, PTL DEF TilesSpec

(* A tile that its request found is never answered blank.                    *)
THEOREM NeverBlankHolds == TilesSpec => []NeverBlank
<1>1. TilesIInv => NeverBlank
  BY DEF TilesIInv, WellUnderWay, WellMade, NeverBlank
<1> QED BY <1>1, TilesInvariant, PTL

(* Once its last writer has looked, the cache is within its limit.           *)
THEOREM BoundedAtRestHolds == TilesSpec => []BoundedAtRest
<1>1. TilesIInv => BoundedAtRest
  BY RoomAssumption DEF TilesIInv, TilesTypeOK, Overlooked, Looking, BoundedAtRest, Total
<1> QED BY <1>1, TilesInvariant, PTL

----------------------------------------------------------------------------
(* The pre-flight.                                                          *)

(* A first row that holds is the first that does.                            *)
LEMMA FirstRow ==
    ASSUME NEW rows, 1 \in DOMAIN rows, DOMAIN rows \subseteq Nat \ {0}, rows[1][1]
    PROVE  First(rows) = rows[1][2]
<1> DEFINE P(i) == rows[i][1] /\ \A j \in DOMAIN rows : j < i => ~rows[j][1]
           c == CHOOSE i \in DOMAIN rows : P(i)
<1>1. P(1)
  OBVIOUS
<1>2. c \in DOMAIN rows /\ P(c)
  BY <1>1, Zenon
<1>3. c = 1
  BY <1>2
<1> QED BY <1>3 DEF First




(* A Pico never heard of has no age.                                          *)
LEMMA PicoLinkUnheard ==
    ASSUME NEW s, s.pico_age = None PROVE PicoLink(s) = Missing
<1> DEFINE rows == <<
    <<s.pico_age = None, Missing>>,
    <<Above(s.pico_age, max_pico_age_s), Result("FAIL", s.pico_age)>>,
    <<TRUE, Result("PASS", s.pico_age)>> >>
<1>1. 1 \in DOMAIN rows /\ DOMAIN rows \subseteq Nat \ {0}
  OBVIOUS
<1>2. rows[1][1]
  OBVIOUS
<1>3. rows[1][2] = Missing
  OBVIOUS
<1>4. PicoLink(s) = First(rows)
  BY DEF PicoLink
<1> HIDE DEF rows
<1> QED BY <1>1, <1>2, <1>3, <1>4, FirstRow

(* Nor a version.                                                             *)
LEMMA FirmwareVersionUnheard ==
    ASSUME NEW s, s.firmware = None PROVE FirmwareVersion(s) = Missing
<1> DEFINE rows == <<
    <<s.firmware = None, Missing>>,
    <<s.firmware # EXPECTED_FIRMWARE_VERSION, Result("FAIL", s.firmware)>>,
    <<TRUE, Result("PASS", s.firmware)>> >>
<1>1. 1 \in DOMAIN rows /\ DOMAIN rows \subseteq Nat \ {0}
  OBVIOUS
<1>2. rows[1][1]
  OBVIOUS
<1>3. rows[1][2] = Missing
  OBVIOUS
<1>4. FirmwareVersion(s) = First(rows)
  BY DEF FirmwareVersion
<1> HIDE DEF rows
<1> QED BY <1>1, <1>2, <1>3, <1>4, FirstRow

(* Without a fix type there is no fix to judge,                               *)
LEMMA GnssFixUnheard ==
    ASSUME NEW s, s.fix_type = None PROVE GnssFix(s) = Missing
<1> DEFINE rows == <<
    <<s.num_sats = None \/ s.fix_type = None, Missing>>,
    <<Below(s.fix_type, 3), Result("FAIL", s.num_sats)>>,
    <<Below(s.num_sats, min_satellites), Result("FAIL", s.num_sats)>>,
    <<Above(s.hdop, max_hdop), Result("WARN", s.hdop)>>,
    <<TRUE, Result("PASS", s.num_sats)>> >>
<1>1. 1 \in DOMAIN rows /\ DOMAIN rows \subseteq Nat \ {0}
  OBVIOUS
<1>2. rows[1][1]
  OBVIOUS
<1>3. rows[1][2] = Missing
  OBVIOUS
<1>4. GnssFix(s) = First(rows)
  BY DEF GnssFix
<1> HIDE DEF rows
<1> QED BY <1>1, <1>2, <1>3, <1>4, FirstRow

(* Without a heading nothing valid,                                           *)
LEMMA HeadingValidUnheard ==
    ASSUME NEW s, s.heading_valid = None PROVE HeadingValid(s) = Missing
<1> DEFINE rows == <<
    <<s.heading_valid = None, Missing>>,
    <<s.heading_valid = FALSE, Result("FAIL", None)>>,
    <<Above(s.heading_accuracy, max_heading_accuracy_deg),
      Result("WARN", s.heading_accuracy)>>,
    <<TRUE, Result("PASS", s.heading_accuracy)>> >>
<1>1. 1 \in DOMAIN rows /\ DOMAIN rows \subseteq Nat \ {0}
  OBVIOUS
<1>2. rows[1][1]
  OBVIOUS
<1>3. rows[1][2] = Missing
  OBVIOUS
<1>4. HeadingValid(s) = First(rows)
  BY DEF HeadingValid
<1> HIDE DEF rows
<1> QED BY <1>1, <1>2, <1>3, <1>4, FirstRow

(* without the sonar's status no link,                                        *)
LEMMA SonarLinkUnheard ==
    ASSUME NEW s, s.sonar_connected = None PROVE SonarLink(s) = Missing
<1> DEFINE rows == <<
    <<s.sonar_connected = None, Missing>>,
    <<s.sonar_connected = FALSE, Result("FAIL", None)>>,
    <<Below(s.sonar_rate, min_sonar_ping_rate_hz), Result("WARN", s.sonar_rate)>>,
    <<Below(s.sonar_points, min_sonar_points), Result("WARN", s.sonar_points)>>,
    <<TRUE, Result("PASS", s.sonar_rate)>> >>
<1>1. 1 \in DOMAIN rows /\ DOMAIN rows \subseteq Nat \ {0}
  OBVIOUS
<1>2. rows[1][1]
  OBVIOUS
<1>3. rows[1][2] = Missing
  OBVIOUS
<1>4. SonarLink(s) = First(rows)
  BY DEF SonarLink
<1> HIDE DEF rows
<1> QED BY <1>1, <1>2, <1>3, <1>4, FirstRow

(* nor a clock to compare.                                                    *)
LEMMA GpsClockUnheard ==
    ASSUME NEW s, s.fix_type = None PROVE GpsClock(s) = Missing
<1> DEFINE rows == <<
    <<s.fix_type = None, Missing>>,
    <<Below(s.fix_type, 3), Missing>>,
    <<s.gps_offset = None, Result("FAIL", None)>>,
    <<Above(s.gps_age, max_gps_time_age_s), Result("FAIL", s.gps_age)>>,
    <<Above(Magnitude(s.gps_offset), max_gps_offset_ms), Result("FAIL", s.gps_offset)>>,
    <<TRUE, Result("PASS", s.gps_offset)>> >>
<1>1. 1 \in DOMAIN rows /\ DOMAIN rows \subseteq Nat \ {0}
  OBVIOUS
<1>2. rows[1][1]
  OBVIOUS
<1>3. rows[1][2] = Missing
  OBVIOUS
<1>4. GpsClock(s) = First(rows)
  BY DEF GpsClock
<1> HIDE DEF rows
<1> QED BY <1>1, <1>2, <1>3, <1>4, FirstRow

(* nor an offset of its clock,                                                *)
LEMMA SonarClockUnheard ==
    ASSUME NEW s, s.clock_offset = None PROVE SonarClock(s) = Missing
<1> DEFINE rows == <<
    <<s.clock_offset = None, Missing>>,
    <<Above(Magnitude(s.clock_offset), max_clock_offset_ms),
      Result("FAIL", s.clock_offset)>>,
    <<TRUE, Result("PASS", s.clock_offset)>> >>
<1>1. 1 \in DOMAIN rows /\ DOMAIN rows \subseteq Nat \ {0}
  OBVIOUS
<1>2. rows[1][1]
  OBVIOUS
<1>3. rows[1][2] = Missing
  OBVIOUS
<1>4. SonarClock(s) = First(rows)
  BY DEF SonarClock
<1> HIDE DEF rows
<1> QED BY <1>1, <1>2, <1>3, <1>4, FirstRow

(* and without charge and voltage no battery.                                 *)
LEMMA BatteryChargeUnheard ==
    ASSUME NEW s, s.soc = None, s.voltage = None PROVE BatteryCharge(s) = Missing
<1> DEFINE rows == <<
    <<s.soc = None /\ s.voltage = None, Missing>>,
    <<Below(s.voltage, min_battery_voltage), Result("FAIL", s.voltage)>>,
    <<Below(s.soc, min_battery_soc), Result("WARN", s.soc)>>,
    <<TRUE, Result("PASS", IF s.soc = None THEN 0 ELSE s.soc)>> >>
<1>1. 1 \in DOMAIN rows /\ DOMAIN rows \subseteq Nat \ {0}
  OBVIOUS
<1>2. rows[1][1]
  OBVIOUS
<1>3. rows[1][2] = Missing
  OBVIOUS
<1>4. BatteryCharge(s) = First(rows)
  BY DEF BatteryCharge
<1> HIDE DEF rows
<1> QED BY <1>1, <1>2, <1>3, <1>4, FirstRow
---------------------------------------------------------------------------
(* What was published on every topic a check needs.                          *)
Heard(c) == \A t \in Needs(c) : t \in Topics /\ heard[t] # None

AskedFor(c) == report.only = {} \/ c \in report.only

TestIInv ==
    /\ DOMAIN heard = Topics
    /\ pico_age # None => "pico" \in Topics /\ heard["pico"] # None
    /\ report # None /\ report.go => \A c \in Critical : AskedFor(c) => Heard(c)

(* A critical check whose topic nobody heard cannot run.                     *)
LEMMA UnheardIsSkipped ==
    ASSUME TestIInv, NEW disk, NEW c \in Critical, ~Heard(c)
    PROVE  c \in DOMAIN Answers(State(disk)) /\ Answers(State(disk))[c] = Missing
<1> DEFINE s == State(disk)
<1>1. \A t, f : ~(t \in Topics /\ heard[t] # None) => Field(t, f) = None
  BY DEF Field
<1>2. PICK t \in Needs(c) : ~(t \in Topics /\ heard[t] # None)
  BY DEF Heard
<1>3. \A f : Field(t, f) = None
  BY <1>1, <1>2
<1>4. CASE c = "pico_link"
  <2>1. t = "pico"
    BY <1>2, <1>4 DEF Needs
  <2>2. s.pico_age = None
    BY <2>1, <1>2 DEF State, TestIInv
  <2> QED BY <2>2, <1>4, PicoLinkUnheard DEF Answers
<1>5. CASE c = "pico_firmware_version"
  <2>1. t = "pico"
    BY <1>2, <1>5 DEF Needs
  <2>2. s.firmware = None
    BY <2>1, <1>3 DEF State
  <2> QED BY <2>2, <1>5, FirmwareVersionUnheard DEF Answers
<1>6. CASE c = "gnss_fix"
  <2>1. t = "fix"
    BY <1>2, <1>6 DEF Needs
  <2>2. s.fix_type = None
    BY <2>1, <1>3 DEF State
  <2> QED BY <2>2, <1>6, GnssFixUnheard DEF Answers
<1>7. CASE c = "clock_gps_offset"
  <2>1. t = "fix"
    BY <1>2, <1>7 DEF Needs
  <2>2. s.fix_type = None
    BY <2>1, <1>3 DEF State
  <2> QED BY <2>2, <1>7, GpsClockUnheard DEF Answers
<1>8. CASE c = "heading_valid"
  <2>1. t = "heading"
    BY <1>2, <1>8 DEF Needs
  <2>2. s.heading_valid = None
    BY <2>1, <1>3 DEF State
  <2> QED BY <2>2, <1>8, HeadingValidUnheard DEF Answers
<1>9. CASE c = "sonar_link"
  <2>1. t = "sonar"
    BY <1>2, <1>9 DEF Needs
  <2>2. s.sonar_connected = None
    BY <2>1, <1>3 DEF State
  <2> QED BY <2>2, <1>9, SonarLinkUnheard DEF Answers
<1>10. CASE c = "sonar_clock"
  <2>1. t = "sonar"
    BY <1>2, <1>10 DEF Needs
  <2>2. s.clock_offset = None
    BY <2>1, <1>3 DEF State
  <2> QED BY <2>2, <1>10, SonarClockUnheard DEF Answers
<1>11. CASE c = "battery_charge"
  <2>1. t = "battery"
    BY <1>2, <1>11 DEF Needs
  <2>2. s.soc = None /\ s.voltage = None
    BY <2>1, <1>3 DEF State
  <2> QED BY <2>2, <1>11, BatteryChargeUnheard DEF Answers
<1>12. c # "disk_space"
  BY <1>2 DEF Needs
<1> QED BY <1>4, <1>5, <1>6, <1>7, <1>8, <1>9, <1>10, <1>11, <1>12 DEF Critical

(* A GO answers for every critical check that was asked.                     *)
LEMMA GoIsHeard ==
    ASSUME TestIInv, NEW disk, NEW only, RunChecks(State(disk), only).go,
           NEW c \in Critical, only = {} \/ c \in only
    PROVE  Heard(c)
<1> SUFFICES ASSUME ~Heard(c) PROVE FALSE
  OBVIOUS
<1> DEFINE all == Answers(State(disk))
           items == [k \in (IF only = {} THEN DOMAIN all ELSE only \cap DOMAIN all) |-> all[k]]
<1>1. c \in DOMAIN all /\ all[c] = Missing
  BY UnheardIsSkipped
<1>2. all[c].status = "SKIPPED"
  BY <1>1 DEF Missing, Result
<1> HIDE DEF all
<1>3. c \in DOMAIN items /\ items[c].status = "SKIPPED"
  BY <1>1, <1>2
<1>4. \A k \in DOMAIN items : items[k].status = "SKIPPED" => k \notin Critical
  BY DEF RunChecks, all
<1> QED BY <1>3, <1>4

(* The node has just started.                                                *)
LEMMA TestStarts == TestInit => TestIInv
  BY DEF TestInit, TestIInv

(* A run, at boot or on request.                                             *)
LEMMA RunKeeps ==
    ASSUME TestIInv, NEW only, Run(only) PROVE TestIInv'
<1>1. PICK disk \in Disk :
        report' = [only |-> only, go |-> RunChecks(State(disk), only).go, number |-> runs']
  BY DEF Run
<1>2. UNCHANGED <<heard, pico_age>>
  BY DEF Run, inputs
<1>3. report'.only = only /\ report'.go = RunChecks(State(disk), only).go
  BY <1>1
<1>4. ASSUME report'.go, NEW c \in Critical, AskedFor(c)' PROVE Heard(c)'
  <2>1. Heard(c)
    BY <1>3, <1>4, GoIsHeard DEF AskedFor
  <2> QED BY <2>1, <1>2 DEF Heard
<1> QED BY <1>2, <1>4 DEF TestIInv

(* A message; the report stands.                                             *)
LEMMA HearKeeps ==
    ASSUME TestIInv, NEW t \in Topics, Hear(t) PROVE TestIInv'
<1>1. PICK m \in Messages[t] : heard' = [heard EXCEPT ![t] = m]
  BY DEF Hear
<1>2. m # None /\ report' = report /\ pico_age' = IF t = "pico" THEN 0 ELSE pico_age
  BY MessagesAssumption DEF Hear
<1>3. /\ DOMAIN heard' = Topics /\ heard'[t] # None
      /\ \A u \in Topics : heard[u] # None => heard'[u] # None
  BY <1>1, <1>2 DEF TestIInv
<1>4. \A c : Heard(c) => Heard(c)'
  BY <1>3 DEF Heard
<1>5. \A c : AskedFor(c)' <=> AskedFor(c)
  BY <1>2 DEF AskedFor
<1>6. pico_age' # None => "pico" \in Topics /\ heard'["pico"] # None
  BY <1>2, <1>3 DEF TestIInv
<1> QED BY <1>2, <1>3, <1>4, <1>5, <1>6 DEF TestIInv

(* What a GO stands on.                                                      *)
THEOREM TestInvariant == TestSpec => []TestIInv
<1>1. TestIInv /\ [TestNext]_testVars => TestIInv'
  <2> SUFFICES ASSUME TestIInv, [TestNext]_testVars PROVE TestIInv'
    OBVIOUS
  <2>1. CASE \E t \in Topics : Hear(t)
    BY <2>1, HearKeeps
  <2>2. CASE RunAtBoot \/ OnRun
    BY <2>2, RunKeeps DEF RunAtBoot, OnRun
  <2>3. CASE \/ \E n \in DOMAIN Diagnostics : HearDiagnostics(n)
             \/ Second \/ UNCHANGED testVars
    <3>1. UNCHANGED <<heard, report>> /\ (pico_age' # None => pico_age # None)
      BY <2>3 DEF HearDiagnostics, Second, testVars
    <3> QED BY <3>1 DEF TestIInv, AskedFor, Heard
  <2> QED BY <2>1, <2>2, <2>3 DEF TestNext
<1> QED BY <1>1, TestStarts, PTL DEF TestSpec

(* No GO on what nobody heard.                                               *)
THEOREM GoMeansHeardHolds == TestSpec => []GoMeansHeard
<1>1. TestIInv => GoMeansHeard
  BY DEF TestIInv, GoMeansHeard, AskedFor, Heard
<1> QED BY <1>1, TestInvariant, PTL

----------------------------------------------------------------------------
\* Induction over the natural numbers, over the set of those for which a claim holds:
\* otherwise the exceptions up to one of them could be counted into fewer, each by the
\* number before it, which is an exception too.
LEMMA SetInduction ==
    ASSUME NEW T \in SUBSET Nat, 0 \in T, \A k \in T : k + 1 \in T
    PROVE  T = Nat
<1> SUFFICES ASSUME NEW n \in Nat, n \notin T PROVE FALSE
    OBVIOUS
<1> DEFINE F == {k \in 0 .. n : k \notin T}
           f == [k \in F |-> k - 1]
<1>1. F \subseteq Nat /\ n \in F /\ 0 \notin F /\ \A k \in F : k <= n
    OBVIOUS
<1>2. IsFiniteSet(F) /\ Cardinality(F) \in Nat
    BY <1>1, FS_BoundedSetOfNaturals, FS_CardinalityType
<1>3. IsFiniteSet(F \ {n}) /\ Cardinality(F \ {n}) < Cardinality(F)
    BY <1>1, <1>2, FS_RemoveElement
<1>4. ASSUME NEW k \in F PROVE k - 1 \in F \ {n}
    <2>1. k \in Nat /\ k <= n /\ k # 0 /\ k - 1 \in Nat /\ (k - 1) + 1 = k
        BY <1>1
    <2>2. k - 1 \notin T
        BY <2>1
    <2> QED BY <2>1, <2>2
<1>5. f \in [F -> F \ {n}]
    BY <1>4
<1> HIDE DEF F, f
<1>6. PICK x \in F, y \in F : x # y /\ f[x] = f[y]
    BY <1>2, <1>3, <1>5, FS_PigeonHole
<1>7. x - 1 = y - 1 /\ x \in Int /\ y \in Int
    BY <1>1, <1>6 DEF f
<1> QED BY <1>6, <1>7

\* A set of naturals that is bounded and not empty has a largest element.
LEMMA LargestExists ==
    ASSUME NEW n \in Nat, NEW S \in SUBSET (0 .. n), S # {}
    PROVE  \E i \in S : \A j \in S : j <= i
<1> DEFINE Has(k) == \A R \in SUBSET (0 .. k) : R # {} => \E i \in R : \A j \in R : j <= i
           T == {k \in Nat : Has(k)}
<1>1. Has(0)
    <2> SUFFICES ASSUME NEW R \in SUBSET (0 .. 0), R # {}
                 PROVE  \E i \in R : \A j \in R : j <= i
        OBVIOUS
    <2>1. PICK i \in R : TRUE
        OBVIOUS
    <2>2. i = 0 /\ \A j \in R : j = 0 /\ 0 <= 0
        OBVIOUS
    <2> QED BY <2>2
<1>2. ASSUME NEW k \in Nat, Has(k) PROVE Has(k + 1)
    <2> SUFFICES ASSUME NEW R \in SUBSET (0 .. k + 1), R # {}
                 PROVE  \E i \in R : \A j \in R : j <= i
        OBVIOUS
    <2>1. CASE k + 1 \in R
        <3>1. k \in Nat /\ \A j \in R : j <= k + 1
            OBVIOUS
        <3> QED BY <2>1, <3>1
    <2>2. CASE k + 1 \notin R
        <3>1. \A j \in R : j \in Nat /\ j <= k
            BY <2>2
        <3>2. R \in SUBSET (0 .. k)
            BY <3>1
        <3> QED BY <1>2, <3>2
    <2> QED BY <2>1, <2>2
<1> HIDE DEF Has
<1>3. T \in SUBSET Nat /\ 0 \in T /\ \A k \in T : k + 1 \in T
    BY <1>1, <1>2
<1> HIDE DEF T
<1>4. T = Nat
    BY <1>3, SetInduction
<1>5. Has(n)
    BY <1>4 DEF T
<1> QED BY <1>5 DEF Has

----------------------------------------------------------------------------
\* The obstacle cloud.  A detection counts as confirmed by the number the mask gives a
\* point: it must be the number of a detection for the count to mean anything.
Frames == Seq([column : Columns, pixels : SUBSET Columns])

FusionTypeOK ==
    /\ lidarPts \subseteq Directions
    /\ detections \in Frames
    /\ segMask \in CameraFrames \cup {NoMask}

(* The caches hold what the topics carry.                                   *)
LEMMA FusionTypesInit == FusionInit => FusionTypeOK
BY DEF FusionInit, FusionTypeOK, Frames

(* ... and go on holding it.                                                 *)
LEMMA FusionTypesNext == FusionTypeOK /\ [FusionNext]_fusionVars => FusionTypeOK'
<1> SUFFICES ASSUME FusionTypeOK, [FusionNext]_fusionVars PROVE FusionTypeOK'
    OBVIOUS
<1>1. ASSUME NEW scan, LidarScan(scan) PROVE FusionTypeOK'
    BY <1>1 DEF LidarScan, PointsOf, FusionTypeOK
<1>2. ASSUME NEW frame \in CameraFrames, DetCallback(frame) PROVE FusionTypeOK'
    BY <1>2, FramesAssumption DEF DetCallback, FusionTypeOK, Frames
<1>3. ASSUME NEW frame \in CameraFrames, MaskCallback(frame) PROVE FusionTypeOK'
    BY <1>3 DEF MaskCallback, FusionTypeOK
<1>4. ASSUME NEW tf, Publish(tf) PROVE FusionTypeOK'
    BY <1>4 DEF Publish, FusionTypeOK
<1>5. CASE UNCHANGED fusionVars
    BY <1>5 DEF fusionVars, FusionTypeOK
<1> QED BY <1>1, <1>2, <1>3, <1>4, <1>5 DEF FusionNext

\* A column of the segmentation map holds a number: 0, or that of a detection.
LEMMA SegMapValue ==
    ASSUME NEW frame \in Frames, NEW c \in Columns
    PROVE  SegMap(frame)[c] \in Nat
<1> DEFINE over == {i \in DOMAIN frame : c \in frame[i].pixels}
<1>1. SegMap(frame)[c] =
        IF over = {} THEN 0 ELSE CHOOSE i \in over : \A j \in over : j <= i
    BY DEF SegMap
<1>2. Len(frame) \in Nat /\ over \in SUBSET (0 .. Len(frame)) /\ over \subseteq Nat
    BY DEF Frames
<1> HIDE DEF over
<1>3. over # {} => \E i \in over : \A j \in over : j <= i
    BY <1>2, LargestExists
<1> DEFINE top == CHOOSE i \in over : \A j \in over : j <= i
<1>4. over # {} => top \in over
    BY <1>3
<1>5. SegMap(frame)[c] = IF over = {} THEN 0 ELSE top
    BY <1>1 
<1> HIDE DEF top
<1>6. CASE over = {}
    BY <1>5, <1>6
<1>7. CASE over # {}
    <2>1. SegMap(frame)[c] = top /\ top \in Nat
        BY <1>2, <1>4, <1>5, <1>7
    <2> QED BY <2>1
<1> QED BY <1>6, <1>7

\* Whatever the camera finds, however the masks overlap and wherever the lidar has
\* points: no detection of a frame whose mask is the one at hand is left out.
THEOREM DetectionsAreShown == FusionSpec => EveryDetectionIsShown
<1> DEFINE Shown ==
        fused' # fused /\ detections = segMask =>
            \A i \in DOMAIN detections :
                \/ [at |-> Bearing(detections[i].column), label |-> 2] \in fused'
                \/ \E d \in lidarPts \ {Astern} :
                      /\ SegMap(detections)[Project(d)] = i
                      /\ [at |-> d, label |-> 1] \in fused'
<1>1. FusionTypeOK /\ FusionNext => Shown
    <2> SUFFICES ASSUME FusionTypeOK, FusionNext, fused' # fused, detections = segMask,
                        NEW i \in DOMAIN detections
                 PROVE  \/ [at |-> Bearing(detections[i].column), label |-> 2] \in fused'
                        \/ \E d \in lidarPts \ {Astern} :
                              /\ SegMap(detections)[Project(d)] = i
                              /\ [at |-> d, label |-> 1] \in fused'
        OBVIOUS
    <2>1. PICK tf \in BOOLEAN : Publish(tf)
        BY DEF FusionNext, LidarScan, DetCallback, MaskCallback
    <2> DEFINE Labelled(d) == tf /\ segMask # NoMask /\ MaskAt(d) > 0
               covered == {DetectionOf(MaskAt(d)) : d \in {e \in lidarPts : Labelled(e)}}
               points == {[at |-> d, label |-> IF Labelled(d) THEN 1 ELSE 0] : d \in lidarPts}
               bearings == {[at |-> Bearing(detections[j].column), label |-> 2] :
                                j \in {k \in DOMAIN detections : k - 1 \notin covered}}
    <2>2. fused' = points \cup bearings
        BY <2>1 DEF Publish
    <2>3. CASE i - 1 \notin covered
        <3>1. [at |-> Bearing(detections[i].column), label |-> 2] \in bearings
            BY <2>3
        <3> QED BY <3>1, <2>2
    <2>4. CASE i - 1 \in covered
        <3>1. PICK d \in lidarPts : Labelled(d) /\ DetectionOf(MaskAt(d)) = i - 1
            BY <2>4
        <3>2. d # Astern /\ MaskAt(d) = SegMap(segMask)[Project(d)]
            BY <3>1 DEF MaskAt
        <3>3. Project(d) \in Columns
            BY <3>2, FramesAssumption DEF FusionTypeOK, Directions, Columns, Project
        <3>4. MaskAt(d) \in Nat
            BY <3>2, <3>3, SegMapValue DEF FusionTypeOK
        <3>5. i \in Nat
            BY DEF FusionTypeOK, Frames
        <3>6. SegMap(detections)[Project(d)] = i
            BY <3>1, <3>2, <3>4, <3>5 DEF DetectionOf
        <3>7. [at |-> d, label |-> 1] \in points
            BY <3>1
        <3> HIDE DEF points, bearings
        <3> QED BY <2>2, <3>2, <3>6, <3>7
    <2> QED BY <2>3, <2>4
<1>2. FusionTypeOK /\ [FusionNext]_fusionVars => [Shown]_fusionVars
    BY <1>1
<1> QED BY <1>2, FusionTypesInit, FusionTypesNext, PTL DEF FusionSpec, EveryDetectionIsShown

----------------------------------------------------------------------------
\* The tracker.  First what is true of finite sets of numbers: the smallest, and the
\* sum of equals.

\* A set of naturals that is not empty has a smallest element.
LEMMA SmallestExists ==
    ASSUME NEW S \in SUBSET Nat, S # {}
    PROVE  \E i \in S : \A j \in S : i <= j
<1> DEFINE Has(k) == \A R \in SUBSET Nat : (\E x \in R : x <= k) => \E i \in R : \A j \in R : i <= j
           T == {k \in Nat : Has(k)}
<1>1. Has(0)
    <2> SUFFICES ASSUME NEW R \in SUBSET Nat, NEW x \in R, x <= 0
                 PROVE  \E i \in R : \A j \in R : i <= j
        OBVIOUS
    <2>1. x = 0 /\ \A j \in R : x <= j
        OBVIOUS
    <2> QED BY <2>1
<1>2. ASSUME NEW k \in Nat, Has(k) PROVE Has(k + 1)
    <2> SUFFICES ASSUME NEW R \in SUBSET Nat, NEW x \in R, x <= k + 1
                 PROVE  \E i \in R : \A j \in R : i <= j
        OBVIOUS
    <2>1. CASE \E y \in R : y <= k
        BY <1>2, <2>1
    <2>2. CASE \A y \in R : ~(y <= k)
        <3>1. x = k + 1 /\ \A j \in R : x <= j
            BY <2>2
        <3> QED BY <3>1
    <2> QED BY <2>1, <2>2
<1> HIDE DEF Has
<1>3. T \in SUBSET Nat /\ 0 \in T /\ \A k \in T : k + 1 \in T
    BY <1>1, <1>2
<1> HIDE DEF T
<1>4. T = Nat
    BY <1>3, SetInduction
<1>5. PICK x \in S : TRUE
    OBVIOUS
<1>6. Has(x)
    BY <1>4 DEF T
<1> QED BY <1>5, <1>6 DEF Has

\* The sum over a set whose members all count for the same, by induction over the size.
LEMMA SumOfEquals ==
    ASSUME NEW points, NEW c, IsFiniteSet(c), NEW p \in Int, \A i \in c : points[i] = p
    PROVE  MapThenSumSet(LAMBDA i : points[i], c) = p * Cardinality(c)
<1> DEFINE Sums(f) == f = [s \in SUBSET c |-> IF s = {} THEN 0
                                  ELSE LET x == CHOOSE y \in s : TRUE IN points[x] + f[s \ {x}]]
           g == [s \in SUBSET c |-> p * Cardinality(s)]
           sum == CHOOSE f : Sums(f)
<1>1. ASSUME NEW s \in SUBSET c, s # {}, NEW x, x = CHOOSE y \in s : TRUE
      PROVE  /\ x \in s /\ points[x] = p /\ s \ {x} \in SUBSET c
             /\ Cardinality(s) \in Nat /\ Cardinality(s \ {x}) = Cardinality(s) - 1
             /\ p * Cardinality(s) = p + p * Cardinality(s \ {x})
    <2>1. x \in s
        BY <1>1
    <2>2. IsFiniteSet(s) /\ s \ {x} \in SUBSET c /\ points[x] = p
        BY <2>1, FS_Subset
    <2>3. Cardinality(s \ {x}) = Cardinality(s) - 1 /\ Cardinality(s) \in Nat
        BY <2>1, <2>2, FS_RemoveElement, FS_CardinalityType
    <2>4. p * Cardinality(s) = p + p * (Cardinality(s) - 1)
        BY <2>3
    <2> QED BY <2>1, <2>2, <2>3, <2>4
<1>2. Sums(g)
    <2>1. ASSUME NEW s \in SUBSET c
          PROVE  g[s] = IF s = {} THEN 0
                        ELSE LET x == CHOOSE y \in s : TRUE IN points[x] + g[s \ {x}]
        <3>1. CASE s = {}
            BY <3>1, FS_EmptySet
        <3>2. CASE s # {}
            <4> DEFINE x == CHOOSE y \in s : TRUE
            <4>1. g[s] = points[x] + g[s \ {x}]
                <5> HIDE DEF x
                <5> QED BY <1>1, <3>2 DEF x
            <4> QED BY <3>2, <4>1
        <3> QED BY <3>1, <3>2
    <2> QED BY <2>1
<1> HIDE DEF g
<1>3. Sums(sum)
    BY <1>2
<1>4. MapThenSumSet(LAMBDA i : points[i], c) = sum[c]
    BY DEF MapThenSumSet, MapThenFoldSet
<1> DEFINE Right(n) == \A s \in SUBSET c : Cardinality(s) = n => sum[s] = p * n
           T == {n \in Nat : Right(n)}
<1>5. ASSUME NEW s \in SUBSET c
      PROVE  sum[s] = IF s = {} THEN 0
                      ELSE LET x == CHOOSE y \in s : TRUE IN points[x] + sum[s \ {x}]
    BY <1>3
<1> HIDE DEF sum, Sums
<1>6. Right(0)
    <2> SUFFICES ASSUME NEW s \in SUBSET c, Cardinality(s) = 0 PROVE sum[s] = p * 0
        OBVIOUS
    <2>1. s = {}
        BY FS_Subset, FS_EmptySet
    <2>2. sum[s] = 0
        BY <1>5, <2>1
    <2>3. p * 0 = 0
        OBVIOUS
    <2> QED BY <2>2, <2>3
<1>7. ASSUME NEW n \in Nat, Right(n) PROVE Right(n + 1)
    <2> SUFFICES ASSUME NEW s \in SUBSET c, Cardinality(s) = n + 1 PROVE sum[s] = p * (n + 1)
        OBVIOUS
    <2>1. s # {}
        BY FS_EmptySet
    <2> DEFINE x == CHOOSE y \in s : TRUE
    <2>2. sum[s] = points[x] + sum[s \ {x}]
        BY <1>5, <2>1
    <2>6. x = CHOOSE y \in s : TRUE
        OBVIOUS
    <2> HIDE DEF x
    <2>3. points[x] = p /\ s \ {x} \in SUBSET c /\ Cardinality(s \ {x}) = n
        <3>1. points[x] = p /\ s \ {x} \in SUBSET c /\ Cardinality(s \ {x}) = Cardinality(s) - 1
            BY <1>1, <2>1, <2>6
        <3> QED BY <3>1
    <2>4. sum[s \ {x}] = p * n
        BY <1>7, <2>3
    <2>5. p * (n + 1) = p + p * n
        OBVIOUS
    <2> QED BY <2>2, <2>3, <2>4, <2>5
<1> HIDE DEF Right
<1>8. T \in SUBSET Nat /\ 0 \in T /\ \A n \in T : n + 1 \in T
    BY <1>6, <1>7
<1> HIDE DEF T
<1>9. T = Nat
    BY <1>8, SetInduction
<1>10. Right(Cardinality(c))
    BY <1>9, FS_CardinalityType DEF T
<1>11. c \in SUBSET c
    OBVIOUS
<1>12. sum[c] = p * Cardinality(c)
    BY <1>10, <1>11 DEF Right
<1> QED BY <1>4, <1>12

LEMMA DivideBack ==
    ASSUME NEW p \in Int, NEW n \in Nat \ {0}
    PROVE  (p * n) \div n = p
OBVIOUS

LEMMA SweepFacts ==
    ASSUME NEW scan \in Sweeps
    PROVE  /\ DOMAIN scan \subseteq Nat /\ IsFiniteSet(DOMAIN scan)
           /\ \A i \in DOMAIN scan : scan[i] \in Places
<1>1. PICK n \in 0 .. MaxPoints : scan \in [1 .. n -> Places]
    BY DEF Sweeps
<1>2. n \in Int /\ MaxPoints \in Nat
    BY ObjectsAssumption
<1> QED BY <1>1, <1>2, FS_Interval

LEMMA ApartFacts ==
    /\ Places \subseteq Int /\ ClusterTol \in Nat /\ Gate \in Nat
    /\ MaxMisses \in Nat /\ MaxDrift \in Nat /\ MaxDrift * (MaxMisses + 1) \in Nat
    /\ MinCluster \in Nat \ {0}
    /\ \A p \in Int : Gap(p, p) = 0
    /\ \A p, q \in Int : Gap(p, q) \in Nat
    /\ \A p, q \in Places : Gap(p, q) <= ClusterTol => p = q
<1>1. /\ Places \subseteq Int /\ ClusterTol \in Nat /\ Gate \in Nat
      /\ MaxMisses \in Nat /\ MaxDrift \in Nat
      /\ MinCluster \in Nat \ {0}
    BY ObjectsAssumption
<1>2. MaxDrift * (MaxMisses + 1) \in Nat
    BY <1>1
<1>3. /\ \A p \in Int : Gap(p, p) = 0
      /\ \A p, q \in Int : Gap(p, q) \in Nat
    BY DEF Gap
<1>4. \A p, q \in Places : Gap(p, q) <= ClusterTol => p = q
    BY <1>1, <1>3, ObjectsAssumption
<1> QED BY <1>1, <1>2, <1>3, <1>4

\* Objects that stay apart: a cluster is the returns of one of them.
LEMMA ClusterOfObject ==
    ASSUME NEW scan \in Sweeps
    PROVE  EuclideanCluster(scan) = {Returns(scan, p) : p \in Seen(scan)}
<1> DEFINE grown == {S \in (SUBSET DOMAIN scan) \ {{}} :
                \A j \in S, k \in (DOMAIN scan) \ S : Gap(scan[j], scan[k]) > ClusterTol}
<1>1. EuclideanCluster(scan) =
        {c \in grown : Cardinality(c) >= MinCluster /\ \A S \in grown : S \subseteq c => S = c}
    BY DEF EuclideanCluster
<1>2. ASSUME NEW p \in Places, Returns(scan, p) # {} PROVE Returns(scan, p) \in grown
    <2>1. ASSUME NEW j \in Returns(scan, p), NEW k \in (DOMAIN scan) \ Returns(scan, p)
          PROVE  Gap(scan[j], scan[k]) > ClusterTol
        <3>1. scan[j] = p /\ scan[k] # p /\ scan[k] \in Places
            BY SweepFacts DEF Returns
        <3>2. Gap(p, scan[k]) \in Nat /\ ClusterTol \in Nat
            BY <3>1, ApartFacts
        <3>3. ~(Gap(p, scan[k]) <= ClusterTol)
            BY <3>1, ApartFacts
        <3>4. Gap(p, scan[k]) > ClusterTol
            BY <3>2, <3>3
        <3> QED BY <3>1, <3>4
    <2>2. Returns(scan, p) \in (SUBSET DOMAIN scan) \ {{}}
        BY <1>2 DEF Returns
    <2> QED BY <2>1, <2>2
<1>3. ASSUME NEW S \in grown, NEW j \in S PROVE Returns(scan, scan[j]) \subseteq S
    <2> SUFFICES ASSUME NEW k \in Returns(scan, scan[j]), k \notin S PROVE FALSE
        OBVIOUS
    <2>1. k \in DOMAIN scan /\ scan[k] = scan[j] /\ scan[j] \in Places /\ j \in DOMAIN scan
        BY SweepFacts DEF Returns
    <2>2. Gap(scan[j], scan[k]) = 0 /\ ClusterTol \in Nat
        BY <2>1, ApartFacts
    <2>3. Gap(scan[j], scan[k]) > ClusterTol
        BY <2>1
    <2> QED BY <2>2, <2>3
<1> HIDE DEF grown
<1>4. ASSUME NEW S \in grown PROVE S # {} /\ S \subseteq DOMAIN scan
    BY DEF grown
<1>5. ASSUME NEW c \in EuclideanCluster(scan) PROVE \E p \in Seen(scan) : c = Returns(scan, p)
    <2>1. c \in grown /\ Cardinality(c) >= MinCluster /\ \A S \in grown : S \subseteq c => S = c
        BY <1>1
    <2>2. PICK j \in c : j \in DOMAIN scan
        BY <1>4, <2>1
    <2>3. scan[j] \in Places /\ j \in Returns(scan, scan[j])
        BY <2>2, SweepFacts DEF Returns
    <2>4. Returns(scan, scan[j]) = c
        BY <1>2, <1>3, <2>1, <2>3
    <2>5. scan[j] \in Seen(scan)
        BY <2>1, <2>3, <2>4 DEF Seen, Returns
    <2> QED BY <2>4, <2>5
<1>6. ASSUME NEW p \in Seen(scan) PROVE Returns(scan, p) \in EuclideanCluster(scan)
    <2>1. p \in Places /\ Cardinality(Returns(scan, p)) >= MinCluster
        BY DEF Seen, Returns
    <2>2. Returns(scan, p) # {}
        <3>1. Cardinality({}) = 0
            BY FS_EmptySet
        <3>2. ~(0 >= MinCluster)
            BY ApartFacts
        <3> QED BY <2>1, <3>1, <3>2
    <2>3. ASSUME NEW S \in grown, S \subseteq Returns(scan, p) PROVE S = Returns(scan, p)
        <3>1. PICK j \in S : scan[j] = p
            BY <1>4, <2>3 DEF Returns
        <3> QED BY <1>3, <2>3, <3>1
    <2> QED BY <1>1, <1>2, <2>1, <2>2, <2>3
<1> QED BY <1>5, <1>6

\* ... and is where the object is.
LEMMA ReturnsFacts ==
    ASSUME NEW scan \in Sweeps, NEW p \in Seen(scan)
    PROVE  /\ p \in Places /\ Returns(scan, p) # {} /\ Returns(scan, p) \subseteq Nat
           /\ Centroid(scan, Returns(scan, p)) = p
           /\ Min(Returns(scan, p)) \in Returns(scan, p)
<1> DEFINE c == Returns(scan, p)
<1>1. p \in Places /\ p \in Int /\ Cardinality(c) >= MinCluster
    BY ApartFacts DEF Seen, Returns
<1>2. c \subseteq Nat /\ IsFiniteSet(c)
    BY SweepFacts, FS_Subset DEF Returns
<1>3. Cardinality(c) \in Nat \ {0}
    BY <1>1, <1>2, FS_CardinalityType, ApartFacts
<1>4. c # {}
    BY <1>3, FS_EmptySet
<1>5. \A i \in c : scan[i] = p
    BY DEF Returns
<1> HIDE DEF c
<1>6. MapThenSumSet(LAMBDA i : scan[i], c) = p * Cardinality(c)
    BY <1>1, <1>2, <1>5, SumOfEquals
<1>7. Centroid(scan, c) = p
    BY <1>1, <1>3, <1>6, DivideBack DEF Centroid
<1>8. \E i \in c : \A j \in c : i <= j
    BY <1>2, <1>4, SmallestExists
<1>9. Min(c) \in c
    BY <1>8 DEF Min
<1> QED BY <1>1, <1>2, <1>4, <1>7, <1>9 DEF c

\* What the tracker is given: one measurement for each object that was seen, where it is.
Measures(meas, seen) ==
    /\ IsFiniteSet(meas)
    /\ \A o \in meas : o \in [first : Nat, at : {o.at}, cls : {o.cls}] /\ o.at \in seen
    /\ \A p \in seen : \E o \in meas : o.at = p
    /\ \A o, n \in meas : o.at = n.at \/ o.first = n.first => o = n

LEMMA FuseMeasures ==
    ASSUME NEW scan \in Sweeps, NEW dets
    PROVE  Measures(Fuse(dets, scan), Seen(scan))
<1> DEFINE clusters == EuclideanCluster(scan)
           Class(c, f) == IF f[c] = 0 THEN Unknown ELSE dets[f[c]].cls
           Obj(c, f) == [first |-> Min(c), at |-> Centroid(scan, c), cls |-> Class(c, f)]
<1>1. PICK f : Fuse(dets, scan) = {Obj(c, f) : c \in clusters}
    BY DEF Fuse
<1>2. Fuse(dets, scan) = {Obj(Returns(scan, p), f) : p \in Seen(scan)}
    BY <1>1, ClusterOfObject
<1> DEFINE At(p) == Obj(Returns(scan, p), f)
<1>3. ASSUME NEW p \in Seen(scan)
      PROVE  /\ At(p).at = p /\ At(p).first \in Returns(scan, p)
             /\ At(p) \in [first : Nat, at : {At(p).at}, cls : {At(p).cls}]
    BY ReturnsFacts
<1>4. ASSUME NEW p \in Seen(scan), NEW q \in Seen(scan), At(p).first = At(q).first
      PROVE  p = q
    BY <1>3, <1>4 DEF Returns
<1>5. IsFiniteSet(Seen(scan))
    <2> DEFINE h == [p \in Seen(scan) |-> Min(Returns(scan, p))]
    <2>1. \A p \in Seen(scan) : h[p] \in DOMAIN scan /\ scan[h[p]] = p
        BY ReturnsFacts DEF Returns
    <2>2. h \in Injection(Seen(scan), DOMAIN scan)
        BY <2>1 DEF Injection, IsInjective
    <2> QED BY <2>2, SweepFacts, FS_Injection
<1> DEFINE m == [p \in Seen(scan) |-> At(p)]
<1>6. m \in Surjection(Seen(scan), Fuse(dets, scan))
    BY <1>2 DEF Surjection
<1>7. IsFiniteSet(Fuse(dets, scan))
    BY <1>5, <1>6, FS_Surjection
<1> HIDE DEF At
<1>8. Fuse(dets, scan) = {At(p) : p \in Seen(scan)}
    BY <1>2 DEF At
<1> QED BY <1>3, <1>4, <1>7, <1>8 DEF Measures

\* The numbers of new tracks: each is the count of those before it.
Ahead(fresh, o) == {n \in fresh : n.first < o.first}

LEMMA RankFacts ==
    ASSUME NEW fresh, IsFiniteSet(fresh), \A o \in fresh : o.first \in Nat,
           \A o, n \in fresh : o.first = n.first => o = n
    PROVE  /\ Cardinality(fresh) \in Nat
           /\ \A o \in fresh : /\ Cardinality(Ahead(fresh, o)) \in Nat
                               /\ Cardinality(Ahead(fresh, o)) < Cardinality(fresh)
           /\ \A o, n \in fresh :
                 Cardinality(Ahead(fresh, o)) = Cardinality(Ahead(fresh, n)) => o = n
<1>1. ASSUME NEW S, S \subseteq fresh, NEW o \in S, NEW R, R \subseteq S \ {o}
      PROVE  /\ Cardinality(R) \in Nat /\ Cardinality(S) \in Nat
             /\ Cardinality(R) < Cardinality(S)
    <2>1. IsFiniteSet(S) /\ IsFiniteSet(S \ {o})
        BY <1>1, FS_Subset
    <2>2. Cardinality(S \ {o}) = Cardinality(S) - 1 /\ Cardinality(S) \in Nat
        BY <2>1, FS_RemoveElement, FS_CardinalityType
    <2>3. IsFiniteSet(R) /\ Cardinality(R) <= Cardinality(S \ {o})
        BY <1>1, <2>1, FS_Subset
    <2>4. Cardinality(R) \in Nat
        BY <2>3, FS_CardinalityType
    <2> QED BY <2>2, <2>3, <2>4
<1>2. Cardinality(fresh) \in Nat
    BY FS_CardinalityType
<1>3. ASSUME NEW o \in fresh PROVE Ahead(fresh, o) \subseteq fresh \ {o}
    BY DEF Ahead
<1>4. ASSUME NEW o \in fresh, NEW n \in fresh, o.first < n.first
      PROVE  Cardinality(Ahead(fresh, o)) # Cardinality(Ahead(fresh, n))
    <2>1. /\ o \in Ahead(fresh, n) /\ Ahead(fresh, n) \subseteq fresh
          /\ Ahead(fresh, o) \subseteq Ahead(fresh, n) \ {o}
        BY <1>4 DEF Ahead
    <2>2. /\ Cardinality(Ahead(fresh, o)) \in Nat /\ Cardinality(Ahead(fresh, n)) \in Nat
          /\ Cardinality(Ahead(fresh, o)) < Cardinality(Ahead(fresh, n))
        BY <1>1, <2>1
    <2> QED BY <2>2
<1>5. ASSUME NEW o \in fresh, NEW n \in fresh, o # n
      PROVE  o.first < n.first \/ n.first < o.first
    BY <1>5
<1>6. ASSUME NEW o \in fresh PROVE /\ Cardinality(Ahead(fresh, o)) \in Nat
                                   /\ Cardinality(Ahead(fresh, o)) < Cardinality(fresh)
    BY <1>1, <1>3
<1> QED BY <1>2, <1>4, <1>5, <1>6

\* When no two pairs within the gate compete, all of them are assigned.
Near(meas, trs) == {u \in meas \X trs : Gap(u[1].at, u[2].at) <= Gate}

LEMMA AssignAll ==
    ASSUME NEW meas, NEW trs,
           \A o \in meas : o.at \in Int /\ o.first \in Nat,
           \A t \in trs : t.at \in Int /\ t.id \in Nat,
           \A u, v \in Near(meas, trs) : u[1] = v[1] \/ u[2] = v[2] => u = v
    PROVE  Assign(meas, trs) = Near(meas, trs)
<1> DEFINE pairs == {p \in meas \X trs : Gap(p[1].at, p[2].at) <= Gate}
           Dist(p) == Gap(p[1].at, p[2].at)
           Nearer(p, q) == \/ Dist(p) < Dist(q)
                           \/ Dist(p) = Dist(q) /\ p[1].first < q[1].first
                           \/ Dist(p) = Dist(q) /\ p[1] = q[1] /\ p[2].id < q[2].id
           Rivals(p) == {q \in pairs : Nearer(q, p) /\ (q[1] = p[1] \/ q[2] = p[2])}
           Right(f) == f = [p \in pairs |-> \A q \in Rivals(p) : ~f[q]]
           matched == CHOOSE f : Right(f)
<1>1. Assign(meas, trs) = {p \in pairs : matched[p]}
    BY DEF Assign
<1>2. ASSUME NEW p \in pairs PROVE Rivals(p) = {}
    <2> SUFFICES ASSUME NEW q \in Rivals(p) PROVE FALSE
        OBVIOUS
    <2>1. q = p
        BY DEF Near
    <2>2. Dist(p) \in Int /\ p[1].first \in Int /\ p[2].id \in Int
        BY DEF Gap
    <2>3. Nearer(p, p)
        BY <2>1
    <2> HIDE DEF Dist
    <2> QED BY <2>2, <2>3
<1> HIDE DEF Rivals
<1>3. Right([p \in pairs |-> TRUE])
    BY <1>2
<1>4. Right(matched)
    BY <1>3
<1>5. \A p \in pairs : matched[p]
    <2> HIDE DEF matched
    <2> SUFFICES ASSUME NEW p \in pairs PROVE matched[p]
        OBVIOUS
    <2>1. matched[p] = \A q \in Rivals(p) : ~matched[q]
        BY <1>4
    <2> QED BY <1>2, <2>1
<1> HIDE DEF matched
<1> QED BY <1>1, <1>5 DEF Near

LEMMA GapFacts ==
    ASSUME NEW a \in Int, NEW b \in Int, NEW c \in Int
    PROVE  /\ Gap(a, b) \in Nat /\ Gap(a, a) = 0 /\ Gap(a, b) = Gap(b, a)
           /\ Gap(a, c) <= Gap(a, b) + Gap(b, c)
BY DEF Gap

\* How far the prediction strays while a track survives.
LEMMA StrayFacts ==
    ASSUME NEW m \in Nat, m <= MaxMisses
    PROVE  /\ MaxDrift * m \in Nat
           /\ MaxDrift * (m + 1) = MaxDrift * m + MaxDrift
           /\ MaxDrift * (m + 1) <= MaxDrift * (MaxMisses + 1)
           /\ MaxDrift * (MaxMisses + 1) <= Gate
<1>1. MaxDrift \in Nat /\ MaxMisses \in Nat /\ Gate \in Nat /\ MaxDrift * (MaxMisses + 1) <= Gate
    BY ObjectsAssumption
<1> DEFINE d == MaxMisses - m
<1>2. d \in Nat /\ MaxMisses + 1 = (m + 1) + d
    BY <1>1
<1> HIDE DEF d
<1>3. MaxDrift * ((m + 1) + d) = MaxDrift * (m + 1) + MaxDrift * d /\ MaxDrift * d \in Nat
    BY <1>1, <1>2
<1>4. MaxDrift * m \in Nat /\ MaxDrift * (m + 1) = MaxDrift * m + MaxDrift
    BY <1>1
<1>5. MaxDrift * (m + 1) \in Nat
    BY <1>1
<1> QED BY <1>1, <1>2, <1>3, <1>4, <1>5

\* The tracker and the objects: each track is that of an object, with its number and its
\* misses and near it; each object with a number not too long unseen has a track.
Lives(p) == idOf[p] >= 0 /\ gap[p] <= MaxMisses

TracksTypeOK ==
    \A t \in tracks : t \in [id : Nat, at : Int, cls : {t.cls}, hits : {t.hits},
                             misses : Nat, confirmed : {t.confirmed}]

ObjectsTypeOK ==
    /\ fix \in BOOLEAN /\ nextId \in Nat
    /\ idOf \in [Places -> Int] /\ gap \in [Places -> Nat]
    /\ TracksTypeOK

NumbersApart ==
    /\ \A p \in Places : -1 <= idOf[p] /\ idOf[p] < nextId
    /\ \A p, q \in Places : idOf[p] = idOf[q] /\ idOf[p] >= 0 => p = q

TracksFollow ==
    \A t \in tracks : \E p \in Places :
        /\ t.id = idOf[p] /\ t.misses = gap[p] /\ gap[p] <= MaxMisses
        /\ Gap(t.at, p) <= MaxDrift * gap[p]

ObjectsTracked == \A p \in Places : Lives(p) => \E t \in tracks : t.id = idOf[p]

OneTrack == \A t, u \in tracks : t.id = u.id => t = u

ObjectsInv == ObjectsTypeOK /\ NumbersApart /\ TracksFollow /\ ObjectsTracked /\ OneTrack

Predicted(drift) == {Predict(tr, drift[tr]) : tr \in tracks}

\* What is expected of an object that lives is within the gate of it and of no other.
LEMMA PredictedFacts ==
    ASSUME ObjectsInv, NEW drift \in [tracks -> Drifts]
    PROVE  /\ \A q \in Predicted(drift) :
                 q \in [id : Nat, at : Int, cls : {q.cls}, hits : {q.hits},
                        misses : Nat, confirmed : {q.confirmed}]
           /\ \A q \in Predicted(drift) : \E p \in Places :
                 /\ q.id = idOf[p] /\ q.misses = gap[p] /\ gap[p] <= MaxMisses
                 /\ Gap(q.at, p) <= MaxDrift * (gap[p] + 1)
                 /\ \A r \in Places : Gap(r, q.at) <= Gate <=> r = p
           /\ \A p \in Places : Lives(p) => \E q \in Predicted(drift) : q.id = idOf[p]
           /\ \A q, r \in Predicted(drift) : q.id = r.id => q = r
<1>1. ASSUME NEW t \in tracks
      PROVE  /\ drift[t] \in Int /\ -MaxDrift <= drift[t] /\ drift[t] <= MaxDrift
             /\ Predict(t, drift[t]) =
                    [id |-> t.id, at |-> t.at + drift[t], cls |-> t.cls, hits |-> t.hits,
                     misses |-> t.misses, confirmed |-> t.confirmed]
             /\ t.id \in Nat /\ t.at \in Int /\ t.misses \in Nat
    <2>1. drift[t] \in Int /\ -MaxDrift <= drift[t] /\ drift[t] <= MaxDrift
        BY ApartFacts DEF Drifts
    <2>2. t \in [id : Nat, at : Int, cls : {t.cls}, hits : {t.hits},
                 misses : Nat, confirmed : {t.confirmed}]
        BY DEF ObjectsInv, ObjectsTypeOK, TracksTypeOK
    <2> QED BY <2>1, <2>2 DEF Predict
<1>2. ASSUME NEW q \in Predicted(drift)
      PROVE  q \in [id : Nat, at : Int, cls : {q.cls}, hits : {q.hits},
                    misses : Nat, confirmed : {q.confirmed}]
    BY <1>1 DEF Predicted
<1>3. ASSUME NEW q \in Predicted(drift)
      PROVE  \E p \in Places :
                /\ q.id = idOf[p] /\ q.misses = gap[p] /\ gap[p] <= MaxMisses
                /\ Gap(q.at, p) <= MaxDrift * (gap[p] + 1)
                /\ \A r \in Places : Gap(r, q.at) <= Gate <=> r = p
    <2>1. PICK t \in tracks : q = Predict(t, drift[t])
        BY DEF Predicted
    <2>2. PICK p \in Places : /\ t.id = idOf[p] /\ t.misses = gap[p] /\ gap[p] <= MaxMisses
                              /\ Gap(t.at, p) <= MaxDrift * gap[p]
        BY DEF ObjectsInv, TracksFollow
    <2>3. q.id = t.id /\ q.misses = t.misses /\ q.at = t.at + drift[t]
        BY <1>1, <2>1
    <2>4. p \in Int /\ t.at \in Int /\ q.at \in Int /\ gap[p] \in Nat /\ drift[t] \in Int
        <3>1. p \in Int /\ gap[p] \in Nat
            BY ApartFacts DEF ObjectsInv, ObjectsTypeOK
        <3> QED BY <1>1, <2>3, <3>1
    <2>5. Gap(q.at, p) <= Gap(t.at, p) + MaxDrift
        BY <1>1, <2>3, <2>4, ApartFacts DEF Gap
    <2>6. Gap(q.at, p) <= MaxDrift * (gap[p] + 1) /\ Gap(q.at, p) <= MaxDrift * (MaxMisses + 1)
        <3>1. /\ MaxDrift * gap[p] \in Nat /\ MaxDrift * (MaxMisses + 1) \in Nat /\ MaxDrift \in Nat
              /\ MaxDrift * (gap[p] + 1) = MaxDrift * gap[p] + MaxDrift
              /\ MaxDrift * (gap[p] + 1) <= MaxDrift * (MaxMisses + 1)
            BY <2>2, <2>4, StrayFacts, ApartFacts
        <3>2. Gap(q.at, p) \in Nat /\ Gap(t.at, p) \in Nat
            BY <2>4, GapFacts
        <3> QED BY <2>2, <2>5, <3>1, <3>2
    <2>7. ASSUME NEW r \in Places PROVE Gap(r, q.at) <= Gate <=> r = p
        <3>1. r \in Int /\ Gap(r, q.at) \in Nat /\ Gap(r, p) \in Nat /\ Gap(q.at, p) \in Nat
            BY <2>4, ApartFacts, GapFacts
        <3>2. MaxDrift * (MaxMisses + 1) <= Gate /\ MaxDrift * (MaxMisses + 1) \in Nat /\ Gate \in Nat
            BY ObjectsAssumption, ApartFacts
        <3>3. ASSUME r = p PROVE Gap(r, q.at) <= Gate
            <4>1. Gap(r, q.at) = Gap(q.at, p)
                BY <2>4, <3>3, GapFacts
            <4> QED BY <2>6, <3>1, <3>2, <4>1
        <3>4. ASSUME r # p PROVE ~(Gap(r, q.at) <= Gate)
            <4>1. Gap(r, p) > Gate + MaxDrift * (MaxMisses + 1)
                BY <3>4, ObjectsAssumption
            <4>2. Gap(r, p) <= Gap(r, q.at) + Gap(q.at, p)
                BY <2>4, <3>1, GapFacts
            <4> QED BY <2>6, <3>1, <3>2, <4>1, <4>2
        <3> QED BY <3>3, <3>4
    <2> QED BY <2>2, <2>3, <2>6, <2>7
<1>4. ASSUME NEW p \in Places, Lives(p) PROVE \E q \in Predicted(drift) : q.id = idOf[p]
    <2>1. PICK t \in tracks : t.id = idOf[p]
        BY <1>4 DEF ObjectsInv, ObjectsTracked
    <2>2. Predict(t, drift[t]) \in Predicted(drift) /\ Predict(t, drift[t]).id = idOf[p]
        BY <1>1, <2>1 DEF Predicted
    <2> QED BY <2>2
<1>5. ASSUME NEW q \in Predicted(drift), NEW r \in Predicted(drift), q.id = r.id PROVE q = r
    <2>1. PICK t \in tracks : q = Predict(t, drift[t])
        BY DEF Predicted
    <2>2. PICK u \in tracks : r = Predict(u, drift[u])
        BY DEF Predicted
    <2>3. t.id = u.id
        BY <1>1, <1>5, <2>1, <2>2
    <2> QED BY <2>1, <2>2, <2>3 DEF ObjectsInv, OneTrack
<1> QED BY <1>2, <1>3, <1>4, <1>5

\* Every object that was seen and lives is matched with its own track.
LEMMA AssignIsOwn ==
    ASSUME ObjectsInv, NEW drift \in [tracks -> Drifts],
           NEW seen \in SUBSET Places, NEW meas, Measures(meas, seen)
    PROVE  Assign(meas, Predicted(drift)) =
                {u \in meas \X Predicted(drift) : u[2].id = idOf[u[1].at]}
<1> DEFINE P == Predicted(drift)
<1>1. ASSUME NEW o \in meas, NEW q \in P
      PROVE  Gap(o.at, q.at) <= Gate <=> q.id = idOf[o.at]
    <2>1. o.at \in Places
        BY DEF Measures
    <2>2. PICK p \in Places : q.id = idOf[p] /\ \A r \in Places : Gap(r, q.at) <= Gate <=> r = p
        BY PredictedFacts
    <2>3. q.id \in Nat
        BY PredictedFacts
    <2>4. idOf[o.at] = idOf[p] <=> o.at = p
        BY <2>1, <2>2, <2>3 DEF ObjectsInv, NumbersApart
    <2> QED BY <2>1, <2>2, <2>4
<1>2. /\ \A o \in meas : o.at \in Int /\ o.first \in Nat
      /\ \A t \in P : t.at \in Int /\ t.id \in Nat
    BY PredictedFacts, ApartFacts DEF Measures
<1>3. ASSUME NEW u \in Near(meas, P), NEW v \in Near(meas, P), u[1] = v[1] \/ u[2] = v[2]
      PROVE  u = v
    <2>1. /\ u = <<u[1], u[2]>> /\ u[1] \in meas /\ u[2] \in P /\ u[2].id = idOf[u[1].at]
          /\ v = <<v[1], v[2]>> /\ v[1] \in meas /\ v[2] \in P /\ v[2].id = idOf[v[1].at]
        BY <1>1 DEF Near
    <2>2. CASE u[1] = v[1]
        BY <2>1, <2>2, PredictedFacts
    <2>3. CASE u[2] = v[2]
        <3>1. u[1].at \in Places /\ v[1].at \in Places /\ idOf[u[1].at] = idOf[v[1].at]
              /\ idOf[u[1].at] >= 0
            BY <2>1, <2>3, PredictedFacts DEF Measures
        <3>2. u[1].at = v[1].at
            BY <3>1 DEF ObjectsInv, NumbersApart
        <3> QED BY <2>1, <2>3, <3>2 DEF Measures
    <2> QED BY <1>3, <2>2, <2>3
<1> HIDE DEF P
<1>4. Assign(meas, P) = Near(meas, P)
    BY <1>2, <1>3, AssignAll
<1>5. Near(meas, P) = {u \in meas \X P : u[2].id = idOf[u[1].at]}
    BY <1>1 DEF Near
<1> QED BY <1>4, <1>5 DEF P

\* A frame of measurements, object by object: one that lives keeps its number and one
\* that does not gets one nobody has had.
LEMMA UpdateFacts ==
    ASSUME ObjectsInv, NEW drift \in [tracks -> Drifts],
           NEW seen \in SUBSET Places, NEW meas, Measures(meas, seen), Update(meas, drift),
           fix' \in BOOLEAN,
           idOf' = [p \in Places |-> IF p \in seen THEN NumberOf(p) ELSE idOf[p]],
           gap' = [p \in Places |-> IF p \in seen THEN 0 ELSE gap[p] + 1]
    PROVE  ObjectsInv' /\ \A p \in seen : Lives(p) => idOf'[p] = idOf[p]
<1> DEFINE P == Predicted(drift)
           matched == Assign(meas, P)
           fresh == {m \in meas : \A u \in matched : u[1] # m}
           Rank(o) == nextId + Cardinality(Ahead(fresh, o))
           hit == {Hit(u[2], u[1]) : u \in matched}
           missed == {Miss(tr) : tr \in {t \in P : \A u \in matched : u[2] # t}}
           new == {NewTrack(o, Rank(o)) : o \in fresh}
<1>1. /\ tracks' = {tr \in hit \cup missed \cup new : Kept(tr)}
      /\ nextId' = nextId + Cardinality(fresh)
      /\ trackId' = {[at |-> u[1].at, id |-> u[2].id] : u \in matched}
                        \cup {[at |-> tr.at, id |-> tr.id] : tr \in new}
    BY DEF Update, Predicted, Ahead
<1>2. matched = {u \in meas \X P : u[2].id = idOf[u[1].at]}
    BY AssignIsOwn
<1> HIDE DEF matched, P
<1>3. ASSUME NEW o \in meas
      PROVE  /\ o.at \in Places /\ o.at \in Int /\ o.first \in Nat
             /\ o \in [first : Nat, at : {o.at}, cls : {o.cls}]
    BY ApartFacts DEF Measures
<1>4. /\ nextId \in Nat
      /\ \A p \in Places : /\ idOf[p] \in Int /\ gap[p] \in Nat
                           /\ -1 <= idOf[p] /\ idOf[p] < nextId
      /\ \A p, q \in Places : idOf[p] = idOf[q] /\ idOf[p] >= 0 => p = q
      /\ MaxMisses \in Nat /\ MaxDrift \in Nat
    BY ObjectsAssumption DEF ObjectsInv, ObjectsTypeOK, NumbersApart
<1>5. /\ \A q \in P : q \in [id : Nat, at : Int, cls : {q.cls}, hits : {q.hits},
                            misses : Nat, confirmed : {q.confirmed}]
      /\ \A q \in P : \E p \in Places :
            /\ q.id = idOf[p] /\ q.misses = gap[p] /\ gap[p] <= MaxMisses
            /\ Gap(q.at, p) <= MaxDrift * (gap[p] + 1)
      /\ \A p \in Places : Lives(p) => \E q \in P : q.id = idOf[p]
      /\ \A q, r \in P : q.id = r.id => q = r
    BY PredictedFacts DEF P
<1>6. ASSUME NEW o \in meas PROVE o \in fresh <=> ~Lives(o.at)
    <2>1. ASSUME Lives(o.at) PROVE o \notin fresh
        <3>1. PICK q \in P : q.id = idOf[o.at]
            BY <1>3, <1>5, <2>1
        <3>2. <<o, q>> \in matched
            BY <1>2, <3>1
        <3> QED BY <3>2
    <2>2. ASSUME o \notin fresh PROVE Lives(o.at)
        <3>1. PICK u \in matched : u[1] = o
            BY <2>2
        <3>2. u[2] \in P /\ u[2].id = idOf[o.at]
            BY <1>2, <3>1
        <3>3. PICK p \in Places : u[2].id = idOf[p] /\ gap[p] <= MaxMisses
            BY <1>5, <3>2
        <3>4. u[2].id \in Nat
            BY <1>5, <3>2
        <3>5. p = o.at
            <4>1. idOf[p] = idOf[o.at] /\ idOf[p] >= 0 /\ o.at \in Places
                BY <1>3, <3>2, <3>3, <3>4
            <4> QED BY <1>4, <4>1
        <3> QED BY <3>2, <3>3, <3>4, <3>5 DEF Lives
    <2> QED BY <2>1, <2>2
<1>7. /\ Cardinality(fresh) \in Nat
      /\ \A o \in fresh : /\ Rank(o) \in Nat /\ nextId <= Rank(o)
                          /\ Rank(o) < nextId + Cardinality(fresh)
      /\ \A o, n \in fresh : Rank(o) = Rank(n) => o = n
    <2>1. /\ IsFiniteSet(fresh) /\ \A o \in fresh : o.first \in Nat
          /\ \A o, n \in fresh : o.first = n.first => o = n
        BY <1>3, FS_Subset DEF Measures
    <2> HIDE DEF fresh
    <2>2. /\ Cardinality(fresh) \in Nat
          /\ \A o \in fresh : /\ Cardinality(Ahead(fresh, o)) \in Nat
                              /\ Cardinality(Ahead(fresh, o)) < Cardinality(fresh)
          /\ \A o, n \in fresh :
                Cardinality(Ahead(fresh, o)) = Cardinality(Ahead(fresh, n)) => o = n
        BY <2>1, RankFacts
    <2> QED BY <1>4, <2>2
<1>8. \A o \in fresh : o \in meas
    OBVIOUS
<1> HIDE DEF fresh, Rank
<1>9. ASSUME NEW o \in meas
      PROVE  NumberOf(o.at) = IF Lives(o.at) THEN idOf[o.at] ELSE Rank(o)
    <2>1. CASE Lives(o.at)
        <3>1. PICK q \in P : q.id = idOf[o.at]
            BY <1>3, <1>5, <2>1
        <3>2. <<o, q>> \in matched
            BY <1>2, <3>1
        <3>3. \E e \in trackId' : e.at = o.at
            <4> DEFINE e == [at |-> <<o, q>>[1].at, id |-> <<o, q>>[2].id]
            <4>1. e \in trackId'
                BY <1>1, <3>2
            <4> QED BY <4>1
        <3>4. ASSUME NEW e \in trackId', e.at = o.at PROVE e.id = idOf[o.at]
            <4>1. CASE \E u \in matched : e = [at |-> u[1].at, id |-> u[2].id]
                BY <1>2, <3>4, <4>1
            <4>2. CASE \E n \in fresh : e = [at |-> n.at, id |-> Rank(n)]
                <5>1. PICK n \in fresh : n.at = o.at
                    BY <3>4, <4>2
                <5> QED BY <1>6, <1>8, <2>1, <5>1
            <4> QED BY <1>1, <4>1, <4>2 DEF NewTrack
        <3> QED BY <2>1, <3>3, <3>4 DEF NumberOf
    <2>2. CASE ~Lives(o.at)
        <3>1. o \in fresh
            BY <1>6, <2>2
        <3>2. \E e \in trackId' : e.at = o.at
            <4> DEFINE tr == NewTrack(o, Rank(o))
                       e == [at |-> tr.at, id |-> tr.id]
            <4>1. e \in trackId'
                BY <1>1, <3>1
            <4>2. e.at = o.at
                BY DEF NewTrack
            <4> QED BY <4>1, <4>2
        <3>3. ASSUME NEW e \in trackId', e.at = o.at PROVE e.id = Rank(o)
            <4>1. ASSUME NEW u \in matched, e = [at |-> u[1].at, id |-> u[2].id] PROVE FALSE
                <5>1. u[1] \in meas /\ u[2] \in P /\ u[1].at = o.at
                    BY <1>2, <3>3, <4>1
                <5>2. u[1] = o
                    BY <5>1 DEF Measures
                <5> QED BY <3>1, <4>1, <5>2 DEF fresh
            <4>2. ASSUME NEW n \in fresh, e = [at |-> n.at, id |-> Rank(n)] PROVE e.id = Rank(o)
                <5>1. n = o
                    BY <1>8, <3>3, <4>2 DEF Measures
                <5> QED BY <4>2, <5>1
            <4> QED BY <1>1, <4>1, <4>2 DEF NewTrack
        <3> QED BY <2>2, <3>2, <3>3 DEF NumberOf
    <2> QED BY <2>1, <2>2
<1>10. ASSUME NEW o \in meas
       PROVE  /\ o.at \in seen /\ gap'[o.at] = 0
              /\ idOf'[o.at] = IF Lives(o.at) THEN idOf[o.at] ELSE Rank(o)
    BY <1>3, <1>9 DEF Measures
<1>11. ASSUME NEW p \in Places, p \notin seen PROVE idOf'[p] = idOf[p] /\ gap'[p] = gap[p] + 1
    BY <1>11
<1>12. ASSUME NEW p \in seen PROVE \E o \in meas : o.at = p
    BY DEF Measures
<1> HIDE DEF hit, missed, new
\* What the tracks of the next state are.
<1> DEFINE Typed(t) == t \in [id : Nat, at : Int, cls : {t.cls}, hits : {t.hits},
                              misses : Nat, confirmed : {t.confirmed}]
           Is(t, p) == /\ t.id = idOf'[p] /\ t.misses = gap'[p] /\ gap'[p] <= MaxMisses
                       /\ Gap(t.at, p) <= MaxDrift * gap'[p]
<1>13. ASSUME NEW t \in hit
       PROVE  \E o \in meas, q \in P : /\ Lives(o.at) /\ q.id = idOf[o.at] /\ t = Hit(q, o)
                                       /\ Typed(t) /\ Is(t, o.at)
    <2>1. PICK o \in meas, q \in P : t = Hit(q, o) /\ q.id = idOf[o.at] /\ <<o, q>> \in matched
        BY <1>2 DEF hit
    <2>2. Lives(o.at)
        BY <1>6, <2>1 DEF fresh
    <2>3. q \in [id : Nat, at : Int, cls : {q.cls}, hits : {q.hits},
                 misses : Nat, confirmed : {q.confirmed}]
        BY <1>5
    <2>4. t.id = q.id /\ t.at = o.at /\ t.misses = 0 /\ Typed(t)
        BY <1>3, <2>1, <2>3 DEF Hit
    <2>5. Gap(o.at, o.at) = 0 /\ MaxDrift * 0 = 0
        BY <1>3, <1>4, GapFacts
    <2>6. Is(t, o.at)
        BY <1>4, <1>10, <2>1, <2>2, <2>4, <2>5
    <2> QED BY <2>1, <2>2, <2>4, <2>6
<1>14. ASSUME NEW t \in missed, Kept(t)
       PROVE  \E p \in Places, q \in P : /\ p \notin seen /\ q.id = idOf[p] /\ t = Miss(q)
                                         /\ Typed(t) /\ Is(t, p)
    <2>1. PICK q \in P : t = Miss(q) /\ \A u \in matched : u[2] # q
        BY DEF missed
    <2>2. PICK p \in Places : /\ q.id = idOf[p] /\ q.misses = gap[p] /\ gap[p] <= MaxMisses
                              /\ Gap(q.at, p) <= MaxDrift * (gap[p] + 1)
        BY <1>5
    <2>3. p \notin seen
        <3>1. ASSUME NEW o \in meas, o.at = p PROVE FALSE
            <4>1. <<o, q>> \in matched
                BY <1>2, <2>2, <3>1
            <4> QED BY <2>1, <4>1
        <3> QED BY <1>12, <3>1
    <2>4. q \in [id : Nat, at : Int, cls : {q.cls}, hits : {q.hits},
                 misses : Nat, confirmed : {q.confirmed}]
        BY <1>5
    <2>5. t.id = q.id /\ t.at = q.at /\ t.misses = q.misses + 1 /\ Typed(t)
        BY <2>1, <2>4 DEF Miss
    <2>6. Is(t, p)
        BY <1>11, <1>14, <2>2, <2>3, <2>5 DEF Kept
    <2> QED BY <2>1, <2>2, <2>3, <2>5, <2>6
<1>15. ASSUME NEW t \in new
       PROVE  \E o \in fresh : t = NewTrack(o, Rank(o)) /\ Typed(t) /\ Is(t, o.at)
    <2>1. PICK o \in fresh : t = NewTrack(o, Rank(o))
        BY DEF new
    <2>2. o \in meas /\ ~Lives(o.at)
        BY <1>6, <1>8
    <2>3. t.id = Rank(o) /\ t.at = o.at /\ t.misses = 0 /\ Typed(t)
        BY <1>3, <1>7, <2>1, <2>2 DEF NewTrack
    <2>4. Gap(o.at, o.at) = 0 /\ MaxDrift * 0 = 0
        BY <1>3, <1>4, <2>2, GapFacts
    <2>5. Is(t, o.at)
        BY <1>4, <1>10, <2>2, <2>3, <2>4
    <2> QED BY <2>1, <2>3, <2>5
<1>16. \A t \in tracks' : /\ t \in hit \/ (t \in missed /\ Kept(t)) \/ t \in new
                          /\ Typed(t) /\ \E p \in Places : Is(t, p)
    BY <1>1, <1>3, <1>8, <1>13, <1>14, <1>15
<1> HIDE DEF Is
<1>17. ASSUME NEW p \in Places
       PROVE  idOf'[p] \in Int /\ gap'[p] \in Nat /\ -1 <= idOf'[p] /\ idOf'[p] < nextId'
    <2>1. CASE p \in seen
        <3>1. PICK o \in meas : o.at = p
            BY <1>12, <2>1
        <3> QED BY <1>1, <1>4, <1>6, <1>7, <1>10, <3>1
    <2>2. CASE p \notin seen
        BY <1>1, <1>4, <1>7, <1>11, <2>2
    <2> QED BY <2>1, <2>2
<1>18. ObjectsTypeOK'
    <2>1. nextId' \in Nat
        BY <1>1, <1>4, <1>7
    <2>2. idOf' \in [Places -> Int] /\ gap' \in [Places -> Nat]
        BY <1>17
    <2> QED BY <1>16, <2>1, <2>2 DEF ObjectsTypeOK, TracksTypeOK
<1>19. NumbersApart'
    <2>1. ASSUME NEW p \in Places, NEW q \in Places, idOf'[p] = idOf'[q], idOf'[p] >= 0
          PROVE  p = q
        <3> DEFINE Old(x) == idOf'[x] = idOf[x]
                   Got(x) == \E o \in fresh : o.at = x /\ idOf'[x] = Rank(o)
        <3>1. ASSUME NEW x \in Places PROVE Old(x) \/ Got(x)
            <4>1. CASE x \in seen
                <5>1. PICK o \in meas : o.at = x
                    BY <1>12, <4>1
                <5> QED BY <1>6, <1>10, <5>1
            <4> QED BY <1>11, <4>1
        <3>2. CASE Old(p) /\ Old(q)
            BY <1>4, <2>1, <3>2
        <3>3. CASE Got(p) /\ Got(q)
            BY <1>7, <2>1, <3>3
        <3>4. ASSUME NEW x \in Places, NEW y \in Places, Old(x), Got(y) PROVE idOf'[x] # idOf'[y]
            <4>1. idOf'[x] \in Int /\ idOf'[x] < nextId
                BY <1>4, <3>4
            <4>2. idOf'[y] \in Int /\ nextId <= idOf'[y]
                BY <1>7, <3>4
            <4> QED BY <1>4, <4>1, <4>2
        <3> QED BY <2>1, <3>1, <3>2, <3>3, <3>4
    <2> QED BY <1>17, <2>1 DEF NumbersApart
<1>20. TracksFollow'
    BY <1>16 DEF TracksFollow, Is
<1>21. ObjectsTracked'
    <2> SUFFICES ASSUME NEW p \in Places, idOf'[p] >= 0, gap'[p] <= MaxMisses
                 PROVE  \E t \in tracks' : t.id = idOf'[p]
        BY DEF ObjectsTracked, Lives
    <2>1. ASSUME NEW o \in meas, o.at = p, Lives(p) PROVE \E t \in tracks' : t.id = idOf'[p]
        <3>1. PICK q \in P : q.id = idOf[p]
            BY <1>5, <2>1
        <3>2. <<o, q>> \in matched
            BY <1>2, <2>1, <3>1
        <3>3. Hit(q, o) \in hit
            BY <3>2 DEF hit
        <3>4. Hit(q, o).id = idOf[p] /\ Hit(q, o).misses = 0
            BY <1>5, <3>1 DEF Hit
        <3>5. Kept(Hit(q, o))
            BY <1>4, <3>4 DEF Kept
        <3> QED BY <1>1, <1>10, <2>1, <3>3, <3>4, <3>5
    <2>2. ASSUME NEW o \in meas, o.at = p, ~Lives(p) PROVE \E t \in tracks' : t.id = idOf'[p]
        <3>1. o \in fresh
            BY <1>6, <2>2
        <3>2. /\ NewTrack(o, Rank(o)) \in new
              /\ NewTrack(o, Rank(o)).id = Rank(o) /\ NewTrack(o, Rank(o)).misses = 0
            BY <3>1 DEF new, NewTrack
        <3>3. Kept(NewTrack(o, Rank(o)))
            BY <1>4, <3>2 DEF Kept
        <3> QED BY <1>1, <1>10, <2>2, <3>2, <3>3
    <2>3. ASSUME p \notin seen PROVE \E t \in tracks' : t.id = idOf'[p]
        <3>1. Lives(p) /\ idOf'[p] = idOf[p] /\ gap'[p] = gap[p] + 1 /\ idOf[p] >= 0
            BY <1>4, <1>11, <2>3 DEF Lives
        <3>2. PICK q \in P : q.id = idOf[p]
            BY <1>5, <3>1
        <3>3. \A u \in matched : u[2] # q
            <4> SUFFICES ASSUME NEW u \in matched, u[2] = q PROVE FALSE
                OBVIOUS
            <4>1. u[1] \in meas /\ idOf[u[1].at] = idOf[p]
                BY <1>2, <3>2
            <4>2. u[1].at = p
                BY <1>3, <1>4, <3>1, <4>1
            <4> QED BY <1>10, <2>3, <4>1, <4>2
        <3>4. Miss(q) \in missed
            BY <3>3 DEF missed
        <3>5. PICK r \in Places : q.id = idOf[r] /\ q.misses = gap[r]
            BY <1>5
        <3>6. r = p
            BY <1>4, <3>1, <3>2, <3>5
        <3>7. Miss(q).id = idOf[p] /\ Miss(q).misses = gap[p] + 1
            BY <1>5, <3>2, <3>5, <3>6 DEF Miss
        <3>8. Kept(Miss(q))
            BY <3>1, <3>7 DEF Kept
        <3> QED BY <1>1, <3>1, <3>4, <3>7, <3>8
    <2> QED BY <1>12, <2>1, <2>2, <2>3
<1>22. OneTrack'
    <2> SUFFICES ASSUME NEW t \in tracks', NEW v \in tracks', t.id = v.id PROVE t = v
        BY DEF OneTrack
    <2>0. t.id = v.id
        OBVIOUS
    <2> DEFINE Same(x) == \E p \in Places, q \in P : q.id = idOf[p] /\ idOf[p] >= 0 /\ x.id = idOf[p]
                            /\ IF p \in seen THEN \E o \in meas : o.at = p /\ x = Hit(q, o)
                                             ELSE x = Miss(q)
               New(x) == \E o \in fresh : x = NewTrack(o, Rank(o)) /\ x.id = Rank(o)
    <2>1. ASSUME NEW x \in tracks' PROVE Same(x) \/ New(x)
        <3>1. CASE x \in hit
            <4>1. PICK o \in meas, q \in P : Lives(o.at) /\ q.id = idOf[o.at] /\ x = Hit(q, o)
                BY <1>13, <3>1
            <4>2. x.id = q.id /\ idOf[o.at] >= 0
                BY <1>5, <4>1 DEF Hit, Lives
            <4> QED BY <1>3, <1>10, <4>1, <4>2
        <3>2. CASE x \in missed /\ Kept(x)
            <4>1. PICK p \in Places, q \in P : p \notin seen /\ q.id = idOf[p] /\ x = Miss(q)
                BY <1>14, <3>2
            <4>2. x.id = q.id /\ idOf[p] >= 0
                BY <1>5, <4>1 DEF Miss
            <4> QED BY <4>1, <4>2
        <3>3. CASE x \in new
            <4>1. PICK o \in fresh : x = NewTrack(o, Rank(o))
                BY <1>15, <3>3
            <4>2. x.id = Rank(o)
                BY <4>1 DEF NewTrack
            <4> QED BY <4>1, <4>2
        <3> QED BY <1>16, <3>1, <3>2, <3>3
    <2>2. CASE Same(t) /\ Same(v)
        <3>1. PICK p \in Places, q \in P :
                /\ q.id = idOf[p] /\ idOf[p] >= 0 /\ t.id = idOf[p]
                /\ IF p \in seen THEN \E o \in meas : o.at = p /\ t = Hit(q, o) ELSE t = Miss(q)
            BY <2>2
        <3>2. PICK r \in Places, s \in P :
                /\ s.id = idOf[r] /\ idOf[r] >= 0 /\ v.id = idOf[r]
                /\ IF r \in seen THEN \E o \in meas : o.at = r /\ v = Hit(s, o) ELSE v = Miss(s)
            BY <2>2
        <3>3. p = r /\ q = s
            <4>1. idOf[p] = idOf[r] /\ q.id = s.id
                BY <2>0, <3>1, <3>2
            <4> QED BY <1>4, <1>5, <3>1, <4>1
        <3>4. CASE p \in seen
            <4>1. PICK o \in meas : o.at = p /\ t = Hit(q, o)
                BY <3>1, <3>4
            <4>2. PICK n \in meas : n.at = p /\ v = Hit(q, n)
                BY <3>2, <3>3, <3>4
            <4>3. o = n
                BY <4>1, <4>2 DEF Measures
            <4> QED BY <4>1, <4>2, <4>3
        <3>5. CASE p \notin seen
            BY <3>1, <3>2, <3>3, <3>5
        <3> QED BY <3>4, <3>5
    <2>3. CASE New(t) /\ New(v)
        BY <1>7, <2>3
    <2>4. ASSUME NEW x, NEW y, Same(x), New(y) PROVE x.id # y.id
        <3>1. x.id \in Int /\ x.id < nextId
            BY <1>4, <2>4
        <3>2. y.id \in Int /\ nextId <= y.id
            BY <1>7, <2>4
        <3> QED BY <1>4, <3>1, <3>2
    <2> QED BY <2>1, <2>2, <2>3, <2>4, <2>0
<1>23. \A p \in seen : Lives(p) => idOf'[p] = idOf[p]
    BY <1>10, <1>12
<1> QED BY <1>18, <1>19, <1>20, <1>21, <1>22, <1>23 DEF ObjectsInv

LEMMA ObjectsInvInit == ObjectsInit => ObjectsInv
<1> SUFFICES ASSUME ObjectsInit PROVE ObjectsInv
    OBVIOUS
<1>1. ObjectsTypeOK
    <2>1. idOf \in [Places -> Int] /\ gap \in [Places -> Nat]
        BY DEF ObjectsInit
    <2>2. fix \in BOOLEAN /\ nextId \in Nat /\ tracks = {}
        BY DEF ObjectsInit, GeoInit
    <2> QED BY <2>1, <2>2 DEF ObjectsTypeOK, TracksTypeOK
<1>2. NumbersApart /\ ObjectsTracked
    BY DEF ObjectsInit, GeoInit, NumbersApart, ObjectsTracked, Lives
<1>3. TracksFollow /\ OneTrack
    BY DEF ObjectsInit, GeoInit, TracksFollow, OneTrack
<1> QED BY <1>1, <1>2, <1>3 DEF ObjectsInv

LEMMA ObjectsInvNext ==
    ASSUME ObjectsInv, [ObjectsNext]_objectVars
    PROVE  /\ ObjectsInv'
           /\ \A p \in Places : gap'[p] = 0 /\ gap[p] <= MaxMisses /\ idOf[p] >= 0
                                    => idOf'[p] = idOf[p]
<1>1. /\ fix \in BOOLEAN /\ idOf \in [Places -> Int] /\ gap \in [Places -> Nat]
    BY DEF ObjectsInv, ObjectsTypeOK
<1>2. ASSUME UNCHANGED <<tracks, nextId, idOf, gap>>, fix' \in BOOLEAN
      PROVE  /\ ObjectsInv'
             /\ \A p \in Places : gap'[p] = 0 /\ gap[p] <= MaxMisses /\ idOf[p] >= 0
                                    => idOf'[p] = idOf[p]
    BY <1>2 DEF ObjectsInv, ObjectsTypeOK, TracksTypeOK, NumbersApart, TracksFollow,
                ObjectsTracked, Lives, OneTrack
<1>3. CASE FirstFix
    BY <1>2, <1>3 DEF FirstFix, FixCallback
<1>4. ASSUME NEW scan \in Sweeps, NEW shot \in SUBSET Places, NEW tf \in BOOLEAN,
             NEW drift \in [tracks -> Drifts], Frame(scan, shot, tf, drift)
      PROVE  /\ ObjectsInv'
             /\ \A p \in Places : gap'[p] = 0 /\ gap[p] <= MaxMisses /\ idOf[p] >= 0
                                    => idOf'[p] = idOf[p]
    <2> DEFINE dets == SetToSeq({[at |-> p, cls |-> ClassOf(p)] : p \in shot})
               seen == Seen(scan)
               meas == Fuse(dets, scan)
    <2>1. /\ FusedCallback(dets, scan, drift, tf)
          /\ idOf' = [p \in Places |-> IF fix /\ tf /\ p \in seen THEN NumberOf(p) ELSE idOf[p]]
          /\ gap' = [p \in Places |-> IF ~(fix /\ tf) THEN gap[p]
                                      ELSE IF p \in seen THEN 0 ELSE gap[p] + 1]
        BY <1>4 DEF Frame
    <2>2. Measures(meas, seen) /\ seen \in SUBSET Places
        BY FuseMeasures DEF Seen
    <2> HIDE DEF dets, seen
    <2>3. CASE ~(fix /\ tf)
        <3>1. UNCHANGED geoVars /\ idOf' = idOf /\ gap' = gap
            BY <1>1, <2>1, <2>3 DEF FusedCallback
        <3> QED BY <1>1, <1>2, <3>1 DEF geoVars
    <2>4. CASE fix /\ tf
        <3>1. Update(meas, drift) /\ fix' = fix
            BY <2>1, <2>4 DEF FusedCallback
        <3>2. /\ idOf' = [p \in Places |-> IF p \in seen THEN NumberOf(p) ELSE idOf[p]]
              /\ gap' = [p \in Places |-> IF p \in seen THEN 0 ELSE gap[p] + 1]
            BY <2>1, <2>4
        <3> HIDE DEF meas
        <3>3. ObjectsInv' /\ \A p \in seen : Lives(p) => idOf'[p] = idOf[p]
            BY <1>1, <2>2, <3>1, <3>2, UpdateFacts
        <3>4. ASSUME NEW p \in Places, p \notin seen PROVE gap'[p] # 0
            BY <1>1, <3>2, <3>4
        <3> QED BY <3>3, <3>4 DEF Lives
    <2> QED BY <2>3, <2>4
<1>5. CASE UNCHANGED objectVars
    BY <1>1, <1>2, <1>5 DEF objectVars, geoVars
<1> QED BY <1>3, <1>4, <1>5 DEF ObjectsNext

\* Whatever the number of objects and however long they are watched: an object seen again
\* within the misses that a track survives has the number it had (Tracker.update).  The
\* objects stay apart by more than the gate and what the filter strays (ObjectsAssumption).
THEOREM IdentityIsKept == ObjectsSpec => KeepsIdentity
<1>1. ObjectsInit => ObjectsInv
    BY ObjectsInvInit
<1>2. ObjectsInv /\ [ObjectsNext]_objectVars => ObjectsInv'
    BY ObjectsInvNext
<1>3. ObjectsInv /\ [ObjectsNext]_objectVars =>
        [\A p \in Places : gap'[p] = 0 /\ gap[p] <= MaxMisses /\ idOf[p] >= 0
                                    => idOf'[p] = idOf[p]]_objectVars
    BY ObjectsInvNext
<1> QED BY <1>1, <1>2, <1>3, PTL DEF ObjectsSpec, KeepsIdentity
============================================================================
