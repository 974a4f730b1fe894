---------------------------- MODULE PicoFirmware ----------------------------
(***************************************************************************)
(* firmware/pico-node_v4/pico-node_v4.ino: the loop() that owns the relay  *)
(* and the thrusters.  Each call loop() makes is a step of its own and the *)
(* clock may advance before any of them, because loop() reads millis() once*)
(* at its top while the handlers it calls read it again.                   *)
(*                                                                         *)
(* A time stamp is kept as its age, so no absolute time is needed: an age  *)
(* read against loop()'s own `now' is age - late, and in the unsigned      *)
(* arithmetic of the code a stamp newer than `now' wraps around.           *)
(***************************************************************************)
EXTENDS Integers

CONSTANTS
    SbusTimeout,        \* SBUS_FAILSAFE_TIMEOUT_MS
    SerialTimeout,      \* SERIAL_FAILSAFE_TIMEOUT_MS
    HeartbeatTimeout,   \* HEARTBEAT_TIMEOUT_MS
    ArmDelay,           \* ESC_ARM_DELAY_MS
    Wrap,               \* unsigned long counts modulo this
    MaxLate,            \* bound: the longest that one pass of loop() takes
    AgeCap              \* bound: ages are told apart up to this

ASSUME TimingAssumption ==
    /\ SbusTimeout \in Nat /\ SerialTimeout \in Nat /\ HeartbeatTimeout \in Nat
    /\ ArmDelay \in Nat /\ MaxLate \in Nat /\ AgeCap \in Nat /\ Wrap \in Nat
    /\ AgeCap > SbusTimeout + 2 * MaxLate
    /\ AgeCap > SerialTimeout + 2 * MaxLate
    /\ AgeCap > HeartbeatTimeout + 2 * MaxLate
    /\ AgeCap >= ArmDelay
    /\ Wrap > AgeCap + MaxLate

VARIABLES
    pc,                 \* what loop() does next
    late,               \* time since loop() read millis()
    ch,                 \* the decoded channels and the receiver's failsafe bit
    sbus_age,           \* since last_sbus_read_ms
    command_age,        \* since last_serial_command_ms
    heartbeat_age,      \* since last_heartbeat_ms
    relay_age,          \* since relay_on_ms, counted while the relay is closed
    current_mode, armed, relay_on, estop_latched, serial_wants_auto,
    thrust              \* what the ESCs were last told to follow

clock == <<late, sbus_age, command_age, heartbeat_age, relay_age>>
power == <<current_mode, armed, relay_on, estop_latched>>
vars == <<pc, clock, ch, power, serial_wants_auto, thrust>>

Phases == {"top", "sbus", "serial", "state", "motors", "failsafes"}
Modes == {"ESTOP", "MANUAL", "AUTONOMOUS"}
Channels == [arm : BOOLEAN, zone : {"low", "mid", "high"}, failsafe : BOOLEAN]
Verbs == {"PING", "MODE AUTO", "MODE MANUAL", "motors", "unreadable"}
Ages == 0..AgeCap

TypeOK ==
    /\ pc \in Phases
    /\ late \in 0..MaxLate
    /\ ch \in Channels
    /\ sbus_age \in Ages /\ command_age \in Ages
    /\ heartbeat_age \in Ages /\ relay_age \in Ages
    /\ current_mode \in Modes
    /\ armed \in BOOLEAN /\ relay_on \in BOOLEAN
    /\ estop_latched \in BOOLEAN /\ serial_wants_auto \in BOOLEAN
    /\ thrust \in {"neutral", "sticks", "command"}

\* setup() stamps the three clocks and then plays the lights for longer than
\* any of the timeouts; the channel array is zero until a frame is decoded.
Init ==
    /\ pc = "top" /\ late = 0
    /\ ch = [arm |-> FALSE, zone |-> "low", failsafe |-> FALSE]
    /\ sbus_age = AgeCap /\ command_age = AgeCap /\ heartbeat_age = AgeCap
    /\ relay_age = 0
    /\ current_mode = "ESTOP" /\ armed = FALSE /\ relay_on = FALSE
    /\ estop_latched = FALSE /\ serial_wants_auto = FALSE
    /\ thrust = "neutral"

Older(age) == IF age < AgeCap THEN age + 1 ELSE age

\* `now - stamp' in unsigned arithmetic, with loop()'s `now'.
Elapsed(age) == IF late <= age THEN age - late ELSE age - late + Wrap

-----------------------------------------------------------------------------
\* Time passes, wherever loop() happens to be.
Tick ==
    /\ late < MaxLate
    /\ late' = late + 1
    /\ sbus_age' = Older(sbus_age)
    /\ command_age' = Older(command_age)
    /\ heartbeat_age' = Older(heartbeat_age)
    /\ relay_age' = IF relay_on THEN Older(relay_age) ELSE relay_age
    /\ UNCHANGED <<pc, ch, power, serial_wants_auto, thrust>>

ReadClock ==
    /\ pc = "top" /\ pc' = "sbus"
    /\ late' = 0
    /\ UNCHANGED <<sbus_age, command_age, heartbeat_age, relay_age, ch, power,
                   serial_wants_auto, thrust>>

\* handle_sbus stamps with a clock it reads itself.
Decode(frame) ==
    /\ ch' = frame
    /\ sbus_age' = 0

handle_sbus ==
    /\ pc = "sbus" /\ pc' = "serial"
    /\ \/ \E frame \in Channels : Decode(frame)
       \/ UNCHANGED <<ch, sbus_age>>
    /\ UNCHANGED <<late, command_age, heartbeat_age, relay_age, power,
                   serial_wants_auto, thrust>>

\* Any complete line counts as a heartbeat, one that cannot be read as well.
handle_serial_line(verb) ==
    /\ pc = "serial"
    /\ heartbeat_age' = 0
    /\ serial_wants_auto' =
         (verb = "MODE AUTO" \/ (serial_wants_auto /\ verb # "MODE MANUAL"))
    /\ command_age' = IF verb = "motors" THEN 0 ELSE command_age
    /\ thrust' = IF /\ verb = "motors" /\ armed
                    /\ current_mode = "AUTONOMOUS" /\ relay_age >= ArmDelay
                 THEN "command" ELSE thrust
    /\ UNCHANGED <<pc, late, sbus_age, relay_age, ch, power>>

SerialDrained ==
    /\ pc = "serial" /\ pc' = "state"
    /\ UNCHANGED <<clock, ch, power, serial_wants_auto, thrust>>

serial_link_live == heartbeat_age <= HeartbeatTimeout

\* Mutant: autonomy, once taken, is kept without a heartbeat.
NewModeKeepsAutonomy ==
    IF ch.failsafe \/ ch.zone = "low" THEN "ESTOP"
    ELSE IF /\ ch.zone = "high" /\ serial_wants_auto
            /\ serial_link_live \/ current_mode = "AUTONOMOUS" THEN "AUTONOMOUS"
    ELSE "MANUAL"

NewMode ==
    IF ch.failsafe \/ ch.zone = "low" THEN "ESTOP"
    ELSE IF ch.zone = "high" /\ serial_wants_auto /\ serial_link_live THEN "AUTONOMOUS"
    ELSE "MANUAL"

\* Neutral first; the relay's clock restarts only when it really closes.
apply_transition(new_mode, want_armed) ==
    /\ thrust' = "neutral"
    /\ current_mode' = new_mode
    /\ armed' = want_armed
    /\ relay_on' = want_armed
    /\ relay_age' = IF want_armed /\ ~relay_on THEN 0 ELSE relay_age

StillLatched(new_mode) == estop_latched /\ ch.arm /\ new_mode # "ESTOP"

WantArmed(new_mode) == ch.arm /\ new_mode # "ESTOP" /\ ~StillLatched(new_mode)

update_state ==
    /\ pc = "state" /\ pc' = "motors"
    /\ estop_latched' = StillLatched(NewMode)
    /\ IF NewMode # current_mode \/ WantArmed(NewMode) # armed
       THEN apply_transition(NewMode, WantArmed(NewMode))
       ELSE UNCHANGED <<current_mode, armed, relay_on, relay_age, thrust>>
    /\ UNCHANGED <<late, sbus_age, command_age, heartbeat_age, ch, serial_wants_auto>>

\* Under autonomy the pulses stay as handle_serial_line wrote them.
update_motors ==
    /\ pc = "motors" /\ pc' = "failsafes"
    /\ thrust' = IF ~armed \/ relay_age < ArmDelay THEN "neutral"
                 ELSE IF current_mode = "MANUAL" THEN "sticks"
                 ELSE thrust
    /\ UNCHANGED <<clock, ch, power, serial_wants_auto>>

\* The mode is left as it was: only the latch, the arming and the relay drop.
trigger_estop ==
    /\ armed' = FALSE
    /\ estop_latched' = TRUE
    /\ relay_on' = FALSE
    /\ thrust' = "neutral"
    /\ UNCHANGED current_mode

\* Mutant: the failsafe looks at the stamp of the heartbeat, which PING renews.
CommandsLostByHeartbeat ==
    armed /\ current_mode = "AUTONOMOUS" /\ Elapsed(heartbeat_age) > SerialTimeout

SbusLost == armed /\ current_mode # "AUTONOMOUS" /\ Elapsed(sbus_age) > SbusTimeout

CommandsLost ==
    armed /\ current_mode = "AUTONOMOUS" /\ Elapsed(command_age) > SerialTimeout

failsafes ==
    /\ pc = "failsafes" /\ pc' = "top"
    /\ \/ SbusLost /\ trigger_estop
       \/ CommandsLost /\ thrust' = "neutral" /\ UNCHANGED power
       \/ ~SbusLost /\ ~CommandsLost /\ UNCHANGED <<power, thrust>>
    /\ UNCHANGED <<clock, ch, serial_wants_auto>>

Next ==
    \/ Tick
    \/ ReadClock
    \/ handle_sbus
    \/ \E verb \in Verbs : handle_serial_line(verb)
    \/ SerialDrained
    \/ update_state
    \/ update_motors
    \/ failsafes

Spec == Init /\ [][Next]_vars

-----------------------------------------------------------------------------
\* The channels and the Jetson's wishes have been arbitrated and not read since.
Arbitrated == pc \in {"motors", "failsafes", "top", "sbus"}

\* The ESCs never hear anything but neutral unless the boat is armed, its relay
\* has been closed for the whole arm window, and the source of the pulses is the
\* one the mode gives authority to (lines 548-581 and 679-682, against every way
\* the mode, the arming and the relay change in between).
DrivenByAuthority ==
    /\ relay_on = armed
    /\ thrust # "neutral" =>
        /\ armed /\ relay_age >= ArmDelay
        /\ current_mode = IF thrust = "sticks" THEN "MANUAL" ELSE "AUTONOMOUS"

\* "Software can restrict what the transmitter allows.  It can never extend it":
\* once a pass has arbitrated, the boat is armed only with the arm switch up,
\* outside the stop zone, with no receiver failsafe and no latch.
ArmedByTransmitter ==
    Arbitrated /\ armed =>
        ch.arm /\ ch.zone # "low" /\ ~ch.failsafe /\ ~estop_latched

\* Autonomy needs all three: the switch, the request and a heartbeat no older
\* than its timeout and the two passes it can take to look again.
AutonomyIsPermitted ==
    Arbitrated /\ current_mode = "AUTONOMOUS" =>
        /\ ch.zone = "high" /\ ~ch.failsafe /\ serial_wants_auto
        /\ heartbeat_age <= HeartbeatTimeout + 2 * MaxLate

\* Sticks that have not been heard of for the timeout, and the two passes it
\* takes to notice, do not turn the propellers.  Inside the pass itself, between
\* update_motors and the failsafes, they may: when autonomy ends with the
\* receiver long silent, update_motors writes the old sticks once.
NoStaleSticks ==
    thrust = "sticks" /\ pc # "failsafes" => sbus_age <= SbusTimeout + 2 * MaxLate

\* Nor does a motor command, however alive PING keeps the link.
NoStaleCommand == thrust = "command" => command_age <= SerialTimeout + 2 * MaxLate
=============================================================================
