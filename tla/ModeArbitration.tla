-------------------------- MODULE ModeArbitration --------------------------
(***************************************************************************)
(* asket_common/mode_arbitration.py, the one statement in Python of who    *)
(* has authority over the thrusters, and gui_backend/core/pico_state.py,   *)
(* which reads the answer off the wire.  Three numberings of the mode meet *)
(* here: the firmware's (1, 2, 3), the names, and the GUI's (0, 1, 2).     *)
(***************************************************************************)
EXTENDS Integers

Modes == {"ESTOP", "MANUAL", "AUTONOMOUS"}
Zones == {"low", "mid", "high"}
Radios == [zone : Zones, arm : BOOLEAN, failsafe : BOOLEAN]

MODE_LOW_MAX == 700
MODE_MID_MAX == 1400
ARM_THRESHOLD == 1000

\* The raw counts of channels 8 and 7, as the decision reads them.
Radio(ch8, ch7, failsafe) ==
    [zone |-> IF ch8 < MODE_LOW_MAX THEN "low"
              ELSE IF ch8 < MODE_MID_MAX THEN "mid" ELSE "high",
     arm |-> ch7 > ARM_THRESHOLD, failsafe |-> failsafe]

\* The receiver's failsafe overrides every zone.
Granted(radio, wants, live) ==
    IF radio.failsafe \/ radio.zone = "low" THEN "ESTOP"
    ELSE IF radio.zone = "high" /\ wants /\ live THEN "AUTONOMOUS" ELSE "MANUAL"

BlockedBy(radio, wants, live) ==
    IF radio.failsafe THEN "sbus_failsafe"
    ELSE CASE radio.zone = "low" -> "rc_estop"
           [] radio.zone = "mid" -> "rc_manual"
           [] radio.zone = "high" -> IF ~wants THEN "not_requested"
                                     ELSE IF ~live THEN "link_stale" ELSE ""

\* Disarming, or the stop zone, clears the latch; a latch that is left disarms.
Arbitrate(radio, wants, live, latched) ==
    LET mode == Granted(radio, wants, live)
        latch == latched /\ radio.arm /\ mode # "ESTOP"
    IN  [mode |-> mode, latched |-> latch,
         armed |-> radio.arm /\ mode # "ESTOP" /\ ~latch,
         permitted |-> radio.zone = "high" /\ ~radio.failsafe,
         blocked |-> BlockedBy(radio, wants, live)]

-----------------------------------------------------------------------------
\* One STATE line as the firmware numbers it, whole or cut short.
StateLine(pico) ==
    [mode |-> CASE pico.mode = "ESTOP" -> 1 [] pico.mode = "MANUAL" -> 2
                [] pico.mode = "AUTONOMOUS" -> 3,
     armed |-> pico.armed, latched |-> pico.latched]

\* A slip: the firmware's number is taken for the GUI's.
ModeOfNumberOffByOne(n) == CASE n = 0 -> "ESTOP" [] n = 1 -> "MANUAL"
                             [] n = 2 -> "AUTONOMOUS" [] OTHER -> "UNKNOWN"

ModeOfNumber(n) == CASE n = 1 -> "ESTOP" [] n = 2 -> "MANUAL"
                     [] n = 3 -> "AUTONOMOUS" [] OTHER -> "UNKNOWN"

GuiNumber(name) == CASE name = "ESTOP" -> 0 [] name = "MANUAL" -> 1
                     [] name = "AUTONOMOUS" -> 2 [] OTHER -> 255

GuiName(n) == CASE n = 0 -> "ESTOP" [] n = 1 -> "MANUAL" [] n = 2 -> "AUTONOMOUS"
                [] OTHER -> "UNKNOWN"

\* What the GUI keeps of a line: a field that could not be read is not guessed.
Parse(line) ==
    [mode |-> GuiName(GuiNumber(ModeOfNumber(line.mode))),
     armed |-> line.armed, latched |-> line.latched]

\* What is left of a line whose mode was cut off or garbled.
Garbled == [mode |-> "UNKNOWN", armed |-> FALSE, latched |-> FALSE]

\* The sentence next to a boat that will not turn its propellers.
ArmingBlock(armed, armHigh, latched) ==
    IF armed THEN "none"
    ELSE IF ~armHigh THEN "rc_low"
    ELSE IF latched THEN "latched"
    ELSE "contradictory"
=============================================================================
