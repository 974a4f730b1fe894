------------------------------- MODULE Alarms -------------------------------
(***************************************************************************)
(* What the operator is alarmed about (alarms.py).                         *)
(*                                                                         *)
(* An alarm is its key, its severity and the measured value its message    *)
(* shows; the wording and the remedy are left out.  A reading that is      *)
(* missing is Absent.  Charge is in percent, the disk in GiB.              *)
(***************************************************************************)
EXTENDS Integers

CONSTANT Absent

\* AlarmThresholds
battery_low_soc == 25
battery_critical_soc == 12
disk_low_bytes == 5
clock_offset_warn_ms == 250
clock_offset_alarm_ms == 1000
roll_warn_deg == 20
roll_alarm_deg == 30
link_lost_s == 10
geofence_approach_m == 25
sonar_silent_s == 10

Abs(x) == IF x < 0 THEN -x ELSE x

Alarm(key, severity, value) == [key |-> key, severity |-> severity, value |-> value]
When(condition, key, severity, value) ==
    IF condition THEN {Alarm(key, severity, value)} ELSE {}

\* Two levels of one reading: the alarm hides the warning.
Escalating(value, alarms, warns, high, low) ==
    IF value = Absent THEN {}
    ELSE IF alarms THEN {Alarm(high, "alarm", value)}
    ELSE When(warns, low, "warn", value)

-----------------------------------------------------------------------------
LinkAlarms(r) ==
    When(r.link_age # Absent /\ r.link_age > link_lost_s, "link_lost", "alarm", r.link_age)

PowerAlarms(r) ==
    Escalating(r.soc, r.soc <= battery_critical_soc, r.soc <= battery_low_soc,
               "battery_critical", "battery_low")
    \cup When(r.can_finish = FALSE, "endurance_short", "warn", Absent)

RecordingAlarms(r) ==
    When(r.recording /\ r.disk_free # Absent /\ r.disk_free < disk_low_bytes,
         "disk_low", "alarm", r.disk_free)
    \cup When(r.recording_error # Absent, "recording_stopped", "alarm", r.recording_error)

\* Both only of a sonar that has ever been heard of.
SonarAlarms(r) ==
    IF ~r.sonar_expected THEN {}
    ELSE When(\/ ~r.sonar_connected
              \/ r.sonar_silent # Absent /\ r.sonar_silent > sonar_silent_s,
              "sonar_unresponsive", "alarm", Absent)
         \cup Escalating(r.clock_offset,
                         Abs(r.clock_offset) >= clock_offset_alarm_ms,
                         Abs(r.clock_offset) >= clock_offset_warn_ms,
                         "clock_drift", "clock_drift")

HeadingAlarms(r) ==
    IF r.heading_valid = FALSE THEN {Alarm("heading_invalid", "alarm", Absent)}
    ELSE When(r.divergence # Absent, "heading_divergence", "warn", r.divergence)

RollAlarms(r) ==
    Escalating(r.roll, Abs(r.roll) >= roll_alarm_deg, Abs(r.roll) >= roll_warn_deg,
               "roll_excessive", "roll_high")

FenceAlarms(r) ==
    When(r.fence # Absent /\ r.fence < geofence_approach_m,
         "geofence_approach", "warn", r.fence)

RadioAlarms(r) == When(r.rc_link_ok = FALSE, "rc_link_lost", "alarm", Absent)

\* evaluate
Evaluate(r) ==
    LinkAlarms(r) \cup PowerAlarms(r) \cup RecordingAlarms(r) \cup SonarAlarms(r)
    \cup HeadingAlarms(r) \cup RollAlarms(r) \cup FenceAlarms(r) \cup RadioAlarms(r)

Keys(alarms) == {a.key : a \in alarms}

\* Mutant: an alarm is raised when its key is new.
DiffByKey(previous, current) ==
    [raised  |-> {a \in current : a.key \notin Keys(previous)},
     cleared |-> Keys(previous) \ Keys(current)]

\* diff: an alarm that says something new is raised again.
Diff(previous, current) ==
    [raised  |-> current \ previous,
     cleared |-> Keys(previous) \ Keys(current)]
=============================================================================
