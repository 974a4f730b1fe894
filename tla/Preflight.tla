----------------------------- MODULE Preflight ------------------------------
(***************************************************************************)
(* The passive pre-flight checks and their verdict (checks.py).            *)
(*                                                                         *)
(* A check looks at a snapshot of the vessel, a record in which a missing  *)
(* value is None and one that is not a number NaN, and answers with a      *)
(* status and the value it measured.  The wording of messages and remedies *)
(* is left out; that a remedy points at the setup page is not.             *)
(* Charge is in percent, the disk in GiB; HDOP, volts and rates in tenths. *)
(***************************************************************************)
EXTENDS Integers, FiniteSets

CONSTANTS None, NaN

\* Thresholds
min_satellites == 6
max_hdop == 25
min_battery_soc == 40
min_battery_voltage == 220
max_heading_accuracy_deg == 12
max_heading_divergence_deg == 15
max_roll_at_rest_deg == 8
min_lidar_rotation_hz == 80
min_lidar_points == 100
min_sonar_ping_rate_hz == 10
min_sonar_points == 32
max_clock_offset_ms == 250
max_gps_offset_ms == 1000
max_gps_time_age_s == 30
min_disk_free_bytes == 20
min_disk_write_mbps == 20
max_link_rtt_ms == 400
max_pico_age_s == 2
EXPECTED_FIRMWARE_VERSION == 4
CH8_ESTOP_MAX == 700

\* A comparison with what is not a number is false; a value that is missing is
\* asked for first.
Known(x) == x \notin {None, NaN}
Below(x, limit) == Known(x) /\ x < limit
Above(x, limit) == Known(x) /\ x > limit
Largest(a, b) == IF a > b THEN a ELSE b
Magnitude(x) == IF Known(x) /\ x < 0 THEN -x ELSE x

\* CheckResult, with the setup field it waits for
Result(status, value) == [status |-> status, value |-> value, setup |-> FALSE]
Setup(status) == [Result(status, None) EXCEPT !.setup = TRUE]
Missing == Result("SKIPPED", None)

\* The first of the rows whose condition holds.
First(rows) ==
    rows[CHOOSE i \in DOMAIN rows :
            rows[i][1] /\ \A j \in DOMAIN rows : j < i => ~rows[j][1]][2]

-----------------------------------------------------------------------------
\* The vessel itself.
PicoLink(s) == First(<<
    <<s.pico_age = None, Missing>>,
    <<Above(s.pico_age, max_pico_age_s), Result("FAIL", s.pico_age)>>,
    <<TRUE, Result("PASS", s.pico_age)>> >>)

FirmwareVersion(s) == First(<<
    <<s.firmware = None, Missing>>,
    <<s.firmware # EXPECTED_FIRMWARE_VERSION, Result("FAIL", s.firmware)>>,
    <<TRUE, Result("PASS", s.firmware)>> >>)

StateFormat(s) == First(<<
    <<s.format_verified = None, Missing>>,
    <<s.format_verified = FALSE, Result("WARN", None)>>,
    <<s.format_parsed = FALSE, Result("FAIL", None)>>,
    <<s.format_unknown_keys, Result("WARN", None)>>,
    <<TRUE, Result("PASS", None)>> >>)

EstopFeedback(s) == First(<<
    <<s.estop_feedback = None, Missing>>,
    <<s.estop_feedback = FALSE, Result("WARN", None)>>,
    <<TRUE, Result("PASS", None)>> >>)

RcLink(s) == First(<<
    <<s.rc_link_ok = None, Missing>>,
    <<s.rc_link_ok = FALSE, Result("FAIL", None)>>,
    <<s.channel8 = None, Result("WARN", None)>>,
    <<Below(s.channel8, CH8_ESTOP_MAX), Result("WARN", s.channel8)>>,
    <<TRUE, Result("PASS", s.channel8)>> >>)

-----------------------------------------------------------------------------
\* Navigation.
GnssFix(s) == First(<<
    <<s.num_sats = None \/ s.fix_type = None, Missing>>,
    <<Below(s.fix_type, 3), Result("FAIL", s.num_sats)>>,
    <<Below(s.num_sats, min_satellites), Result("FAIL", s.num_sats)>>,
    <<Above(s.hdop, max_hdop), Result("WARN", s.hdop)>>,
    <<TRUE, Result("PASS", s.num_sats)>> >>)

HeadingValid(s) == First(<<
    <<s.heading_valid = None, Missing>>,
    <<s.heading_valid = FALSE, Result("FAIL", None)>>,
    <<Above(s.heading_accuracy, max_heading_accuracy_deg),
      Result("WARN", s.heading_accuracy)>>,
    <<TRUE, Result("PASS", s.heading_accuracy)>> >>)

HeadingDivergence(s) == First(<<
    <<s.divergence = None \/ s.divergence_meaningful = FALSE, Missing>>,
    <<Above(Magnitude(s.divergence), max_heading_divergence_deg),
      Result("WARN", s.divergence)>>,
    <<TRUE, Result("PASS", s.divergence)>> >>)

ImuAtRest(s) ==
    IF None \in {s.roll, s.pitch} THEN Missing
    ELSE LET worst == Largest(Magnitude(s.roll), Magnitude(s.pitch))
         IN Result(IF Above(worst, max_roll_at_rest_deg) THEN "WARN" ELSE "PASS", worst)

-----------------------------------------------------------------------------
\* Sensors.
LidarSpin(s) == First(<<
    <<s.lidar_rotation = None, Missing>>,
    <<Below(s.lidar_rotation, min_lidar_rotation_hz), Result("FAIL", s.lidar_rotation)>>,
    <<Below(s.lidar_points, min_lidar_points), Result("WARN", s.lidar_points)>>,
    <<TRUE, Result("PASS", s.lidar_rotation)>> >>)

\* Connected or not is what decides; sonar_discovered only words the failure.
SonarLink(s) == First(<<
    <<s.sonar_connected = None, Missing>>,
    <<s.sonar_connected = FALSE, Result("FAIL", None)>>,
    <<Below(s.sonar_rate, min_sonar_ping_rate_hz), Result("WARN", s.sonar_rate)>>,
    <<Below(s.sonar_points, min_sonar_points), Result("WARN", s.sonar_points)>>,
    <<TRUE, Result("PASS", s.sonar_rate)>> >>)

GpsClock(s) == First(<<
    <<s.fix_type = None, Missing>>,
    <<Below(s.fix_type, 3), Missing>>,
    <<s.gps_offset = None, Result("FAIL", None)>>,
    <<Above(s.gps_age, max_gps_time_age_s), Result("FAIL", s.gps_age)>>,
    <<Above(Magnitude(s.gps_offset), max_gps_offset_ms), Result("FAIL", s.gps_offset)>>,
    <<TRUE, Result("PASS", s.gps_offset)>> >>)

SonarClock(s) == First(<<
    <<s.clock_offset = None, Missing>>,
    <<Above(Magnitude(s.clock_offset), max_clock_offset_ms),
      Result("FAIL", s.clock_offset)>>,
    <<TRUE, Result("PASS", s.clock_offset)>> >>)

SonarMounting(s) ==
    IF s.mounting = None THEN Missing
    ELSE First(<<
    <<s.mounting.overlay_error, Setup("FAIL")>>,
    <<s.mounting.error, Result("FAIL", None)>>,
    <<~s.mounting.found /\ ~s.mounting.applied, Setup("WARN")>>,
    <<s.mounting.unknown_fields, Result("WARN", None)>>,
    <<~s.mounting.measured, Setup("WARN")>>,
    <<TRUE, Result("PASS", None)>> >>)

-----------------------------------------------------------------------------
\* Resources.
DiskSpace(s) == First(<<
    <<s.disk_free = None, Missing>>,
    <<Below(s.disk_free, min_disk_free_bytes), Result("FAIL", s.disk_free)>>,
    <<TRUE, Result("PASS", s.disk_free)>> >>)

DiskSpeed(s) == First(<<
    <<s.disk_mbps = None, Missing>>,
    <<Below(s.disk_mbps, min_disk_write_mbps), Result("FAIL", s.disk_mbps)>>,
    <<TRUE, Result("PASS", s.disk_mbps)>> >>)

\* The value is the charge, whatever is known of it, or the voltage of a failure.
BatteryCharge(s) == First(<<
    <<s.soc = None /\ s.voltage = None, Missing>>,
    <<Below(s.voltage, min_battery_voltage), Result("FAIL", s.voltage)>>,
    <<Below(s.soc, min_battery_soc), Result("WARN", s.soc)>>,
    <<TRUE, Result("PASS", IF s.soc = None THEN 0 ELSE s.soc)>> >>)

LinkQuality(s) == First(<<
    <<s.rtt = None, Missing>>,
    <<Above(s.rtt, max_link_rtt_ms), Result("WARN", s.rtt)>>,
    <<TRUE, Result("PASS", s.rtt)>> >>)

RosNodes(s) == First(<<
    <<~(s.expected \subseteq s.present),
      Result("FAIL", Cardinality(s.expected \ s.present))>>,
    <<TRUE, Result("PASS", Cardinality(s.expected))>> >>)

-----------------------------------------------------------------------------
\* CHECKS: what each one answers, and which are critical.
Answers(s) ==
    [pico_link |-> PicoLink(s), pico_firmware_version |-> FirmwareVersion(s),
     pico_state_format |-> StateFormat(s), pico_estop_feedback |-> EstopFeedback(s),
     rc_link |-> RcLink(s), gnss_fix |-> GnssFix(s), heading_valid |-> HeadingValid(s),
     heading_divergence |-> HeadingDivergence(s), imu_rest |-> ImuAtRest(s),
     lidar_spin |-> LidarSpin(s), sonar_link |-> SonarLink(s),
     clock_gps_offset |-> GpsClock(s), sonar_clock |-> SonarClock(s),
     sonar_mounting |-> SonarMounting(s), disk_space |-> DiskSpace(s),
     disk_speed |-> DiskSpeed(s), battery_charge |-> BatteryCharge(s),
     link_quality |-> LinkQuality(s), ros_nodes |-> RosNodes(s)]

Critical ==
    {"pico_link", "pico_firmware_version", "gnss_fix", "heading_valid", "sonar_link",
     "clock_gps_offset", "sonar_clock", "disk_space", "battery_charge"}

\* Mutant: a check that could not run never blocks.
RunChecksSkippingAll(s, only) ==
    LET all == Answers(s)
        items == [c \in (IF only = {} THEN DOMAIN all ELSE only \cap DOMAIN all) |-> all[c]]
    IN [go |-> \A c \in DOMAIN items : items[c].status # "FAIL", items |-> items]

\* run_checks: of the checks named, or of all.
RunChecks(s, only) ==
    LET all == Answers(s)
        items == [c \in (IF only = {} THEN DOMAIN all ELSE only \cap DOMAIN all) |-> all[c]]
    IN [go |-> \A c \in DOMAIN items :
                   /\ items[c].status # "FAIL"
                   /\ items[c].status = "SKIPPED" => c \notin Critical,
        items |-> items]
=============================================================================
