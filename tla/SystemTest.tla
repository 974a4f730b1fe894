----------------------------- MODULE SystemTest -----------------------------
(***************************************************************************)
(* The node of the built-in test (system_test_node.py): what it has heard, *)
(* kept for as long as it runs, the pre-flight at boot and on request, the *)
(* report it latches for whoever subscribes later and the history of its   *)
(* runs (history.py).                                                      *)
(*                                                                         *)
(* The node has one thread, so that a run sees one state.  Only the Pico's *)
(* status is given an age; a unit of it is a second.                       *)
(***************************************************************************)
EXTENDS Preflight, Sequences, SequencesExt

CONSTANTS
    Topics,       \* the published of fix, imu, battery, scan, heading, sonar,
                  \* pico and link
    Messages,     \* what a publisher of each topic may say
    Diagnostics,  \* [nodes -> the mounting state its diagnostics carry, or None]
    Expected,     \* expected_nodes
    Asked,        \* the sets of checks a request may name
    Disk,         \* what the disk may show: [free, mbps, writable]
    MAX_RUNS,     \* of the history (2000)
    Runs          \* bound: how many pre-flights are run

ASSUME MessagesAssumption == \A t \in Topics : None \notin Messages[t]

VARIABLES
    heard,     \* the last message of each topic, None before the first
    pico_age,  \* seconds since the Pico was heard, None before
    nodes,     \* the names in _node_diagnostics
    booted,    \* whether the boot timer has fired
    report,    \* the latched report: what was asked and the verdict, or None
    history,   \* the runs on disk, oldest first: [number, go]
    runs       \* how many were run

testVars == <<heard, pico_age, nodes, booted, report, history, runs>>
inputs == <<heard, pico_age, nodes>>

-----------------------------------------------------------------------------
\* _set
Hear(t) ==
    /\ \E m \in Messages[t] : heard' = [heard EXCEPT ![t] = m]
    /\ pico_age' = IF t = "pico" THEN 0 ELSE pico_age
    /\ UNCHANGED <<nodes, booted, report, history, runs>>

\* _on_diagnostics: a name that was ever heard stays.
HearDiagnostics(n) ==
    /\ nodes' = nodes \cup {n}
    /\ UNCHANGED <<heard, pico_age, booted, report, history, runs>>

\* A second without the Pico, up to one beyond what the check allows.
Second ==
    /\ pico_age # None /\ pico_age <= max_pico_age_s
    /\ pico_age' = pico_age + 1
    /\ UNCHANGED <<heard, nodes, booted, report, history, runs>>

-----------------------------------------------------------------------------
\* A topic that is not among Topics is one nobody publishes.
Field(t, f) == IF t \in Topics /\ heard[t] # None THEN heard[t][f] ELSE None

\* _mounting: the first of the diagnostics that carries one.
Mounting ==
    LET reporting == {n \in nodes : Diagnostics[n] # None}
    IN IF reporting = {} THEN None ELSE Diagnostics[CHOOSE n \in reporting : TRUE]

\* _state.  Satellites are not counted, GPS time and the parser's own facts are
\* not collected, and a firmware that says 0 has not said.
State(disk) ==
    [pico_age |-> pico_age, rc_link_ok |-> Field("pico", "rc_link_ok"),
     channel8 |-> Field("pico", "channel8"),
     firmware |-> IF Field("pico", "firmware") = 0 THEN None ELSE Field("pico", "firmware"),
     estop_feedback |-> FALSE,
     format_verified |-> None, format_parsed |-> None, format_unknown_keys |-> FALSE,
     num_sats |-> None, fix_type |-> Field("fix", "fix_type"), hdop |-> Field("fix", "hdop"),
     gps_offset |-> None, gps_age |-> None,
     heading_valid |-> Field("heading", "valid"),
     heading_accuracy |-> Field("heading", "accuracy"),
     divergence |-> Field("heading", "divergence"),
     divergence_meaningful |-> Field("heading", "meaningful"),
     roll |-> Field("imu", "roll"), pitch |-> Field("imu", "pitch"),
     lidar_rotation |-> Field("scan", "rotation"), lidar_points |-> Field("scan", "points"),
     sonar_connected |-> Field("sonar", "connected"), sonar_rate |-> Field("sonar", "rate"),
     sonar_points |-> Field("sonar", "points"),
     clock_offset |-> Field("sonar", "clock_offset"),
     disk_free |-> disk.free, disk_mbps |-> disk.mbps,
     soc |-> Field("battery", "soc"), voltage |-> Field("battery", "voltage"),
     rtt |-> Field("link", "rtt"),
     expected |-> Expected, present |-> Expected \cap nodes, mounting |-> Mounting]

\* PreflightHistory.append, and _trim to the last of them
Appended(entry) ==
    LET all == Append(history, entry)
    IN IF Len(all) <= MAX_RUNS THEN all
       ELSE SubSeq(all, Len(all) - MAX_RUNS + 1, Len(all))

\* run: the report is latched whether or not the history could be written.
Run(only) ==
    /\ runs < Runs /\ runs' = runs + 1
    /\ \E disk \in Disk :
        LET verdict == RunChecks(State(disk), only)
        IN /\ report' = [only |-> only, go |-> verdict.go, number |-> runs']
           /\ history' = IF disk.writable
                         THEN Appended([number |-> runs', go |-> verdict.go])
                         ELSE history
    /\ UNCHANGED inputs

\* _run_at_boot
RunAtBoot ==
    /\ ~booted /\ booted' = TRUE
    /\ Run({})

\* _on_run; a request for an active test is refused and changes nothing.
OnRun ==
    /\ \E only \in Asked : Run(only)
    /\ UNCHANGED booted

-----------------------------------------------------------------------------
TestInit ==
    /\ heard = [t \in Topics |-> None]
    /\ pico_age = None /\ nodes = {}
    /\ booted = FALSE /\ report = None
    /\ history = <<>> /\ runs = 0

TestNext ==
    \/ \E t \in Topics : Hear(t)
    \/ \E n \in DOMAIN Diagnostics : HearDiagnostics(n)
    \/ Second
    \/ RunAtBoot
    \/ OnRun

TestSpec == TestInit /\ [][TestNext]_testVars

-----------------------------------------------------------------------------
\* The topics that must have been heard for a check not to be a guess.
Needs(check) ==
    CASE check \in {"pico_link", "pico_firmware_version"} -> {"pico"}
      [] check \in {"gnss_fix", "clock_gps_offset"} -> {"fix"}
      [] check = "heading_valid" -> {"heading"}
      [] check \in {"sonar_link", "sonar_clock"} -> {"sonar"}
      [] check = "battery_charge" -> {"battery"}
      [] OTHER -> {}

\* No verdict latched is a GO on the strength of something nobody ever heard: of
\* every critical check that was asked for, the instrument had reported.
GoMeansHeard ==
    report # None /\ report.go =>
        \A c \in Critical :
            (report.only = {} \/ c \in report.only) => \A t \in Needs(c) : heard[t] # None

=============================================================================
