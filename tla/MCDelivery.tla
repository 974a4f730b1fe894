----------------------------- MODULE MCDelivery -----------------------------
(***************************************************************************)
(* A track of a few points and readings that stand for a quiet vessel, for *)
(* a reading at either side of a threshold and for two alarms of one key.  *)
(***************************************************************************)
EXTENDS Delivery

Quiet ==
    [link_age |-> 10, soc |-> 26, can_finish |-> TRUE, recording |-> FALSE,
     disk_free |-> Absent, recording_error |-> Absent, sonar_expected |-> TRUE,
     sonar_connected |-> TRUE, sonar_silent |-> 10, clock_offset |-> 249,
     heading_valid |-> TRUE, divergence |-> Absent, roll |-> -19, fence |-> Absent,
     rc_link_ok |-> TRUE]

TheReadings == {[Quiet EXCEPT !.clock_offset = -250],
                [Quiet EXCEPT !.clock_offset = 1000]}
=============================================================================
