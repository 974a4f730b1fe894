---------------------------- MODULE MCStandalone ----------------------------
(***************************************************************************)
(* The components that have no part in one another, checked side by side:  *)
(* a behaviour is one of the component that part names, and the variables  *)
(* of the others keep their first values.                                  *)
(***************************************************************************)
EXTENDS PicoFirmware, VelocityChain, TileService, SystemTest, TrackedObjects,
        ObstacleFusion, TLC

CONSTANTS Parts,    \* the components looked at
          NoReturn

VARIABLES part,
          targets, target, scene, cloud, scanned    \* dock_detector

---------------------------------------------------------------------------
\* The pre-flight: the topics that critical checks need, each heard with a message
\* that is well; the Pico may also not have said its version, the battery be low
\* and without a charge.
CriticalTopics == {"fix", "battery", "heading", "sonar", "pico"}

Well ==
    [fix |-> [fix_type |-> 3, hdop |-> 8],
     battery |-> [soc |-> 90, voltage |-> 280],
     heading |-> [valid |-> TRUE, accuracy |-> 12, divergence |-> -15, meaningful |-> TRUE],
     sonar |-> [connected |-> TRUE, rate |-> 50, points |-> 256, clock_offset |-> -250],
     pico |-> [rc_link_ok |-> TRUE, channel8 |-> 1811, firmware |-> 4]]

Mixed ==
    [[t \in CriticalTopics |-> {Well[t]}] EXCEPT
        !.pico = @ \cup {[Well.pico EXCEPT !.firmware = 0]},
        !.battery = @ \cup {[soc |-> NaN, voltage |-> 219]}]

Measured ==
    [overlay_error |-> FALSE, error |-> FALSE, found |-> TRUE, applied |-> TRUE,
     unknown_fields |-> FALSE, measured |-> TRUE]

\* All of them, the ones that can be answered, and a name no check has.
TheAsked ==
    {{}, {"battery_charge", "disk_space"}, {"sonar_clock", "sonar_mounting", "ros_nodes"},
     {"pico_link", "pico_firmware_version", "heading_valid"}, {"unheard_of"}}

Room == [free |-> 200, mbps |-> 120, writable |-> TRUE]
Full == [free |-> 0, mbps |-> None, writable |-> FALSE]
Disks == {Room, Full}

Mountings == [omniscan_bridge |-> Measured, mission_recorder |-> None]
Nodes == {"omniscan_bridge", "mission_recorder"}

---------------------------------------------------------------------------
\* The dock detector with the parameters it declares; a lidar that looks to port.
Docks == INSTANCE DockScenes WITH
    QuarterTurns <- 1, ClusterEps <- 6, ClusterMinSamples <- 3,
    RansacMinInliers <- 10, MaxLinesPerCluster <- 8,
    BerthWidth <- 200, WidthTolerance <- 40, ArmLengthMin <- 60, ArmLengthMax <- 300,
    BackWallLengthMin <- 80, BackWallLengthMax <- 800, CornerGapTolerance <- 35,
    OccupancyMargin <- 15, OccupancyMinPoints <- 3

\* Two objects, further apart than the gate and the drifts together.
Apart == {0, 6}

\* Nothing; two objects apart; one before the other; one whose mask came out empty.
Found == {<<>>,
          <<[column |-> 1, pixels |-> {1}], [column |-> 3, pixels |-> {3}]>>,
          <<[column |-> 2, pixels |-> {1, 2, 3}], [column |-> 3, pixels |-> {3}]>>,
          <<[column |-> 1, pixels |-> {1, 2}], [column |-> 2, pixels |-> {}]>>}

dockVars == <<targets, target, scene, cloud, scanned>>
partVars == <<vars, testVars, dockVars, objectVars, fusionVars, tileVars, chainVars>>

StandaloneInit ==
    /\ part \in Parts
    /\ Init /\ TestInit /\ ObjectsInit /\ FusionInit
    /\ TilesInit /\ ChainInit
    /\ IF part = "dock_detector" THEN Docks!SceneInit ELSE Docks!NoScene

Loops ==
    /\ part = "pico-node" /\ Next
    /\ UNCHANGED <<part, testVars, dockVars, objectVars, fusionVars, tileVars,
                    chainVars>>

Preflights ==
    /\ part = "system_test" /\ TestNext
    /\ UNCHANGED <<part, vars, dockVars, objectVars, fusionVars, tileVars,
                    chainVars>>

Scans ==
    /\ part = "dock_detector" /\ Docks!Scan
    /\ UNCHANGED <<part, vars, testVars, objectVars, fusionVars, tileVars,
                    chainVars>>

Tracks ==
    /\ part = "geo_fusion" /\ ObjectsNext
    /\ UNCHANGED <<part, vars, testVars, dockVars, fusionVars, tileVars,
                    chainVars>>

Fuses ==
    /\ part = "fusion" /\ FusionNext
    /\ UNCHANGED <<part, vars, testVars, dockVars, objectVars, tileVars,
                    chainVars>>

Serves ==
    /\ part = "tiles" /\ TilesNext
    /\ UNCHANGED <<part, vars, testVars, dockVars, objectVars, fusionVars,
                    chainVars>>

Drives ==
    /\ part = "control" /\ ChainNext
    /\ UNCHANGED <<part, vars, testVars, dockVars, objectVars, fusionVars,
                    tileVars>>

StandaloneNext ==
    \/ Loops
    \/ Preflights
    \/ Scans
    \/ Tracks
    \/ Fuses
    \/ Serves
    \/ Drives

StandaloneSpec == StandaloneInit /\ [][StandaloneNext]_<<part, partVars>>

Symmetry == Permutations(Threads)

---------------------------------------------------------------------------
\* The berth offered is free: see DockScenes.
FreeIsFree == Docks!FreeIsFree
=============================================================================
