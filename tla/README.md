# A verification project for the njord / asket boat

TLA+ models of the control, safety, recording, perception and link code of this
repository, the TLC runs that check them and the TLAPS proofs about them. Paths
below are relative to the repository; `src/` in front of a path in `PROJECT.json`
stands for its root.

Contents: [the system](#1-the-system) ·
[modules and code](#2-modules-and-code) · [runs](#3-what-the-runs-check) ·
[bounds and fairness](#4-bounds-and-fairness) · [proofs](#5-what-is-proved) ·
[divergences](#6-where-code-and-documentation-part) ·
[not modelled](#7-what-is-not-modelled) · [plan](#8-plan) ·
[running](#9-running-it)

## 1. The system

An autonomous surface vessel: a Jetson running ROS 2 nodes, a Raspberry Pi Pico
that owns the relay and the thrusters, an RC transmitter that can always
overrule it, and an operator's browser over a radio link that comes and goes.

```
 browser --ws--> gui_backend --/pico/mode_request--> pico_bridge <==serial==> pico-node v4 <--SBUS-- RC
    |              |     | setup.yaml                   |                         |
    |  services    |     +---------> omniscan_bridge    | /control/effort         +-- relay, ESCs
    v              | tiles, alarms    | sonar          |
 competition_manager --/mission/start--> mission_manager| pid_controller <- nav_to_pid <- twist_mux
    ^   |  /competition/status              |  ^        |                        /cmd_vel   ^  ^
    |   v                                   |  | bypass |                                   |  |
    +- boat_bt (behavior tree, docking) ----|--+        +--- /boat_bt/cmd_vel --------------+  |
         complete     ^                     +--> Nav2 (navigate_to_pose) --- /nav2/cmd_vel ----+
                      | berth                     ^ costmap
   lidar, camera -> dock_detector, geo_fusion, lidar_obstacle, fusion_node

 system_test (pre-flight) and mission_recorder listen to all of it
```

### 1.1 Components

| component | state it keeps | operations | hard because of |
|---|---|---|---|
| `mission` (mission_manager) | active mission, index, bypass flags, one goal handle, one "navigating" flag | start, abort, set_bypass_target, 1 s tick, answers of `/fromLL`, goal and result futures | answers come whenever they come and do not say which mission they are for |
| `competition_manager` | selected task, its waypoints, lifecycle state, pending start, latched status | set_task, start, complete, answer of `/mission/start`, `/mission/status` | service answers and status samples are not ordered against each other |
| `boat_bt` | behavior-tree memory, docking phase and its start times, completion flags | 10 Hz tick, target and status callbacks, completion call | a tree that goes back to a RUNNING leaf; late ticks; stale targets; answers of an earlier run |
| firmware `pico-node v4` | mode, arming, relay, e-stop latch, four time stamps, last pulse | `loop()`: SBUS frames, serial lines, arbitration, failsafes | several clocks read in one pass of unsigned arithmetic; an authority shared by transmitter and Jetson |
| `control` | source ages, set-points, last effort with its time, last line of the Pico | callbacks, 20 Hz loops, serial write | a chain of time-outs each of which can hide the next |
| `gui_backend` link and subscriptions | profile selector with its clock; sessions, round trips, subscriptions | websocket messages, hub tick, link timer of the node's thread | two threads; hysteresis against wandering measurements; degradation must not be permanent |
| `gui_backend` command plane | pending and finished commands, last state kept of the Pico | issue, begin, settle, fail, update | confirmation by observed state, which may be old; time-outs against late effects |
| `gui_backend` delivery, alarms | outbox per session, cursors, digests, active alarms | push, drop-oldest, reconnect, splice, resync | lossy queues under streams that are sent by increments |
| `gui_backend` setup, and the sonar's mounting | setup file, gate, fingerprint; base file and overlay | save, apply, reload, report | two browsers, two files, a node that reads them later, power cuts |
| `gui_backend` tile cache | SQLite file, memory of failed requests | get, revalidate, put, evict | worker threads and a write lock |
| `mission_recorder` | state, open files, buffers, manifest, checksums | start, write, tick, stop; copy, verify, delete | write errors, a full disk, power cuts between two steps of stop |
| `omniscan_bridge` | socket, reader thread, bounded queue; parser buffer, ping window | connect, receive, read, configure, feed | a thread against the executor; resynchronisation, loss accounting |
| `system_test` | last messages, latched report, history | run checks at boot and on request | checks over values of unequal age, or never heard |
| `perception`, `fusion`, `vision` | cloud, mask and detection caches; tracks | per-scan and per-frame computation, timers | twenty thresholds; caches of different frames; numbers that must stay with their object |
| `asket_common` | none | arbitration, link budget, geo, setup fields | must agree with the firmware |
| `sensors`, `calibration`, `bringup`, `description`, `njord_msgs`, `asket_interfaces` | none | drivers, launch, messages | – |
| `sim`, `asket_sim`, `asket_gui` panels, `deploy`, `scripts` | – | environment, rendering, set-up | – |

### 1.2 What would make each one correct

* **mission_manager** – one chain of asynchronous calls at a time; the handle it
  would cancel is the goal that runs; SUCCEEDED means every waypoint was reached
  by a goal of this mission; nothing of an ended mission is left at Nav2; a bypass
  that was accepted is lost only to another one or with its mission (that it is always
  carried out is not so: section 6); every mission ends.
* **competition_manager** – a task runs once and ends once; the latched status is
  the state; a start under way cannot be overtaken by a change of task; with
  mission_manager: no mission is refused, and a task that succeeded visited its
  waypoints.
* **boat_bt** – it steers only by a fresh reading; it waits standing; it completes
  only after standing its hold; it reverses no longer than told; no motion command
  outlives the docking; a docking in sight of the dock ends and is heard.
* **firmware** – pulses other than neutral only when armed, the arm window over,
  and from the source the mode gives authority to; no old stick or command value
  turns a propeller.
* **control** – the thrusters turn only on an effort young enough for the two
  time-outs that guard it; docking is not overruled by Nav2.
* **link** – a profile is changed only by evidence of the required length, evidence
  is not thrown away by a link that wanders among better profiles, and what a client
  asked for is never forgotten.
* **command plane** – "confirmed" means that the vessel was in the state asked for since
  the report in hand when it was asked (that report may be older than the command: the code
  does not tell); what it did is confirmed; every command is answered.
* **delivery** – a client that stays connected can rebuild every stream it is given,
  and its alarms are the hub's.
* **setup** – the geometry shown as in use is the one the bridge uses; the digest
  waited for is the one that comes; "measured" is said only of what was measured.
* **mission_recorder** – a manifest that says complete belongs to files that hold what it
  counts, but for what the record of the stop lost; a verified copy has all that a file
  took; what was broken off is never called whole; a stop ends.
* **omniscan_bridge** – no intact frame is lost to a damaged one before it; the loss
  reported is the loss there was.
* **system_test** – GO only on what was really heard.
* **perception, fusion** – a berth called free is free; while mask and detections are of
  one frame every detection reaches the costmap; an object that stays in sight, well apart
  from the others, keeps its number.
* **tile cache** – within its limit once the last writer has looked without an error; a
  tile once held does not go blank.

`PROJECT.json` lists the hazards behind these, each at the line where it bites.

## 2. Modules and code

| module | code | what it is |
|---|---|---|
| `WaypointMission` | – | abstract: what a mission promises, without Nav2, futures or bypasses |
| `MissionManager` | `src/mission/mission/mission_manager.py` | every service handler, the tick, every future callback as one action each |
| `MissionManagerRefinement` | same | the mapping of MissionManager onto WaypointMission |
| `TaskLifecycle` | – | abstract: the life of a task as `/competition/status` tells it |
| `CompetitionManager`, `CompetitionTasks` | `competition_manager.py` | services, the start answer, status samples; the mission manager left open |
| `CompetitionStack` | both | composes the two over the service call and the depth-1 status topic |
| `DockingController`, `DockingTasks` | `boat_bt/src/docking_nodes.cpp` | one control cycle of the docking state machine |
| `BoatBT` | `boat_bt_node.cpp`, `bt_registration.cpp`, `mission_monitor.cpp`, `simple_boat.xml` | EXTENDS DockingController: the tree, callbacks, completion call |
| `DockingStack` | both nodes | composes BoatBT and CompetitionManager over status topic and completion service |
| `PicoFirmware` | `firmware/pico-node_v4/pico-node_v4.ino` | `loop()`, one action per call it makes |
| `VelocityChain` | `control/` (nav_to_pid, pid_controller, pico_bridge), `twist_mux.yaml` | the memories and time-outs from a velocity source to the thrusters |
| `LinkProfile` | `gui_backend/core/link_profile.py` | ProfileSelector, one action per way out of `update` |
| `Hub` | `hub.py`, `streams.py`, `server.py`, `gui_backend_node.py` | EXTENDS LinkProfile: sessions, subscriptions, the link timer's two looks |
| `ModeArbitration` | `asket_common/mode_arbitration.py`, `pico_state.py`, adapters | who has authority; the three numberings of a mode; what blocks arming |
| `CommandPlane` | `commands.py`, `hub.py`, `ros_source.py`, `pico_bridge.py`, `connection.js` | an operator's command and back |
| `Alarms` | `gui_backend/core/alarms.py` | `evaluate` and `diff`, with the thresholds |
| `Delivery` | `hub.py`, `server.py`, `ros_source.py`, `payloads.py`, `connection.js`, `App.jsx` | track and alarms from source to screen |
| `Setup` | `setup_store.py`, `setup_api.py`, `setup_gate.py`, `setup_profile.py`, `hub.py`; `mounting.py`, `omniscan_bridge_node.py` | the setup file and the overlay the sonar bridge makes of it |
| `MissionDirectories` | – | abstract: what the recorder promises of the directories it leaves |
| `MissionRecorder` | `mission_recorder/core/mission.py`, `mission_recorder_node.py`, `export.py` | start, write, tick, stop, copy, verify, delete, with faults at every step |
| `PingParser` | `omniscan_bridge/core/parser.py`, `ping_protocol.py` | framing, resynchronisation, loss accounting |
| `SonarBridge` | `transport.py`, `omniscan_bridge_node.py` | EXTENDS PingParser: reader thread, queue, configuration, the sonar |
| `Preflight`, `SystemTest` | `system_test/core/checks.py`, `system_test_node.py`, `history.py` | the nineteen checks and their verdict; the node around them |
| `DockDetector`, `DockScenes` | `perception/dock_detector_node.py` | one scan to a berth; the basins it is tried on |
| `ObstacleFusion` | `lidar_obstacle_node.py`, `fusion_node.py`, `vision/node.py` | caches and timer from lidar and camera to the obstacle cloud |
| `GeoFusion`, `TrackedObjects` | `fusion/geo_fusion_node.py` | clustering, association, tracker; the objects it is shown |
| `TileService` | `gui_backend/core/tiles.py`, `tile_cache.py` | tiles served by worker threads over one SQLite file |
| `MCStandalone` | – | the parts that share nothing, checked side by side: EXTENDS the firmware, the velocity chain, the tiles, the pre-flight node, the tracker and the cloud, whose properties it checks under their own names, and INSTANCEs the dock detector |
| `MCSetup` | – | constants for TLC; checks `Setup` and `SonarBridge` side by side |
| other `MC*` | – | constants for TLC |
| `*_proofs` | – | theorems: one module per component, `Broadcaster_proofs` for the hub and the delivery, `Standalone_proofs` for the parts of `MCStandalone` |

### 2.1 How state and actions correspond

**MissionManager.** The node runs on a single-threaded executor, so a callback is
one action; what interleaves is their order. Variables are the attributes of the
node by their names (`active` is `_active`, …). The one thing the code does not
keep and the model must is the set of chains `fromLL → goal → accepted → result`
that are outstanding: `jobs[j]` holds what the callbacks still to come will be
called with. `Nav2Ends` and the answers of `/fromLL` are the environment. `tainted` and
`reached` are history: whether this mission was started while chains of an earlier
one were outstanding (the code does not prevent it), and which waypoints its own
goals reached. Coordinates are left out.

**CompetitionManager, CompetitionStack.** A task definition is its number of
waypoints, read anew at each selection. `SetState` is `set_competition_state` with its
"unchanged" suppression. In the composition `request` and `answer` are the
`/mission/start` call on its way there and back; `unread` is the latched status sample
not yet taken, replaced by the next. The two travel independently.

**DockingController, BoatBT.** Time is counted in ticks; a tick comes up to
`MaxLate` periods late. One clock stands for the four start times of which a phase
reads only its own. A target is reduced to what the thresholds tell apart.
`inDocking` is the memory of the Fallback and Sequence above ExecuteDocking, which
go back to it without asking IsTask again. `finished` is `tree_finished_`.

**PicoFirmware.** Time stamps are kept as ages. `late` is the time since `loop()`
read `millis()`; a comparison against the loop's own `now` is `Elapsed(age)`,
which wraps modulo `Wrap` when the stamp is newer than `now`. Decoding of frames is
reduced to arm, zone and failsafe bit.

**VelocityChain.** A velocity is known by the source it came from, and what the PID
computes for it bears its name. A tick is 100 ms, in which both 20 Hz timers run.
`since`, `quiet`, `unheard` are the ages the three time-outs look at.

**LinkProfile, Hub.** A profile is its place in the order (0 = full); a round trip
or quality is the profile it calls for. `held` is the age of the candidate. `side`
and `streak` are history. The web server's event loop runs a handler or a tick
to its end; the node's timer thread reads the clients (`ReadLink`) and later looks
again (`FeedLink`), and anything may happen between. The table of streams and profiles
stands in `Hub`, in tenths of a hertz; the run takes the sonar's row of it, and an ASSUME
of `MCHub` looks at all of them: each is a table the proofs are about, and what is marked
critical is carried by every profile.

**CommandPlane.** Time goes in periods of the STATE line. Request, line and answer
can be lost at each hop; the receiver, the bridge and the browser's link go down and
come back. `command[id].modes` is history: the modes the vessel was in since the
report that was in hand when the command was issued; `held` for how many whole periods
it has been in the one that was asked for.

**Delivery.** A point of the track is its number. `outbox`, `wire` and `requests` are
what is on its way; `plotted` and `shown` are the browser's. Alarms are computed by
`Evaluate` (module Alarms) from readings of the environment, `sensed`. The other streams only take room
in the outbox.

**Setup.** A field is one of the numbers that place the sonar, the side it looks to,
or one the backend reads itself. The file is a map and whether it is whole; a digest
is the geometry it is made of. The backend handles one request at a time, the bridge
reads the file when it starts or is told to and reports once a second. `claims` is
history: every number that somebody called measured.

**MissionRecorder.** `doing` is how far a start or a stop has come; a kill or a power
cut can come between any two steps. All that a mission records is one count of
units, accepted, buffered, in the kernel's cache or on the disk; the `mission_started` and
`mission_stopped` events are units too. `WriteStopped` is the write of the latter, which a
stop makes before it flushes; `lost` is history: what was counted there and no file took.

**SonarBridge, PingParser.** A byte is a token with a kind and a value; a payload is
its first token, the ping number, and may hold a token that looks like a marker. The
reader thread and the executor interleave at every operation on queue and socket.
`whole` is history: the pings whose frame was fed in one chunk, or in two of which
`before` is the first.

**Preflight, SystemTest.** A snapshot is a record in which a value may be missing or
not a number. The node keeps for ever what it has heard.

**DockDetector.** Integers: points in decimetres, lengths in centimetres, angles as
tangents per mille. The pipeline is the code's, step by step: DBSCAN, RANSAC, the U
shapes, duplicates, occupancy, the choice. The draws of RANSAC are taken to find a
line with the most inliers; which of those that tie is a choice.

**GeoFusion, ObstacleFusion.** Places lie on a line, directions on one image row. The
Kalman filter is what it does to the decisions: a drift per frame. The network of the
camera is a choice among frames; the two caches may be of different frames. The tracks
are a set of records whose numbers say in which order the code keeps them, and a cluster
of the lidar is the smallest set of returns that is closed under "near": what the
code's expansion by a stack ends with.

**TileService.** A tile is one byte and its version; `req[t]` is how far a worker
thread has come between two statements of SQLite or a request upstream. Every use of the
database may fail, in the way the code passes over: a read finds nothing, a total is zero,
a write, a mark or an eviction is left out. `writer` is history: the thread that wrote the
newest row, until its own look at the total or its eviction fails.

## 3. What the runs check

| run | configuration | result | shows |
|---|---|---|---|
| `mission` | `MissionManagerRefinement.cfg` | pass, 347 k states | every order of service calls, ticks, Nav2 outcomes and late answers over two chains: `EndLeavesNothingBehind`, `BypassLostOnlyToAnother` (an accepted bypass goes only when it is sent, a later one takes its place, the one under way is over, or the mission ends), `MissionEnds` (liveness), and `KeepsContract`: the node implements WaypointMission |
| `stack` | `CompetitionStack.cfg` | pass, 1.23 M | both managers: `NeverRefused`, `SuccessIsEarned`, and `KeepsLifecycle`: together they implement TaskLifecycle |
| `docking` | `MCDockingStack.cfg` | pass, 400 k | competition_manager and boat_bt with late ticks: `SteersByFreshReading`, `CompleteIsEarned`, `HoldsBeforeReverse`, and `DockingRunEnds` (liveness, for an operator who waits for the answers): a docking in sight of the dock ends at both nodes |
| `hub` | `MCHub.cfg` | pass, 429 k | `NothingIsForgotten`, `ChangeIsEarned`, `Converges` (liveness: a steady link gets its profile) |
| `setup` | `MCSetup.cfg` | pass, 1.91 M | `ConfirmedIsLoaded`, `PredictionComesTrue`, `MeasuredIsEarned`, with power cuts and hand edits of both files; beside it the sonar bridge and its device: `IntactFramesGetThrough`, `LossIsMeasured`, with damage, cuts, loss, reordering and reboots |
| `recorder` | `MissionRecorder.cfg` | pass, 1.55 M | `CompleteIsDurable`, `VerifiedIsWhole`, `KeepsDirectories` (the recorder implements MissionDirectories), `StopEnds` (liveness), with failed writes, that of the stop's own record included, kills and power cuts at any step |
| `commands` | `MCCommandPlane.cfg` | pass, 732 k | `ObeyedIsConfirmed`, `ConfirmedWasTrue`, `EveryCommandEnds` (liveness), with hops that lose and restart |
| `delivery` | `MCDelivery.cfg` | pass, 240 k | `NoHole`, `AlarmsAgree`, `CatchesUp` (liveness), with a full outbox, a socket that closes and a changing level of detail |
| `standalone` | `MCStandalone.cfg` | pass, 1.20 M | seven parts that share nothing: firmware `AutonomyIsPermitted`, `NoStaleCommand`; pre-flight `GoMeansHeard`; docks `FreeIsFree`; tracker `KeepsIdentity`; obstacle cloud `EveryDetectionIsShown`; tiles `NeverBlank`, `BoundedAtRest`; control `LiveEffort`, `DockingDrives` |
| `abort` | `MissionManager_abort.cfg` | violation | `NoGoalAfterAbort`: an abort while `/fromLL` is outstanding is followed by a goal to Nav2 |
| `again` | `MCDockingStack_again.cfg` | violation | `ConfirmedByItsRun`: with an operator who does not wait, the answer to the completion call of one docking confirms the next, which has not docked |
| `mirror` | `MCStandalone_mirror.cfg` | violation | `EstimateIsWhereSeen`: a detection the lidar does not see is put on the other side of the boat |

In `standalone` and `setup` the variable `part`, chosen at the start and never changed,
says which part moves, so that one run asks the questions of several small models; the number of
its states is the sum of theirs.

Every property of a passing run has a mutant in `PROJECT.json`: an operator in the
module that changes one definition the way a bug would, under which TLC refutes the
property.

What some of them leave out, since the code does not give it:
* `ChangeIsEarned` counts a streak of measurements, which also runs on while no client is
  connected, the selector being fed all the same;
* `LossIsMeasured` is silent after a reboot of the sonar and after a ping from before the
  first one: numbers that start anew or come very late are not told from loss;
* `ConfirmedWasTrue` accepts a report made before the command, so that what it excludes is
  a confirmation by a garbled line or another mode than the one asked for;
* `AlarmsAgree` is for a session whose last word on the alarms was not dropped from a full
  outbox;
* `GoMeansHeard` says that what a GO rests on was heard, not when: readings are kept for ever;
* `EveryDetectionIsShown` is for a mask and detections of one frame;
* `KeepsIdentity` is for objects further apart than gate and drift together, so that the
  greedy assignment has nothing to choose; a frame that is skipped for a missing transform
  applies no drift and counts no miss, in the code as in the model, so that how far an
  object may move during a long outage is an assumption about the environment.

## 4. Bounds and fairness

Where a proof covers all values of the constants (section 5) the bounds below only
decide which instance TLC looks at.

**mission.** `JobIds` = 2 chains outstanding: an old chain beside the current one is
every interference the properties speak of; waypoints ≤ 2 (first, last, the step
between). Fairness: the tick and every outstanding answer happen (the executor spins,
Nav2 and `/fromLL` answer); no service is ever owed a call. `MissionEnds` assumes that
bypass requests stop: a behavior tree that asks for ever keeps a mission alive.

**stack.** One waypoint task and one direct one, routes of ≤ 2, 2 symmetric chains;
safety only. Deadlock checking is off: the system really may stop, with a task left
RUNNING whose mission is over (section 6).

**docking.** Durations of 1 or 2 ticks with ticks up to 2 periods late, clocks capped
at 3 (`Horizon`): each limit can be missed, met and overshot. A dock is seen or lost;
2 completion calls outstanding. With `Prompt` the operator waits, before each operation,
until no completion call is outstanding and boat_bt has read the status. Nothing in the
code makes him: `DockingRunEnds` is for one who does, the safety properties are proved for
both, and `again` shows what may happen otherwise. Fairness: the 10 Hz timer, delivery of the status,
answers of the service; strong fairness of a tick that finds the completion service
ready, since readiness comes and goes.

**hub.** 2 clients, 1 stream with a default below its maximum, refused by the minimal
profile and limited by the reduced one; the unit is the 1 s period of the timer; holds
of 2 and 3 stand for 2 s and 8 s. Fairness: the broadcast loop ticks for ever (`run`
catches what a tick raises), the timer of the node fires. `Converges` speaks of a link
all clients measure alike, with no operator action.

**setup.** Two fields that place the sonar with two numbers, the side, one live field; five
saves that are taken and four that are refused; 2 files written, one command, 2 faults (a power cut, a hand edit or a restart): a fault
before and one after the write or the reload it damages. Sonar: 3 pings, a queue of 1, a
loss window of 3, a sonar found at number 0 or 5, 2 events among damage, cuts, loss,
overtaking, reboots and services. `MaxBuffer` = 12 and `MaxLength` = 3 tokens: a damaged
length can promise more than comes, and the longest frame just fits with the chunk that
completes it (in the code 40 000 bytes in 4 MiB: `SonarAssumption`). Safety only; a sonar
told not to ping stops, and with it the run.

**recorder.** 2 missions, a disk of 7 units with 4 in reserve, a buffer of 1, 2 units
per mission besides those of its end, 2 faults: enough that one mission leaves the next a
disk nearly full, and that a failed write is followed by a kill. Fairness: a callback that has begun goes on,
and the timer fires.

**commands.** 2 commands of 4 names (two modes, a call with an observed effect, one
without), a time-out and a heartbeat limit of one period, 2 events. Fairness: each node
runs its timers and drains its queues. Nothing is fair that a fault may withhold: words,
lines and links can be lost for ever, and `EveryCommandEnds` holds all the same.

**delivery.** 3 points at two levels of detail, an outbox of 2 and a socket of 1, so
that dropping the oldest is the normal case; 2 events. Fairness: tick, writer, server,
browser and its reconnect timer. `CatchesUp` is for behaviours in which the outbox
overflows only finitely often; that a slow link can starve a browser is not denied.

**standalone.** Firmware: time-outs 2, 2, 3, arm window 4, a pass of up to 1, ages up
to 6, `Wrap` 64: distinct limits each of which can be passed. Control: time-outs of
5, 3 and 5 tenths, ages to 16. Tiles: 2 threads, room for 1 entry, a tile, one
beyond the source's depth and a font range; threads are symmetric. Pre-flight:
2 runs, each critical topic heard well or not at all, a full and an empty disk. Docks:
every basin of `DockScenes`, with the parameters the node declares (ten inliers make a wall,
three points a hull): arms of eleven returns and a back wall that reaches beyond them, so
that a berth is found although a corner counts for one wall only and, of a single berth,
any one return is missing; hulls of one and two points, which pass for noise, and of three
and four, which do not. Tracker: 2 objects 6
apart, just beyond the gate (2) and a drift of 1 per frame over the misses a track survives
(1); up to 2 returns of each, with clusters of 2, so that each is seen, too thin or not
there; 5 frames, so that a track is confirmed, missed, dropped and begun again. Cloud: the
frames and calibrations of `MCStandalone`. Safety only; parts that are over stop.

## 5. What is proved

With TLAPS, for every value of the constants under the named assumptions
(`…Assumption`, in the module that declares the constant). In each module the invariant
holds initially, every action keeps it, and it implies the properties; every step of the
proofs is checked.

* **MissionManager_proofs** – `TypeCorrect`, `Invariant`, `SingleFlightHolds`,
  `HandleHolds`, `SuccessHolds`, `EndHolds`, `LateGoalsHold`, `BypassHolds` (of
  `BypassLostOnlyToAnother`). The
  properties alone are not inductive: an answer may arrive for a chain about which "one
  at a time" says nothing. `Clean` therefore says what a mission begun with nothing
  outstanding looks like: at most one chain, of this mission, whose goal is the handle
  once accepted (`OneChain`); while active, the chain is for the waypoint at `idx` or
  for the bypass under way, and the waypoints before `idx` are those reached
  (`Progress`); an ended mission has no chain left (`Ended`). `ImplementsContract`: every
  step maps to a step of WaypointMission or a stutter, missions begun on leftovers
  included (they map to "unpromised").
* **CompetitionStack_proofs** – `StackInvariant`, `NeverRefusedHolds`, `SuccessHolds` and
  `LifecycleHolds`, for any tasks, routes and chains (`JobsAssumption`: a route has room
  for a waypoint, and no chain is called None). Each node keeps the invariant of its own
  proofs, which are used as lemmas through INSTANCE; what the composition adds is `Call`
  (one start on its way at a time, for the route of the task that is pending) and
  `Together` (a mission is active only while its task runs or is about to, and has that
  task's length): a status that ends a task is thus of the mission started for it.
  The competition manager alone, with the mission manager left open, comes first
  (`CMTypeCorrect`, `StatusHolds`, `PendingHolds`, `ImplementsLifecycle`, of `CM!Spec`, for
  any tasks): the suppression of unchanged samples keeps the status current because a
  change of task always changes the message or forces (`SampleCurrent`).
* **DockingStack_proofs** – `boat_bt` alone first (`BT!Spec`): types, `WaitsStanding`,
  `ReverseIsBounded` and `OnlyDockingDrives`, for any durations and lateness. `Timed`
  relates clocks, flags and the last command; a motion command needs ExecuteDocking
  RUNNING in a ticking tree, so the next tick is the controller's and no command stands
  while the clock goes on. Then with `competition_manager`: `ImplementsNodes` shows that
  a step of the composition is a step of each node or none of it, which carries the
  invariant over to `SteersByFreshReading`, `CompleteIsEarned` and `HoldsBeforeReverse` of
  the composition.
* **Standalone_proofs**, *firmware* – types, `DrivenByAuthority`, `ArmedByTransmitter`,
  `AutonomyIsPermitted`, `NoStaleSticks`, `NoStaleCommand`. `SticksAge`, `CommandAge`
  and `AutonomyAge` say how old a stamp may be at each place of `loop()`: its time-out
  plus the time since the clock was read, and a whole pass more until it is looked at
  again. *Control* – `EffortsLive`, `DockingIsNotOverruled`, for all time-outs. `Held`: as
  long as the Pico holds an effort, the bridge's effort is at most its own time-out older
  than the last line; so an effort on the thrusters is younger than the two time-outs
  together. `Masking`: while docking has the mux a running PID has no set-point of Nav2,
  so that what the bridge or the Pico still has of it was published before the docking
  began and runs out. *Tiles* – `NeverBlankHolds`, `BoundedAtRestHolds`, for any keys,
  threads and room, whatever use of the database fails. `Overlooked`: while the total is above
  the limit some thread will still look at it, or evicts by a total at least as large, or
  the one that wrote last met an error; so the last writer is not at rest above the limit
  unless it did, although two threads may evict by the same total. `WellUnderWay` says what a
  request holds at each place: one that found a row, however old, cannot end with a miss.
  *Pre-flight* – `GoMeansHeardHolds`, for any topics and any order of messages: a critical
  check whose topic nobody heard is skipped, a skipped one is not passed over by the
  verdict, and what a latched report says was heard stays heard (`TestIInv`). *Obstacle
  cloud* – `DetectionsAreShown`, for any image width, lidar frame and camera frames, however
  the masks overlap and even if one came out empty: a lidar point is labelled by the mask
  value of its column, which is the number of the last detection that has the column, plus
  one; a detection to which no point was given gets a bearing of its own. `FramesAssumption`
  says only that columns and masks lie in the image. *Tracker* – `IdentityIsKept`, for any
  places, numbers of returns and drifts that leave the objects further apart than the gate
  (`ObjectsAssumption`). `ClusterOfObject`: a cluster is the returns of one object, so its
  mean is where the object is (`SumOfEquals`); `AssignAll`: the greedy assignment takes all
  pairs within the gate when no two of them compete; `ObjectsInv` says that every object
  seen within the misses a track survives has exactly one track, within the gate of it, that
  bears the number the object was last given. The assumption excludes that two tracks
  compete for one object, and a frame without a transform changes nothing. What folds and functions over data compute is
  proved here for the arguments at hand: a function defined by recursion is its equation at
  each argument once some function satisfies it, and an induction over numbers is a set that
  holds 0 and with k holds k + 1 (`SetInduction`).
* **Broadcaster_proofs**, *hub* – the selector first: `Honest` ties the candidate's clock
  to what the link really did. Then `StepOfSelector`: every step of the hub is a step of
  the selector or leaves it alone, so that `RecoveryIsNotPutOff` and `ChangesAreEarned`
  carry over. `RequestsAreKept` is proved with the types of the sessions. *Delivery* –
  `DeliveryTypeCorrect`, `NoHoleHolds`, `AlarmsAgreeHolds`, for any queue, socket, track,
  levels of detail and readings. `Chain`: from the screen over the wire and the outbox to
  the cursor, every increment starts beyond all that is ahead of it, or anew, so that
  dropping the oldest, cutting the socket or sending again leaves the rest in order. That
  the splice puts an increment where it belongs needs the k-th point to be at least k; it
  follows from the absence of holes by an induction over the list, which the prover cannot
  do, and is therefore part of `Smooth`, which every step keeps. `LastTold`: as long as
  the latest word on the alarms was not dropped, the last such message in the outbox, else
  the last on the wire, else the screen, shows the alarms as they are. A tick that sends
  none finds the same alarms (`NoDifference`), because no two alarms of one reading share
  a key (`EvaluateOneOfAKey`, section by section of `evaluate`).
* **MissionRecorder_proofs** – `Invariant`, `TypeCorrect`, `CompleteDurable`,
  `VerifiedWhole`, for any missions, any sizes and any number of faults. A complete
  manifest is not inductive alone: `UnderWay` says of the open directory how far the
  stop's record, the flush, the manifest and the checksums have come, what is still in a
  buffer and what the record lost; `Sound` says of every other directory and of every copy
  what it holds. A step changes one
  directory, none, or (a power cut) all of them, and one lemma each (`OneDirectory`,
  `NoDirectory`, `EveryDirectory`) carries the rest over. `DirectoriesKept`: every step
  maps to a step of MissionDirectories or a stutter; a power cut may break off several
  directories at once.
* **Setup_proofs** – types, `MeasuredHolds`, `ConfirmedHolds`, `PredictionHolds`, for any
  contents of both files and any number of saves, faults and commands. Each of the three
  needs a strengthening of its own and shares only the types. `ClaimsKept`: what the text
  calls measured somebody said was. `PendingIsUnseen`: while a pending command has not
  been seen in use, neither the last report nor the running bridge has its digest, so
  that an old report cannot confirm it. `Untampered`: until an answer is taken away by
  other means, every geometry in use or reported agrees with `mounting.yaml` wherever
  the text is silent; that is why laying the text over a report gives what laying it over
  `mounting.yaml` gives (`PredictedIsSaid`). *Sonar*, in the same module, since the geometry
  is that node's – `IntactFramesAreReturned`, for any stream of pings, cut and damaged as in
  `Sendings`, any longest frame and any queue. `Waiting` says that the rest of the
  unbroken frames are those that lie in the buffer, in order; `Ending` that the chunk fed
  last is still at its end if a frame begins with it, and that nothing else there begins
  one. Hence no turn of the loop discards a token of a frame, and a chunk completes a frame
  exactly if it does with the one before it (`FedTokens`). `LossIsMeasuredHolds`: `Accounted`
  says that the window holds only what was returned and that `last` is the highest number,
  so that a fresh number is the first, the next or fills a gap. Both have a hypothesis
  besides the specification, because the checksum is a sum: when enough pings were lost, the
  remains of two frames can add up to one that was never sent. `Genuine`, that each frame
  returned is one that was sent, is the hypothesis of the first, `InOrder`, that its
  number is a new one within the window, of the second. TLC finds `Genuine` true in every
  step of the run.
* **CommandPlane_proofs** – types, `ConfirmedHolds` (an action property) and `ObeyedHolds`,
  for any commands, time-outs and faults. `ModesAreKnown`: the mode in the Pico, on the
  line and in the report has been in the vessel since the report in hand was made, and
  during every pending command, because what is known since the line is known since the
  report (`since["line"] \subseteq since["kept"]`). `HeldIsHeard`: a command held for one
  period has its line still to be written, on its way or read, and read means confirmed.
  That a command is not answered twice needs the browser's numbering (in `TypeOK`).

The invariants of CompetitionManager, BoatBT and PicoFirmware that no run lists
(`StatusIsCurrent`, `WaitsStanding`, `NoStaleSticks`, …) were found by TLC and are
covered by their theorems for all constants.

Only model-checked: everything about liveness (`MissionEnds`, `DockingRunEnds`, `Converges`,
`StopEnds`, `EveryCommandEnds`, `CatchesUp`), since fairness is out of the prover's reach;
`FreeIsFree`, a statement about the basins of `DockScenes`, whose pipeline `DockDetector`
computes with RECURSIVE operators; and the three violations, which no proof can show.

## 6. Where code and documentation part

Three are runs with an expected violation, each a finding in `PROJECT.json`: `abort`
(mission_manager.py:271 against `TODOS.md:21`), `again` (docking_nodes.cpp:655 against
boat_bt_node.cpp:492-493) and `mirror` (fusion_node.py:183 against geo_fusion_node.py:288). The rest of this section was met while reading and
modelling; the models contain the behaviour where it lies in a modelled part, and the
properties are stated so as not to claim otherwise.

**Mission and docking**
* a bypass that was answered "Bypass target accepted" while another is sent or carried out
  is dropped: the end of the first clears the target (mission_manager.py:408), and the tick
  then takes back the request (:281-283); one accepted while another waits replaces it;
* an ended mission may still be told of: late callbacks move `_idx` and publish RUNNING or
  FAILED after ABORTED (mission_manager.py:420-428); the contract `KeepsContract` states is
  of the mission's phase, which they do not move;
* a mission that ends before the answer to its start is read leaves its task RUNNING for
  ever (competition_manager.py:472-475): why `stack` does not check for deadlock;
* a cancellation this node asked for can fail a mission, and the "cancelling for a
  bypass" flag outlives the goal that had ended by itself (mission_manager.py:431);
* a stopped docking drives on at the next tick (boat_bt_node.cpp:533-546), and after the
  end of the first mission no later one has collision avoidance, since `tree_finished_`
  stays (README.md:262);
* a new run may take the confirmation of an earlier completion for its own (run `again`);
  a run that ends and begins again before boat_bt reads the status, of which it keeps one
  sample, is no new run to it, so that it keeps the old confirmation and phase
  (boat_bt_node.cpp:495-505); and a late call is granted by the run that is on by then
  (competition_manager.py:332-397);
* boat_bt routes by the task alone (bt_registration.cpp:73-75) and docks as soon as docking
  is selected, RUNNING or not.

**Firmware**
* the receiver's failsafe frame clears the latch of an e-stop and the next good frame
  re-arms without the operator (pico-node_v4.ino:491, against the comment at :739);
* the latching stop can trip on a frame that has just arrived, by the unsigned difference
  (:309-312), and under autonomy nothing watches the transmitter (:315);
* the sync test of the frame reader at :430 cannot fail.

**Control**
* the PID keeps its set-point and publishes for ever, so that when all sources fall silent
  neither time-out runs out and the boat drives on (pid_controller.py:61, comment at
  pico_bridge.py:109); `VelocityChain` contains it, and `LiveEffort` speaks of the PID's
  life only; stale IMU and velocity are only logged; the integral winds up outside
  autonomy.

**Link, commands, delivery, alarms**
* degrading is not fast when measurements wander (link_profile.py:45-47, :127); a quality
  of zero can be fed for no client at all (gui_backend_node.py:121-132); a pong later than
  the next ping is timed against that one (server.py:464);
* stop_mission is confirmed at once and start_mission never, the mission state being the
  constant IDLE (ros_source.py:398); cut_propulsion sends MANUAL and waits for a latched
  ESTOP (:601); a mode "AUTO" is accepted and never confirmed; the time-out message says
  the vessel has not changed state while the command may be late (commands.py:214); a
  command with nothing to confirm is archived twice when rejected (:134); a second command
  under an id replaces the pending one (:136); a command whose result is lost stays
  pending in the browser;
* a bridge that restarts loses the words on their way, while the Pico keeps MODE AUTO
  (pico_bridge.py:98);
* increments by more than one point ask for everything again for ever; a track trimmed to
  its 4000 points, with the cursor its length, freezes or skips; the digest of an
  on-change stream is remembered though the message is dropped; alarms are sent as
  transitions only and a new session is told of none (hub.py:240, App.jsx:178); the comment
  that a starved stream is armed again is not so (hub.py:898); some alarms cannot fire
  with RosSource; link_lost needs both the Pico and GNSS silent.

**Setup and mounting**
* `geometry_fingerprint` leaves out `side`; unknown fields are dropped by the first save
  though setup_store.py:26 says they are kept; the file is not synced before the rename
  (setup_store.py:138); a broken overlay at startup falls back to the base file; the
  recording half of the gate cannot bite (ros_source.py:398); "already running" is settled
  on a report that may be stale; `_mounting_state` sees only the last /diagnostics message;
  `append_change` says it never raises and does; `_coerce` takes "nan"; the page throws away
  edits typed while a save is pending.

**Recorder**
* a shutdown after a write error leaves a half-written mission, which
  mission_recorder_node.py:331 says it never does; `_on_stop` and a second `start` answer
  success whatever happened; the manifest that could not be written at start is hidden by
  RECORDING (mission.py:230); checksums are written in place and not synced; a record is
  counted whether or not it was written (:326); a `mission_stopped` that cannot be written
  (:248, :353-368) is counted and sets ERROR, and the stop goes on to a manifest that says
  complete and counts more than the files hold: `CompleteIsDurable` says how much more; an
  fsync that fails is passed over (:255):
  why the properties leave out the missions a flush failed for; a fix in the cache is
  written with a fresh time for ever (svlog.py:207).

**Sonar**
* `parser.reset()` is called by nobody; a device is marked configured before it is, and
  never tried again; parameters are not sent again after a reconnect
  (omniscan_bridge_node.py:200), since reconnects are not counted (transport.py:175); making
  room in a full queue can throw away the newest chunk (:130); a restart of the sonar
  within the loss window counts as duplicates, and a late ping from before the first closes
  a gap (parser.py:230): both are left out of `LossIsMeasured` by name.

**Pre-flight**
* the node can never say GO on a full run (it fills neither num_sats nor
  gps_time_offset_ms), and it subscribes to `/pico/status` with another type than
  pico_bridge publishes; a run of a subset, or of a name no check has, latches GO; a
  battery charge that is not a number passes; diagnostics are kept for ever; a critical
  check that is SKIPPED counts as NO-GO against the docstring of `run_checks`.

**Perception, fusion, tiles**
* two berths that share a wall and an arm count as duplicates (comment at
  dock_detector_node.py:70); only the mean of the corner gaps is tested; a hull within 0.4 m
  of an arm can become the arm;
* the caches of fusion_node do not age, an empty cloud is not published, mask and detections
  may be of different frames; lidar points are published without the rotation dock_detector
  applies; a track's class is that of its last frame, "unknown" included
  (geo_fusion_node.py:432); assignment is greedy; hits need not be consecutive;
* a copy older than an hour is written at every read (the comment says once an hour); the
  total is read before the write lock, so that two writers evict twice (tile_cache.py:352);
  a delayed answer can replace a newer one; the 304 path can give an older row the age 0;
* a total that cannot be read counts as nothing (tile_cache.py:380-381) and a failed eviction
  is passed over (:370-371): the cache then stays above its limit, with nobody under way,
  until a later write's look succeeds. An eviction or a write that fails between its
  statements leaves its transaction open on the connection of its thread; it is modelled as
  not having happened.

## 7. What is not modelled

* `asket_common` link budget, geo, heading and survey, the Kalman filter, gains and mixing
  of `control`, layouts and geometry of `omniscan_bridge`: formulas over floats without
  state. A property over integers would be about the model's rounding.
* The obstacle and bypass branches of `boat_bt` (MissionManager takes a bypass at any time);
  the cooldown of bt_registration.cpp:154 is a hazard without a property.
* `control/actuator_driver`, the other motor path, of which exactly one is launched; the
  motor test gate, which nothing calls; video framing, whose queue is one deep; log
  conversion, an offline tool over byte formats.
* Drivers, calibration, launch files, robot description, message definitions: no behaviour.
* Simulators, Nav2, robot_localization, the middleware and the upstream servers: the
  environment, left free or modelled from how the code uses it.
* Inside modelled parts: coordinates, message texts, logging, SBUS byte decoding, the stop
  and start of the sonar's transport at shutdown, the notices
  of starvation. `PROJECT.json` says under each component what it leaves out.

## 8. Plan

In place, each with its run before its proofs: mission and competition managers and their
composition; docking; firmware; link; commands; delivery; setup; recorder; sonar;
pre-flight; perception and tracker; tiles; the velocity chain.

Next, most important first:

1. the bypass branches of `boat_bt` with their cooldown, composed with MissionManager;
2. CommandPlane and VelocityChain composed with PicoFirmware: how long after the operator's
   word, or the last velocity, the propellers turn;
3. the camera's queue and the notices of silence in Delivery;
4. the dock detector without RECURSIVE operators, and which of its steps can be proved for
   any scan.

## 9. Running it

In this directory: `tlc -workers 2 -config X.cfg M` for a run of the table,
`tlapm M_proofs.tla` for proofs. The longest runs, `recorder` and `delivery`, take two
minutes, `standalone`, `docking`, `commands` and `hub` about one; the others less.
