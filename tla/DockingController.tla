-------------------------- MODULE DockingController --------------------------
(***************************************************************************)
(* The docking controller of boat_bt (docking_nodes.cpp): what one control *)
(* cycle does with the newest dock target and the clock.                   *)
(*                                                                         *)
(* Time is counted in tree ticks of 100 ms; a cycle runs 1 to MaxLate      *)
(* periods after the one before it, since it shares its thread with the    *)
(* callbacks.  The node keeps a start time each for the loss of the target,*)
(* the final entry, the hold and the reverse; a cycle reads only the one   *)
(* its phase uses, set when that began, so one clock, elapsed, stands for  *)
(* the four.  Clocks stop at Horizon, beyond every limit.                  *)
(*                                                                         *)
(* Of the target the model keeps what the thresholds tell apart: whether it*)
(* was usable, its age, whether it lies ahead (bearing within the alignment*)
(* tolerance) and whether the boat is at the opening (near and centred).   *)
(***************************************************************************)
EXTENDS Naturals

CONSTANTS
    SteerHold,       \* docking_steering_hold_sec
    TargetTimeout,   \* docking_target_timeout_sec
    Reacquire,       \* docking_reacquire_timeout_sec
    Entry,           \* docking_final_entry_duration_sec
    Hold,            \* docking_hold_duration_sec
    Reverse,         \* docking_reverse_duration_sec
    MaxLate,         \* a tick comes at most this many periods after the last
    Horizon          \* where clocks stop (a bound)

ASSUME DurationsAssumption ==
    /\ SteerHold \in Nat /\ TargetTimeout \in Nat /\ Reacquire \in Nat
    /\ Entry \in Nat \ {0} /\ Hold \in Nat \ {0} /\ Reverse \in Nat \ {0}
    /\ MaxLate \in Nat \ {0} /\ Horizon \in Nat
    /\ SteerHold <= TargetTimeout
    /\ TargetTimeout < Horizon /\ Reacquire <= Horizon
    /\ Entry <= Horizon /\ Hold <= Horizon
    /\ Reverse + MaxLate <= Horizon

VARIABLES
    phase,       \* docking_state_
    target,      \* the last DockTarget, as the thresholds see it
    elapsed,     \* since the start time the phase compares with
    loss,        \* docking_target_loss_active_
    reversing,   \* docking_reverse_started_
    complete,    \* docking_complete_
    command,     \* the last command on /boat_bt/cmd_vel
    still,       \* history: periods since the boat was last told to move
    backed       \* history: periods of reverse in this docking

motion == <<command, still, backed>>
controllerVars == <<phase, target, elapsed, loss, reversing, complete, motion>>

DockingStates == {"WAITING", "ALIGNING", "APPROACHING", "FINAL_ENTRY", "DOCKED"}
Commands == {"stop", "align", "approach", "enter", "reverse"}
Sights == [usable: BOOLEAN, ahead: BOOLEAN, entering: BOOLEAN]

Later(clock, d) == IF clock + d < Horizon THEN clock + d ELSE Horizon

-----------------------------------------------------------------------------
\* publishDockingCommand, d periods after the command before it.
Publish(new, d) ==
    /\ command' = new
    /\ still' = IF command = "stop" THEN Later(still, d) ELSE 0
    /\ backed' = IF command = "reverse" THEN Later(backed, d)
                 ELSE IF ~reversing /\ new = "reverse" THEN 0 ELSE backed

\* dock_target_callback: an unusable reading drops the target; the geometry is
\* kept but no longer read.
OnDockTarget(sight) ==
    /\ target' = IF sight.usable
                 THEN [usable |-> TRUE, age |-> 0, ahead |-> sight.ahead,
                       entering |-> sight.entering]
                 ELSE [target EXCEPT !.usable = FALSE, !.age = 0]
    /\ UNCHANGED <<phase, elapsed, loss, reversing, complete, motion>>

Age(d) == Later(target.age, d)

\* dockTargetFresh
TargetFresh(d) == target.usable /\ Age(d) <= TargetTimeout

\* Mutant: the reading is steered by for as long as it counts as fresh.
SteeringFreshAsTarget(d) == Age(d) <= TargetTimeout

SteeringFresh(d) == Age(d) <= SteerHold

Grow(d) ==
    /\ target' = [target EXCEPT !.age = Age(d)]
    /\ elapsed' = Later(elapsed, d)

Restart(d) ==
    /\ target' = [target EXCEPT !.age = Age(d)]
    /\ elapsed' = 0

-----------------------------------------------------------------------------
\* The cycle without a fresh target, outside the dock.
Approaching == phase \in {"ALIGNING", "APPROACHING"}

LostCommand == "stop"

LostTarget(d) ==
    /\ phase # "DOCKED" /\ ~TargetFresh(d)
    /\ Publish(LostCommand, d)
    /\ UNCHANGED <<reversing, complete>>
    /\ IF Approaching /\ ~loss
       THEN loss' = TRUE /\ UNCHANGED phase /\ Restart(d)
       ELSE IF Approaching /\ Later(elapsed, d) < Reacquire
       THEN UNCHANGED <<phase, loss>> /\ Grow(d)
       ELSE loss' = FALSE /\ phase' = "WAITING" /\ Grow(d)

\* The phase the cycle settles in: one cycle may pass through several.
Settled ==
    IF phase = "FINAL_ENTRY" THEN phase
    ELSE IF target.ahead \/ phase = "APPROACHING"
    THEN IF target.entering THEN "FINAL_ENTRY" ELSE "APPROACHING"
    ELSE "ALIGNING"

Drive(p) ==
    CASE p = "ALIGNING" -> "align"
      [] p = "APPROACHING" -> "approach"
      [] p = "FINAL_ENTRY" -> "enter"

EntryOver(d) == phase = "FINAL_ENTRY" /\ Later(elapsed, d) >= Entry

EntryBegins == phase' = "FINAL_ENTRY" /\ phase # "FINAL_ENTRY"

Steer(d) ==
    /\ phase # "DOCKED" /\ TargetFresh(d) /\ ~EntryOver(d)
    /\ phase' = Settled
    /\ loss' = FALSE
    /\ IF EntryBegins THEN Restart(d) ELSE Grow(d)
    /\ Publish(IF SteeringFresh(d) THEN Drive(phase') ELSE "stop", d)
    /\ UNCHANGED <<reversing, complete>>

Dock(d) ==
    /\ TargetFresh(d) /\ EntryOver(d)
    /\ phase' = "DOCKED"
    /\ loss' = FALSE
    /\ reversing' = FALSE
    /\ Restart(d)
    /\ Publish("stop", d)
    /\ UNCHANGED complete

\* Mutant: the hold is not timed from its own start.
HoldOverAtOnce(d) == ~reversing

HoldOver(d) == ~reversing /\ Later(elapsed, d) >= Hold

StandInDock(d) ==
    /\ phase = "DOCKED" /\ ~reversing /\ ~HoldOver(d)
    /\ Grow(d)
    /\ Publish("stop", d)
    /\ UNCHANGED <<phase, loss, reversing, complete>>

BackOut(d) ==
    /\ phase = "DOCKED"
    /\ \/ HoldOver(d) /\ reversing' = TRUE /\ Restart(d)
       \/ reversing /\ Later(elapsed, d) < Reverse /\ UNCHANGED reversing /\ Grow(d)
    /\ Publish("reverse", d)
    /\ UNCHANGED <<phase, loss, complete>>

Finish(d) ==
    /\ phase = "DOCKED" /\ reversing /\ Later(elapsed, d) >= Reverse
    /\ complete' = TRUE
    /\ Grow(d)
    /\ Publish("stop", d)
    /\ UNCHANGED <<phase, loss, reversing>>

\* executeDockingController, without the completion call it makes when done.
Cycle(d) ==
    \/ /\ complete
       /\ Grow(d)
       /\ Publish("stop", d)
       /\ UNCHANGED <<phase, loss, reversing, complete>>
    \/ /\ ~complete
       /\ \/ LostTarget(d) \/ Steer(d) \/ Dock(d)
          \/ StandInDock(d) \/ BackOut(d) \/ Finish(d)

\* Mutant: a new run keeps the completion of the last.
ResetKeepsComplete ==
    /\ phase' = "WAITING"
    /\ elapsed' = 0
    /\ loss' = FALSE
    /\ reversing' = FALSE
    /\ Publish("stop", 0)
    /\ UNCHANGED <<target, complete>>

\* resetDockingController
Reset ==
    /\ phase' = "WAITING"
    /\ elapsed' = 0
    /\ loss' = FALSE
    /\ reversing' = FALSE
    /\ complete' = FALSE
    /\ Publish("stop", 0)
    /\ UNCHANGED target

\* A cycle of the tree in which the controller does not run.
Idle(d) ==
    /\ Grow(d)
    /\ Publish(command, d)
    /\ UNCHANGED <<phase, loss, reversing, complete>>

InitController ==
    /\ phase = "WAITING"
    /\ target = [usable |-> FALSE, age |-> 0, ahead |-> FALSE, entering |-> FALSE]
    /\ elapsed = 0
    /\ loss = FALSE /\ reversing = FALSE /\ complete = FALSE
    /\ command = "stop" /\ still = 0 /\ backed = 0

-----------------------------------------------------------------------------
ControllerTypeOK ==
    /\ phase \in DockingStates
    /\ target \in [usable: BOOLEAN, age: 0..Horizon, ahead: BOOLEAN, entering: BOOLEAN]
    /\ elapsed \in 0..Horizon
    /\ loss \in BOOLEAN /\ reversing \in BOOLEAN /\ complete \in BOOLEAN
    /\ reversing \/ complete => phase = "DOCKED"
    /\ command \in Commands
    /\ still \in 0..Horizon /\ backed \in 0..Horizon

\* The boat is driven forward only by a reading young enough to steer by: no
\* path through the phases leaves an old turn standing.
SteersByFreshReading ==
    command \in {"align", "approach", "enter"} => target.age <= SteerHold

\* While a lost target is awaited the boat stands, and only an approach waits.
WaitsStanding == loss => command = "stop" /\ Approaching

\* "Complete" is said of a boat that docked and had the full time to back out in
\* this run, whatever resets came between.
CompleteIsEarned ==
    complete => reversing /\ elapsed >= Reverse

\* The boat is not backed out for longer than the time set and one late tick.
ReverseIsBounded == backed < Reverse + MaxLate

\* The boat backs out only after it stood still for the hold, from its last
\* motion on.
HoldsBeforeReverse ==
    [][~reversing /\ reversing' => still' >= Hold]_controllerVars
=============================================================================
