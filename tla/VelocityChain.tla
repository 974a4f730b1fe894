---------------------------- MODULE VelocityChain ----------------------------
(* control/: the way of a velocity from its source to the thrusters.  The    *)
(* sources go through twist_mux, nav_to_pid and pid_controller, whose timer   *)
(* publishes an effort, and pico_bridge, whose timer writes it to the Pico;   *)
(* each hop has a memory and a timeout of its own, or none.  A velocity is    *)
(* known by the source it came from: what the loop computes for a setpoint   *)
(* bears its name.  A tick is 100 ms, in which both 20 Hz timers run.        *)
EXTENDS Integers

CONSTANTS
    Docking, Navigation,    \* the sources twist_mux.yaml lists
    Neutral,                \* no thrust, and the setpoint of a PID just started
    MuxTimeout,             \* topics.*.timeout
    CmdTimeout,             \* cmd_timeout of pico_bridge
    PicoTimeout,          \* SERIAL_FAILSAFE_TIMEOUT_MS of the firmware
    Horizon                 \* bound: ages are not counted beyond it

ASSUME ChainAssumption ==
    /\ MuxTimeout \in Nat /\ CmdTimeout \in Nat /\ PicoTimeout \in Nat
    /\ Horizon \in Nat /\ Horizon > MuxTimeout
    /\ Docking # Navigation /\ Docking # Neutral /\ Navigation # Neutral

Sources == {Docking, Navigation}
Priority(s) == IF s = Docking THEN 100 ELSE 10

VARIABLES
    since,          \* ticks since each source was last heard: twist_mux
    setpoint,       \* the setpoint of the two PID loops
    pid,            \* whether pid_controller runs
    quiet,          \* ticks since it last published an effort: _last_cmd of the bridge
    effort,         \* _x, _z of the bridge
    applied,        \* what the Pico drives the thrusters with
    unheard,        \* ticks since its last motor line: last_serial_command_ms
    docked          \* ticks for which docking has been active without a break

chainVars == <<since, setpoint, pid, quiet, effort, applied, unheard, docked>>

ChainInit ==
    /\ since = [s \in Sources |-> Horizon]
    /\ setpoint = Neutral /\ pid = TRUE
    /\ quiet = Horizon /\ effort = Neutral
    /\ applied = Neutral /\ unheard = Horizon
    /\ docked = 0

Later(n) == IF n < Horizon THEN n + 1 ELSE n

---------------------------------------------------------------------------
(* A source counts as active for MuxTimeout after its last message.         *)
Active(s) == since[s] <= MuxTimeout

\* Mutant: a source of a lower priority is passed on all the same.
NeverMasked(s) == FALSE

(* One of a lower priority than an active one is not passed on.             *)
Masked(s) == \E o \in Sources : Priority(o) > Priority(s) /\ Active(o)

(* A message that twist_mux passes is clamped by nav_to_pid and kept by the *)
(* PID as its setpoint until the next one.                                  *)
Velocity(s) ==
    /\ since' = [since EXCEPT ![s] = 0]
    /\ setpoint' = IF Masked(s) \/ ~pid THEN setpoint ELSE s
    /\ UNCHANGED <<pid, quiet, effort, applied, unheard, docked>>

(* _control publishes whether or not a setpoint or a measurement is recent.  *)
EffortNow == IF pid THEN setpoint ELSE effort
QuietNow  == IF pid THEN 0 ELSE Later(quiet)

\* Mutant: the last effort is written for ever.
WritesForEver(age) == TRUE

(* _tick of the bridge: the last effort while it is fresh, PING after that. *)
Writes(age) == age <= CmdTimeout

(* The Pico holds the last motor line until its own timeout; PING is none.  *)
HeldByPico(age, line) == IF age > PicoTimeout THEN Neutral ELSE line

(* The two timers in either order: the bridge may still see what the PID    *)
(* published the tick before.                                               *)
Control(bridgeFirst) ==
    LET age == IF bridgeFirst THEN Later(quiet) ELSE QuietNow
        line == IF bridgeFirst THEN effort ELSE EffortNow
        held == IF Writes(age) THEN 0 ELSE Later(unheard)
    IN  /\ since' = [s \in Sources |-> Later(since[s])]
        /\ quiet' = QuietNow
        /\ effort' = EffortNow
        /\ unheard' = held
        /\ applied' = HeldByPico(held, IF Writes(age) THEN line ELSE applied)
        /\ docked' = IF since[Docking] < MuxTimeout THEN Later(docked) ELSE 0
        /\ UNCHANGED <<setpoint, pid>>

PidStops  == pid /\ pid' = FALSE /\ UNCHANGED <<since, setpoint, quiet, effort, applied, unheard, docked>>
PidStarts == /\ ~pid /\ pid' = TRUE /\ setpoint' = Neutral
             /\ UNCHANGED <<since, quiet, effort, applied, unheard, docked>>

ChainNext ==
    \/ \E s \in Sources : Velocity(s)
    \/ \E bridgeFirst \in BOOLEAN : Control(bridgeFirst)
    \/ PidStops
    \/ PidStarts

ChainSpec == ChainInit /\ [][ChainNext]_chainVars

---------------------------------------------------------------------------
(* The thrusters turn on an effort the PID published within the two timeouts *)
(* that stand between it and them, the bridge's and then the firmware's: a   *)
(* PID that dies stops the boat (pico_bridge.py, module docstring, item 2).  *)
LiveEffort == applied # Neutral => quiet <= CmdTimeout + PicoTimeout

(* Once docking has been heard without a break for as long as a line of Nav2 *)
(* can outlive the PID that made it, Nav2 does not drive the boat, whatever  *)
(* it sends (twist_mux.yaml, priority).                                      *)
DockingDrives == docked > CmdTimeout + PicoTimeout => applied # Navigation

=============================================================================
