---------------------------- MODULE CommandPlane ----------------------------
(***************************************************************************)
(* An operator's command and back: the browser (lib/connection.js), the    *)
(* hub and its CommandManager (gui_backend/core), the topic and service    *)
(* clients of ros_source.py, control/pico_bridge.py, the Pico, and the     *)
(* report the command is confirmed against.                                *)
(*                                                                         *)
(* Time goes in periods of the STATE line, four a second.  Everything that *)
(* runs faster (the bridge at 20 Hz, the hub at 20 Hz, the callbacks) does *)
(* what it has to before the period ends, in any order.                    *)
(***************************************************************************)
EXTENDS ModeArbitration, Sequences, FiniteSets

CONSTANTS
    Ids,            \* the commands of a session, in the order the browser numbers them
    Names,          \* what they ask for
    Positions,      \* of the transmitter's sticks: [ch8, ch7, failsafe]
    Timeout,        \* DEFAULT_TIMEOUT_S, in periods
    LinkLimit,      \* HEARTBEAT_TIMEOUT_MS, in periods
    MaxWords,       \* bound: mode requests on their way to the bridge
    MaxEvents       \* bound: sticks moved, frames lost, restarts, cuts of line or link

ASSUME CommandAssumption ==
    /\ Timeout \in Nat \ {0} /\ LinkLimit \in Nat /\ MaxWords \in Nat
    /\ MaxEvents \in Nat /\ Ids \subseteq Nat
    /\ Positions \subseteq [ch8 : Int, ch7 : Int, failsafe : BOOLEAN]
    /\ Names \subseteq {"AUTONOMOUS", "MANUAL", "cut_propulsion", "set_ping_parameters",
                        "start_mission", "stop_mission", "run_system_test", "set_profile"}

VARIABLES
    radio, wants, quiet, pico,      \* the Pico: sticks, request, heartbeat, mode
    bridge, words, line,            \* pico_bridge: up, its topic, its serial line
    emitted,                        \* the Pico has written this period's STATE
    report,                         \* ros_source: the last STATE line kept
    sonar, order, sonar_report,     \* the ping parameters and the call under way
    command,                        \* CommandManager
    online, up, wire, shown,        \* the link, what is on it, the browser's view
    since, now_in,                  \* history: modes since a report was made
    events                          \* bound on what goes wrong

boat == <<radio, wants, quiet, pico>>
path == <<bridge, words, line, emitted, report>>
ping == <<sonar, order, sonar_report>>
web == <<online, up, wire, shown>>
vars == <<boat, path, ping, command, web, since, now_in, events>>

ModeNames == {"AUTONOMOUS", "MANUAL"}
NoReport == [mode |-> "none", armed |-> FALSE, latched |-> FALSE]
Closed(status) == [name |-> "none", status |-> status, age |-> 0, held |-> 0, modes |-> {}]
RadioAt(p) == Radio(p.ch8, p.ch7, p.failsafe)

Power(a) == [mode |-> a.mode, armed |-> a.armed, latched |-> a.latched]

Init ==
    /\ radio \in {RadioAt(p) : p \in Positions}
    /\ wants = FALSE /\ quiet = LinkLimit + 1
    /\ pico = Power(Arbitrate(radio, FALSE, FALSE, FALSE))
    /\ bridge = TRUE /\ words = <<>> /\ line = <<>> /\ emitted = FALSE
    /\ report = NoReport
    /\ sonar = "default" /\ order = "none" /\ sonar_report = "default"
    /\ command = [id \in Ids |-> Closed("unused")]
    /\ online = TRUE /\ up = [id \in Ids |-> "none"]
    /\ wire = [id \in Ids |-> <<>>] /\ shown = [id \in Ids |-> "none"]
    /\ since = [k \in {"kept", "line"} |-> {pico.mode}] /\ now_in = pico.mode
    /\ events = 0

\* Something the vessel's own software does not do.
Event == events < MaxEvents /\ events' = events + 1

-----------------------------------------------------------------------------
\* The Pico arbitrates again on whatever has changed.
Decide(r, w, q) ==
    /\ pico' = Power(Arbitrate(r, w, q <= LinkLimit, pico.latched))
    /\ now_in' = pico'.mode
    /\ since' = [k \in DOMAIN since |-> since[k] \cup {pico'.mode}]
    /\ command' = [id \in Ids |->
         IF command[id].status # "pending" THEN command[id] ELSE
         [command[id] EXCEPT !.modes = @ \cup {pico'.mode},
                             !.held = IF pico'.mode = command[id].name THEN @ ELSE 0]]

\* The pilot moves a switch of the transmitter.
MoveStick ==
    /\ Event
    /\ \E p \in Positions :
           /\ RadioAt(p) # radio
           /\ radio' = RadioAt(p)
           /\ Decide(RadioAt(p), wants, quiet)
           /\ UNCHANGED <<wants, quiet, path, ping, web>>

\* The frames stop: an armed boat under the sticks is latched off.
SbusLost ==
    /\ Event
    /\ pico.armed /\ pico.mode # "AUTONOMOUS"
    /\ pico' = [pico EXCEPT !.armed = FALSE, !.latched = TRUE]
    /\ UNCHANGED <<radio, wants, quiet, path, ping, command, web, since, now_in>>

\* The Pico writes its STATE line; noise on the serial link may cut it.
EmitState ==
    /\ ~emitted /\ emitted' = TRUE
    /\ line' = IF bridge THEN <<StateLine(pico)>> ELSE <<>>
    /\ since' = [since EXCEPT !.line = {pico.mode}]
    /\ UNCHANGED <<boat, bridge, words, report, ping, command, web, now_in, events>>

\* ros_source keeps the last status message, whatever could be read of it.
Keep(l) == report' = IF l.mode = 0 THEN Garbled ELSE Parse(l)

\* pico_bridge._drain republishes the line verbatim, and the backend keeps it,
\* unless noise cut it short or the best-effort topic lost it.
Drain ==
    /\ bridge /\ line # <<>> /\ line' = <<>>
    /\ \/ /\ Keep(Head(line))
          /\ since' = [since EXCEPT !.kept = since.line]
          /\ UNCHANGED <<command, events>>
       \/ /\ Event
          /\ Keep([Head(line) EXCEPT !.mode = 0]) \/ UNCHANGED report
          /\ command' = [id \in Ids |-> [command[id] EXCEPT !.held = 0]]
          /\ UNCHANGED since
    /\ UNCHANGED <<boat, bridge, words, emitted, ping, web, now_in>>

\* pico_bridge._on_mode, and the Pico's own reading of the line.
OnMode ==
    /\ bridge /\ words # <<>>
    /\ words' = Tail(words)
    /\ wants' = (Head(words) = "AUTO")
    /\ quiet' = 0
    /\ Decide(radio, Head(words) = "AUTO", 0)
    /\ UNCHANGED <<radio, bridge, line, emitted, report, ping, web, events>>

\* The bridge stops, and comes back: what was published meanwhile is lost, the
\* request the Pico holds is not.
Restart ==
    /\ Event
    /\ bridge' = ~bridge
    /\ words' = <<>> /\ line' = <<>>
    /\ command' = [id \in Ids |-> [command[id] EXCEPT !.held = 0]]
    /\ UNCHANGED <<boat, emitted, report, ping, web, since, now_in>>

-----------------------------------------------------------------------------
\* The sonar answers the service call in its own time, or refuses the values.
ServePing ==
    /\ order # "none" /\ order' = "none"
    /\ \/ sonar' = order
       \/ UNCHANGED sonar
    /\ UNCHANGED <<boat, path, sonar_report, command, web, since, now_in, events>>

ReportPing ==
    /\ sonar_report # sonar /\ sonar_report' = sonar
    /\ UNCHANGED <<boat, path, sonar, order, command, web, since, now_in, events>>

-----------------------------------------------------------------------------
\* connection.js command(): pending at once, failed at once without a link.
Click(id, name) ==
    /\ shown[id] = "none" /\ \A older \in Ids : older < id => shown[older] # "none"
    /\ shown' = [shown EXCEPT ![id] = IF online THEN "pending" ELSE "failed"]
    /\ up' = [up EXCEPT ![id] = IF online THEN name ELSE "none"]
    /\ UNCHANGED <<boat, path, ping, command, online, wire, since, now_in, events>>

\* What source.state() tells the predicates: the last STATE line kept, the
\* sonar's own settings, and a mission that is always IDLE.
Observed == [pico |-> report, sonar |-> sonar_report, recording |-> FALSE]

\* A slip: the mode is looked for under the name that was sent to the bridge.
ConfirmsByWord(name) ==
    CASE name \in ModeNames -> Observed.pico.mode = IF name = "AUTONOMOUS" THEN "AUTO" ELSE name
      [] name = "cut_propulsion" -> Observed.pico.mode = "ESTOP" /\ Observed.pico.latched
      [] name = "set_ping_parameters" -> Observed.sonar = name
      [] OTHER -> name = "stop_mission"

\* The predicates of commands.py.
Confirms(name) ==
    CASE name \in ModeNames -> Observed.pico.mode = name
      [] name = "cut_propulsion" -> Observed.pico.mode = "ESTOP" /\ Observed.pico.latched
      [] name = "set_ping_parameters" -> Observed.sonar = name
      [] name \in {"start_mission", "stop_mission"} ->
           Observed.recording = (name = "start_mission")
      [] OTHER -> FALSE

\* run_system_test and set_profile have nothing to observe.
Observable(name) == name \notin {"run_system_test", "set_profile"}

Word(name) == IF name = "AUTONOMOUS" THEN "AUTO" ELSE "MANUAL"

\* ros_source.send_command: a topic is always there, a service may not be.
Send(name, ready) ==
    IF name \in ModeNames \cup {"cut_propulsion"}
    THEN /\ words' = IF bridge THEN Append(words, Word(name)) ELSE words
         /\ UNCHANGED order
    ELSE /\ order' = IF name = "set_ping_parameters" /\ ready THEN name ELSE order
         /\ UNCHANGED words

Accepted(name, ready) ==
    name \in ModeNames \cup {"cut_propulsion", "set_profile"} \/ ready

Verdict(name, ready) ==
    IF ~Accepted(name, ready) THEN "failed"
    ELSE IF Observable(name) THEN "pending" ELSE "confirmed"

\* hub.issue_command, and the reply _handle queues for the browser.
IssueCommand(id, ready) ==
    /\ up[id] # "none"
    /\ up[id] \in ModeNames \cup {"cut_propulsion"} => Len(words) < MaxWords
    /\ up' = [up EXCEPT ![id] = "none"]
    /\ Send(up[id], ready)
    /\ command' = [command EXCEPT ![id] =
         IF Verdict(up[id], ready) # "pending" THEN Closed(Verdict(up[id], ready))
         ELSE [name |-> up[id], status |-> "pending", age |-> 0, held |-> 0,
               modes |-> since.kept \cup {now_in}]]
    /\ wire' = [wire EXCEPT ![id] = Append(@, Verdict(up[id], ready))]
    /\ UNCHANGED <<boat, bridge, line, emitted, report, sonar, sonar_report, online, shown,
                   since, now_in, events>>

\* Mutant: nothing is given up until the vessel has been heard of.
ResolvedWhenHeard(c) ==
    IF c.status # "pending" \/ report = NoReport THEN c
    ELSE IF Confirms(c.name) THEN Closed("confirmed")
    ELSE IF c.age > Timeout THEN Closed("failed") ELSE c

\* commands.update for one command: confirmed, or given up, or left waiting.
Resolved(c) ==
    IF c.status # "pending" THEN c
    ELSE IF Confirms(c.name) THEN Closed("confirmed")
    ELSE IF c.age > Timeout THEN Closed("failed") ELSE c

Due(id) == Resolved(command[id]) # command[id]

Told(c) == IF c.status = "late" THEN "failed" ELSE c.status

\* hub._update_commands: every command that changed is broadcast.
UpdateCommands ==
    /\ \E id \in Ids : Due(id)
    /\ command' = [id \in Ids |-> Resolved(command[id])]
    /\ wire' = [id \in Ids |->
         IF Due(id) /\ online THEN Append(wire[id], Told(Resolved(command[id]))) ELSE wire[id]]
    /\ UNCHANGED <<boat, path, ping, online, up, shown, since, now_in, events>>

Receive(id) ==
    /\ wire[id] # <<>>
    /\ shown' = [shown EXCEPT ![id] = Head(wire[id])]
    /\ wire' = [wire EXCEPT ![id] = Tail(@)]
    /\ UNCHANGED <<boat, path, ping, command, online, up, since, now_in, events>>

\* The WebSocket drops with what is on it, and a new one is opened.
Relink ==
    /\ Event
    /\ online' = ~online
    /\ up' = [id \in Ids |-> "none"] /\ wire' = [id \in Ids |-> <<>>]
    /\ UNCHANGED <<boat, path, ping, command, shown, since, now_in>>

-----------------------------------------------------------------------------
\* A period ends when everyone who runs within it has had his turn.
Tick ==
    /\ emitted /\ emitted' = FALSE
    /\ bridge => words = <<>> /\ line = <<>>
    /\ \A id \in Ids : ~Due(id)
    /\ quiet' = IF bridge THEN 0 ELSE IF quiet > LinkLimit THEN quiet ELSE quiet + 1
    /\ pico' = Power(Arbitrate(radio, wants, quiet' <= LinkLimit, pico.latched))
    /\ now_in' = pico'.mode
    /\ since' = [k \in DOMAIN since |-> since[k] \cup {pico'.mode}]
    /\ command' = [id \in Ids |-> IF command[id].status # "pending" THEN command[id] ELSE
         [command[id] EXCEPT !.age = IF @ > Timeout THEN @ ELSE @ + 1, !.modes = @ \cup {pico'.mode},
            !.held = IF bridge /\ pico.mode = command[id].name /\ pico'.mode = pico.mode
                     THEN @ + 1 ELSE 0]]
    /\ UNCHANGED <<radio, wants, bridge, words, line, report, ping, web, events>>

Next ==
    \/ MoveStick \/ SbusLost \/ EmitState \/ Drain \/ OnMode \/ Restart
    \/ ServePing \/ ReportPing
    \/ \E id \in Ids, name \in Names : Click(id, name)
    \/ \E id \in Ids, ready \in BOOLEAN : IssueCommand(id, ready)
    \/ UpdateCommands
    \/ \E id \in Ids : Receive(id)
    \/ Relink
    \/ Tick

\* The Pico's loop, the bridge's timer and the hub's tick run for ever.
Fairness ==
    WF_vars(EmitState) /\ WF_vars(Drain) /\ WF_vars(OnMode)
    /\ WF_vars(UpdateCommands) /\ WF_vars(Tick)

Spec == Init /\ [][Next]_vars /\ Fairness

-----------------------------------------------------------------------------
Verdicts == {"pending", "failed", "confirmed"}
Powers == [mode : Modes, armed : BOOLEAN, latched : BOOLEAN]
Lines == {<<>>} \cup {<<StateLine(p)>> : p \in Powers}
Reports == [mode : Modes \cup {"none", "UNKNOWN"}, armed : BOOLEAN, latched : BOOLEAN]
Commands == [name : Names \cup {"none"}, status : Verdicts \cup {"unused"},
             age : Nat, held : Nat, modes : SUBSET Modes]

\* Type correctness, and a command is issued once: what the browser has not
\* sent, or what is on its way up, the hub has not seen.
TypeOK ==
    /\ radio \in Radios /\ wants \in BOOLEAN /\ quiet \in 0..(LinkLimit + 1)
    /\ pico \in Powers /\ bridge \in BOOLEAN /\ emitted \in BOOLEAN
    /\ words \in Seq({"AUTO", "MANUAL"})
    /\ line \in Lines /\ (line # <<>> => bridge)
    /\ report \in Reports
    /\ sonar \in {"default", "set_ping_parameters"}
    /\ order \in {"none", "set_ping_parameters"}
    /\ sonar_report \in {"default", sonar}
    /\ command \in [Ids -> Commands]
    /\ up \in [Ids -> Names \cup {"none"}]
    /\ wire \in [Ids -> Seq(Verdicts)]
    /\ shown \in [Ids -> Verdicts \cup {"none"}]
    /\ since \in [{"kept", "line"} -> SUBSET Modes] /\ now_in \in Modes
    /\ events \in 0..MaxEvents
    /\ online \in BOOLEAN
    /\ \A id \in Ids : up[id] # "none" =>
           command[id].status = "unused" /\ shown[id] # "none"
    /\ \A id \in Ids : shown[id] = "none" => command[id].status = "unused"

\* A mode is confirmed only if the vessel really was in it, no earlier than the
\* report in hand when the command was issued: not by the request alone, not by
\* another mode's number, not by a line that was cut short.  The ping parameters
\* only if the sonar uses them (commands.py 235-305, pico_state.py, adapters.py).
ConfirmedWasTrue ==
    [][\A id \in Ids :
         command[id].status = "pending" /\ command'[id].status = "confirmed" =>
            /\ command[id].name \in ModeNames => command[id].name \in command[id].modes
            /\ command[id].name = "set_ping_parameters" => sonar = "set_ping_parameters"]_vars

\* And no command is still waiting when the vessel has held its mode for two
\* whole periods, every line of which got through (commands.py,
\* CommandManager.update; pico_state.py, parse_state_line).
ObeyedIsConfirmed == \A id \in Ids : command[id].held < 2

\* Whatever fails, the hub gives every command an answer: a lost word, a bridge
\* that is down, a vessel that was never heard of.
EveryCommandEnds ==
    \A id \in Ids : command[id].status = "pending" ~> command[id].status # "pending"

=============================================================================
