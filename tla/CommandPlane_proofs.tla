------------------------- MODULE CommandPlane_proofs -------------------------
(***************************************************************************)
(* Proofs about CommandPlane: type correctness, that a command is         *)
(* confirmed only by what was true of the vessel, and that a command which *)
(* was obeyed is not given up.                                             *)
(***************************************************************************)
EXTENDS CommandPlane, TLAPS

-----------------------------------------------------------------------------
(* Operators                                                               *)

LEMMA ArbitrateGives ==
    ASSUME NEW r, NEW w, NEW l, NEW x
    PROVE  Power(Arbitrate(r, w, l, x)) \in Powers
BY DEF Power, Arbitrate, Granted, Powers, Modes

\* A line says the mode of the Pico that wrote it, through three numberings.
LEMMA LineSaysMode ==
    ASSUME NEW p \in Powers
    PROVE  /\ StateLine(p).mode # 0
           /\ Parse(StateLine(p)).mode = p.mode
           /\ Parse(StateLine(p)) \in Reports
<1>1. p.mode \in {"ESTOP", "MANUAL", "AUTONOMOUS"} /\ p.armed \in BOOLEAN
      /\ p.latched \in BOOLEAN
  BY DEF Powers, Modes
<1>2. StateLine(p).mode \in {1, 2, 3}
      /\ GuiName(GuiNumber(ModeOfNumber(StateLine(p).mode))) = p.mode
  <2>1. CASE p.mode = "ESTOP"  BY <2>1 DEF StateLine, GuiName, GuiNumber, ModeOfNumber
  <2>2. CASE p.mode = "MANUAL"  BY <2>2 DEF StateLine, GuiName, GuiNumber, ModeOfNumber
  <2>3. CASE p.mode = "AUTONOMOUS"
    BY <2>3 DEF StateLine, GuiName, GuiNumber, ModeOfNumber
  <2> QED  BY <1>1, <2>1, <2>2, <2>3
<1>3. Parse(StateLine(p)) = [mode |-> p.mode, armed |-> p.armed, latched |-> p.latched]
  BY <1>2 DEF Parse, StateLine
<1> QED  BY <1>1, <1>2, <1>3 DEF Reports, Modes

LEMMA GarbledIsReport == Garbled \in Reports /\ NoReport \in Reports
BY DEF Garbled, NoReport, Reports

LEMMA LinesAreShort ==
    ASSUME NEW l \in Lines, l # <<>>
    PROVE  \E p \in Powers : l = <<StateLine(p)>> /\ Head(l) = StateLine(p)
BY DEF Lines

LEMMA ClosedType ==
    ASSUME NEW s \in Verdicts \cup {"unused"}
    PROVE  Closed(s) \in Commands /\ Closed(s).status = s /\ Closed(s).held = 0
BY DEF Closed, Commands

LEMMA ResolvedType ==
    ASSUME NEW c \in Commands
    PROVE  /\ Resolved(c) \in Commands
           /\ \/ Resolved(c) = c
              \/ /\ c.status = "pending" /\ Resolved(c).held = 0
                 /\ Resolved(c).status \in {"confirmed", "failed"}
           /\ c.status = "pending" /\ Resolved(c).status = "confirmed" => Confirms(c.name)
           /\ c.status = "pending" /\ Confirms(c.name) => Resolved(c) # c
<1>1. CASE c.status # "pending"
  <2>1. Resolved(c) = c  BY <1>1 DEF Resolved
  <2> QED  BY <1>1, <2>1
<1>2. CASE c.status = "pending" /\ Confirms(c.name)
  <2>1. Resolved(c) = Closed("confirmed")  BY <1>2 DEF Resolved
  <2> QED  BY <1>2, <2>1, ClosedType DEF Verdicts
<1>3. CASE c.status = "pending" /\ ~Confirms(c.name)
  <2>1. Resolved(c) = Closed("failed") \/ Resolved(c) = c  BY <1>3 DEF Resolved
  <2>2. CASE Resolved(c) = Closed("failed")  BY <1>3, <2>2, ClosedType DEF Verdicts
  <2>3. CASE Resolved(c) = c  BY <1>3, <2>3
  <2> QED  BY <2>1, <2>2, <2>3
<1> QED  BY <1>1, <1>2, <1>3

LEMMA ConfirmsMode ==
    ASSUME NEW name \in ModeNames
    PROVE  Confirms(name) <=> report.mode = name
<1>1. CASE name = "AUTONOMOUS"  BY <1>1 DEF Confirms, Observed, ModeNames
<1>2. CASE name = "MANUAL"  BY <1>2 DEF Confirms, Observed, ModeNames
<1> QED  BY <1>1, <1>2 DEF ModeNames

\* What a command is told after a step of the Pico.
LEMMA DecidedType ==
    ASSUME NEW c \in Commands, NEW m \in Modes
    PROVE  LET d == [c EXCEPT !.modes = @ \cup {m}, !.held = IF m = c.name THEN @ ELSE 0]
           IN /\ d \in Commands /\ d.status = c.status /\ d.name = c.name
              /\ d.modes = c.modes \cup {m}
              /\ d.held = IF m = c.name THEN c.held ELSE 0
BY DEF Commands

LEMMA UnheldType ==
    ASSUME NEW c \in Commands
    PROVE  LET d == [c EXCEPT !.held = 0]
           IN /\ d \in Commands /\ d.status = c.status /\ d.name = c.name
              /\ d.modes = c.modes /\ d.held = 0
BY DEF Commands

\* And after a Tick, which may have held its mode for one period more.
Ticked(c, m, b) ==
    [c EXCEPT !.age = IF @ > Timeout THEN @ ELSE @ + 1, !.modes = @ \cup {m},
              !.held = IF b THEN @ + 1 ELSE 0]

LEMMA TickedType ==
    ASSUME NEW c \in Commands, NEW m \in Modes, NEW b \in BOOLEAN
    PROVE  /\ Ticked(c, m, b) \in Commands
           /\ Ticked(c, m, b).status = c.status /\ Ticked(c, m, b).name = c.name
           /\ Ticked(c, m, b).modes = c.modes \cup {m}
           /\ Ticked(c, m, b).held = IF b THEN c.held + 1 ELSE 0
<1> DEFINE a == IF c.age > Timeout THEN c.age ELSE c.age + 1
           h == IF b THEN c.held + 1 ELSE 0
           M == c.modes \cup {m}
<1>1. c.age \in Nat /\ c.held \in Nat /\ M \in SUBSET Modes  BY DEF Commands
<1>2. a \in Nat /\ h \in Nat  BY <1>1
<1>3. Ticked(c, m, b) = [c EXCEPT !.age = a, !.modes = M, !.held = h]  BY DEF Ticked
<1> HIDE DEF a, h, M
<1>4. LET d == [c EXCEPT !.age = a, !.modes = M, !.held = h]
      IN /\ d \in Commands /\ d.status = c.status /\ d.name = c.name
         /\ d.modes = M /\ d.held = h
  BY <1>1, <1>2 DEF Commands
<1> QED  BY <1>3, <1>4 DEF a, h, M

LEMMA PendingType ==
    ASSUME NEW n \in Names, NEW M \in SUBSET Modes
    PROVE  [name |-> n, status |-> "pending", age |-> 0, held |-> 0, modes |-> M] \in Commands
BY DEF Commands, Verdicts

LEMMA VerdictType ==
    ASSUME NEW n, NEW r
    PROVE  Verdict(n, r) \in Verdicts
BY DEF Verdict, Verdicts

-----------------------------------------------------------------------------
(* What the steps do to the commands                                       *)

\* Decide, of one command.
LEMMA DecideStep ==
    ASSUME TypeOK, NEW r, NEW w, NEW q, Decide(r, w, q)
    PROVE  /\ pico' \in Powers /\ now_in' = pico'.mode
           /\ since' \in [{"kept", "line"} -> SUBSET Modes]
           /\ \A k \in {"kept", "line"} : since'[k] = since[k] \cup {pico'.mode}
           /\ command' \in [Ids -> Commands]
           /\ \A id \in Ids :
                /\ command[id].status # "pending" => command'[id] = command[id]
                /\ command[id].status = "pending" =>
                    /\ command'[id].status = "pending"
                    /\ command'[id].name = command[id].name
                    /\ command'[id].modes = command[id].modes \cup {pico'.mode}
                    /\ command'[id].held = IF pico'.mode = command[id].name
                                           THEN command[id].held ELSE 0
<1>1. pico' \in Powers /\ now_in' = pico'.mode  BY ArbitrateGives DEF Decide
<1>2. pico'.mode \in Modes  BY <1>1 DEF Powers
<1>3. since' = [k \in {"kept", "line"} |-> since[k] \cup {pico'.mode}]
  BY DEF Decide, TypeOK
<1>4. since' \in [{"kept", "line"} -> SUBSET Modes]
  BY <1>2, <1>3 DEF TypeOK
<1>5. command' = [id \in Ids |->
         IF command[id].status # "pending" THEN command[id] ELSE
         [command[id] EXCEPT !.modes = @ \cup {pico'.mode},
                             !.held = IF pico'.mode = command[id].name THEN @ ELSE 0]]
  BY DEF Decide
<1>6. \A id \in Ids : command[id] \in Commands  BY DEF TypeOK
<1>7. command' \in [Ids -> Commands]  BY <1>2, <1>5, <1>6, DecidedType
<1>8. \A id \in Ids :
        /\ command[id].status # "pending" => command'[id] = command[id]
        /\ command[id].status = "pending" =>
            /\ command'[id].status = "pending"
            /\ command'[id].name = command[id].name
            /\ command'[id].modes = command[id].modes \cup {pico'.mode}
            /\ command'[id].held = IF pico'.mode = command[id].name
                                   THEN command[id].held ELSE 0
  BY <1>2, <1>5, <1>6, DecidedType
<1> QED  BY <1>1, <1>3, <1>4, <1>7, <1>8

LEMMA TickStep ==
    ASSUME TypeOK, Tick
    PROVE  /\ pico' \in Powers /\ now_in' = pico'.mode
           /\ since' \in [{"kept", "line"} -> SUBSET Modes]
           /\ \A k \in {"kept", "line"} : since'[k] = since[k] \cup {pico'.mode}
           /\ command' \in [Ids -> Commands]
           /\ \A id \in Ids :
                /\ command[id].status # "pending" => command'[id] = command[id]
                /\ command[id].status = "pending" =>
                    /\ command'[id].status = "pending"
                    /\ command'[id].name = command[id].name
                    /\ command'[id].modes = command[id].modes \cup {pico'.mode}
                    /\ command'[id].held = IF bridge /\ pico.mode = command[id].name
                                              /\ pico'.mode = pico.mode
                                           THEN command[id].held + 1 ELSE 0
<1>1. pico' \in Powers /\ now_in' = pico'.mode  BY ArbitrateGives DEF Tick
<1>2. pico'.mode \in Modes  BY <1>1 DEF Powers
<1>3. since' = [k \in {"kept", "line"} |-> since[k] \cup {pico'.mode}]
  BY DEF Tick, TypeOK
<1>4. since' \in [{"kept", "line"} -> SUBSET Modes]
  BY <1>2, <1>3 DEF TypeOK
<1> DEFINE b(id) == bridge /\ pico.mode = command[id].name /\ pico'.mode = pico.mode
<1>5. command' = [id \in Ids |-> IF command[id].status # "pending" THEN command[id] ELSE
         Ticked(command[id], pico'.mode, b(id))]
  BY DEF Tick, Ticked
<1>6. \A id \in Ids : command[id] \in Commands /\ b(id) \in BOOLEAN  BY DEF TypeOK
<1> HIDE DEF b
<1>7. command' \in [Ids -> Commands]  BY <1>2, <1>5, <1>6, TickedType
<1>8. \A id \in Ids :
        /\ command[id].status # "pending" => command'[id] = command[id]
        /\ command[id].status = "pending" =>
            /\ command'[id].status = "pending"
            /\ command'[id].name = command[id].name
            /\ command'[id].modes = command[id].modes \cup {pico'.mode}
            /\ command'[id].held = IF b(id) THEN command[id].held + 1 ELSE 0
  <2> SUFFICES ASSUME NEW id \in Ids, command[id].status = "pending"
               PROVE  LET d == Ticked(command[id], pico'.mode, b(id))
                      IN /\ d.status = "pending" /\ d.name = command[id].name
                         /\ d.modes = command[id].modes \cup {pico'.mode}
                         /\ d.held = IF b(id) THEN command[id].held + 1 ELSE 0
    BY <1>5
  <2> QED  BY <1>2, <1>6, TickedType
<1> QED  BY <1>1, <1>3, <1>4, <1>7, <1>8 DEF b

\* A step that takes the held periods back and nothing else of a command.
LEMMA UnheldStep ==
    ASSUME TypeOK, command' = [id \in Ids |-> [command[id] EXCEPT !.held = 0]]
    PROVE  /\ command' \in [Ids -> Commands]
           /\ \A id \in Ids :
                /\ command'[id].status = command[id].status
                /\ command'[id].name = command[id].name
                /\ command'[id].modes = command[id].modes
                /\ command'[id].held = 0
BY UnheldType DEF TypeOK

\* Issuing one command.
LEMMA IssueStep ==
    ASSUME TypeOK, NEW id \in Ids, NEW ready \in BOOLEAN, IssueCommand(id, ready)
    PROVE  /\ command' \in [Ids -> Commands]
           /\ \A other \in Ids \ {id} : command'[other] = command[other]
           /\ command'[id].held = 0
           /\ command[id].status = "unused"
           /\ command'[id].status \in Verdicts
           /\ command'[id].status = "pending" =>
                command'[id].modes = since["kept"] \cup {now_in}
<1>1. up[id] \in Names /\ command[id].status = "unused"
  BY DEF TypeOK, IssueCommand
<1> DEFINE v == Verdict(up[id], ready)
           c == IF v # "pending" THEN Closed(v)
                ELSE [name |-> up[id], status |-> "pending", age |-> 0, held |-> 0,
                      modes |-> since["kept"] \cup {now_in}]
<1>2. v \in Verdicts  BY VerdictType
<1>3. command' = [command EXCEPT ![id] = c]  BY DEF IssueCommand
<1>4. since["kept"] \cup {now_in} \in SUBSET Modes  BY DEF TypeOK
<1>5. CASE v # "pending"
  <2>1. c = Closed(v)  BY <1>5
  <2>2. c \in Commands /\ c.status = v /\ c.held = 0  BY <1>2, <2>1, ClosedType
  <2> HIDE DEF c, v
  <2> QED  BY <1>1, <1>2, <1>3, <1>5, <2>2 DEF TypeOK
<1>6. CASE v = "pending"
  <2>1. c \in Commands /\ c.status = "pending" /\ c.held = 0
        /\ c.modes = since["kept"] \cup {now_in}
    BY <1>1, <1>4, <1>6, PendingType
  <2> HIDE DEF c, v
  <2> QED  BY <1>1, <1>2, <1>3, <1>6, <2>1 DEF TypeOK
<1> QED  BY <1>5, <1>6

LEMMA UpdateStep ==
    ASSUME TypeOK, UpdateCommands
    PROVE  /\ command' \in [Ids -> Commands]
           /\ wire' \in [Ids -> Seq(Verdicts)]
           /\ \A id \in Ids :
                \/ command'[id] = command[id]
                \/ /\ command[id].status = "pending" /\ command'[id].held = 0
                   /\ command'[id].status \in {"confirmed", "failed"}
                   /\ command'[id].status = "confirmed" => Confirms(command[id].name)
<1>1. \A id \in Ids : command[id] \in Commands  BY DEF TypeOK
<1>2. command' = [id \in Ids |-> Resolved(command[id])]  BY DEF UpdateCommands
<1>3. command' \in [Ids -> Commands]  BY <1>1, <1>2, ResolvedType
<1>4. \A id \in Ids :
        \/ command'[id] = command[id]
        \/ /\ command[id].status = "pending" /\ command'[id].held = 0
           /\ command'[id].status \in {"confirmed", "failed"}
           /\ command'[id].status = "confirmed" => Confirms(command[id].name)
  BY <1>1, <1>2, ResolvedType
<1>5. ASSUME NEW id \in Ids, Due(id) PROVE Told(Resolved(command[id])) \in Verdicts
  BY <1>1, <1>5, ResolvedType DEF Due, Told, Verdicts
<1>6. wire' = [id \in Ids |->
         IF Due(id) /\ online THEN Append(wire[id], Told(Resolved(command[id]))) ELSE wire[id]]
  BY DEF UpdateCommands
<1>7. \A id \in Ids : wire[id] \in Seq(Verdicts)  BY DEF TypeOK
<1>8. wire' \in [Ids -> Seq(Verdicts)]  BY <1>5, <1>6, <1>7
<1> QED  BY <1>3, <1>4, <1>8

-----------------------------------------------------------------------------
(* Type correctness                                                        *)

LEMMA TypeInit == ASSUME Init PROVE TypeOK
<1> USE DEF Init
<1>1. radio \in Radios
  <2>1. PICK p \in Positions : radio = RadioAt(p)  OBVIOUS
  <2>2. p.failsafe \in BOOLEAN  BY CommandAssumption
  <2> QED  BY <2>1, <2>2 DEF RadioAt, Radio, Radios, Zones
<1>2. pico \in Powers  BY ArbitrateGives
<1>3. pico.mode \in Modes  BY <1>2 DEF Powers
<1>4. command \in [Ids -> Commands] /\ \A id \in Ids : command[id].status = "unused"
  BY ClosedType
<1>5. since \in [{"kept", "line"} -> SUBSET Modes]  BY <1>3
<1>6. quiet \in 0..(LinkLimit + 1) /\ events \in 0..MaxEvents  BY CommandAssumption
<1>7. line \in Lines /\ words \in Seq({"AUTO", "MANUAL"})  BY DEF Lines
<1>8. wire \in [Ids -> Seq(Verdicts)]  OBVIOUS
<1>9. up \in [Ids -> Names \cup {"none"}] /\ shown \in [Ids -> Verdicts \cup {"none"}]
      /\ \A id \in Ids : up[id] = "none"
  OBVIOUS
<1> QED  BY <1>1, <1>2, <1>3, <1>4, <1>5, <1>6, <1>7, <1>8, <1>9, GarbledIsReport
         DEF TypeOK

LEMMA TypeStep == ASSUME TypeOK, [Next]_vars PROVE TypeOK'
<1> USE DEF boat, path, ping, web
<1>e. Event => events' \in 0..MaxEvents  BY CommandAssumption DEF Event, TypeOK
<1>1. CASE MoveStick
  <2>1. PICK p \in Positions : /\ radio' = RadioAt(p)
                               /\ Decide(RadioAt(p), wants, quiet)
    BY <1>1 DEF MoveStick
  <2>2. UNCHANGED <<wants, quiet, path, ping, web>> /\ Event
    BY <1>1 DEF MoveStick
  <2>3. radio' \in Radios
    <3>1. p.failsafe \in BOOLEAN  BY CommandAssumption
    <3> QED  BY <2>1, <3>1 DEF RadioAt, Radio, Radios, Zones
  <2>4. /\ pico' \in Powers /\ now_in' = pico'.mode
        /\ since' \in [{"kept", "line"} -> SUBSET Modes]
        /\ command' \in [Ids -> Commands]
        /\ \A id \in Ids : command[id].status = "unused" => command'[id].status = "unused"
    BY <2>1, DecideStep
  <2>5. now_in' \in Modes  BY <2>4 DEF Powers
  <2> QED  BY <1>e, <2>2, <2>3, <2>4, <2>5 DEF TypeOK
<1>2. CASE SbusLost
  BY <1>2, <1>e DEF SbusLost, TypeOK, Powers
<1>3. CASE EmitState
  <2>1. line' \in Lines /\ (line' # <<>> => bridge)
    BY <1>3 DEF EmitState, TypeOK, Lines
  <2>2. since' \in [{"kept", "line"} -> SUBSET Modes]
    BY <1>3 DEF EmitState, TypeOK, Powers
  <2> QED  BY <1>3, <2>1, <2>2 DEF EmitState, TypeOK
<1>4. CASE Drain
  <2>1. line' = <<>> /\ <<>> \in Lines  BY <1>4 DEF Drain, Lines
  <2>2. PICK p \in Powers : Head(line) = StateLine(p)
    BY <1>4, LinesAreShort DEF Drain, TypeOK
  <2>3. \A l : Keep(l) => report' \in {Garbled, Parse(l)}  BY DEF Keep
  <2>4. Keep(Head(line)) => report' \in Reports
    BY <2>2, <2>3, LineSaysMode, GarbledIsReport
  <2>5. Keep([Head(line) EXCEPT !.mode = 0]) => report' \in Reports
    <3>1. [Head(line) EXCEPT !.mode = 0].mode = 0  BY <2>2 DEF StateLine
    <3> QED  BY <3>1, GarbledIsReport DEF Keep
  <2>6. report' \in Reports  BY <1>4, <2>4, <2>5 DEF Drain, TypeOK
  <2>7. since' \in [{"kept", "line"} -> SUBSET Modes]
    BY <1>4 DEF Drain, TypeOK
  <2>8. /\ command' \in [Ids -> Commands]
        /\ \A id \in Ids : command'[id].status = command[id].status
    BY <1>4, UnheldStep DEF Drain, TypeOK
  <2>9. events' \in 0..MaxEvents  BY <1>4, <1>e DEF Drain, TypeOK
  <2> QED  BY <1>4, <2>1, <2>6, <2>7, <2>8, <2>9 DEF Drain, TypeOK
<1>5. CASE OnMode
  <2>1. /\ pico' \in Powers /\ now_in' = pico'.mode
        /\ since' \in [{"kept", "line"} -> SUBSET Modes]
        /\ command' \in [Ids -> Commands]
        /\ \A id \in Ids : command[id].status = "unused" => command'[id].status = "unused"
    BY <1>5, DecideStep DEF OnMode
  <2>2. now_in' \in Modes  BY <2>1 DEF Powers
  <2>3. words' \in Seq({"AUTO", "MANUAL"})  BY <1>5 DEF OnMode, TypeOK
  <2>4. quiet' \in 0..(LinkLimit + 1) /\ wants' \in BOOLEAN
    BY <1>5, CommandAssumption DEF OnMode
  <2> QED  BY <1>5, <2>1, <2>2, <2>3, <2>4 DEF OnMode, TypeOK
<1>6. CASE Restart
  <2>1. /\ command' \in [Ids -> Commands]
        /\ \A id \in Ids : command'[id].status = command[id].status
    BY <1>6, UnheldStep DEF Restart
  <2>2. line' \in Lines /\ line' = <<>> /\ words' \in Seq({"AUTO", "MANUAL"})
    BY <1>6 DEF Restart, Lines
  <2>3. bridge' \in BOOLEAN  BY <1>6 DEF Restart
  <2> QED  BY <1>6, <1>e, <2>1, <2>2, <2>3 DEF Restart, TypeOK
<1>7. CASE ServePing \/ ReportPing
  BY <1>7 DEF ServePing, ReportPing, TypeOK
<1>8. ASSUME NEW id \in Ids, NEW name \in Names, Click(id, name) PROVE TypeOK'
  <2>1. name # "none"  BY CommandAssumption
  <2>2. up' \in [Ids -> Names \cup {"none"}] /\ shown' \in [Ids -> Verdicts \cup {"none"}]
    BY <1>8 DEF Click, TypeOK, Verdicts
  <2>3. \A other \in Ids \ {id} : up'[other] = up[other] /\ shown'[other] = shown[other]
    BY <1>8 DEF Click, TypeOK
  <2>4. shown'[id] # "none" /\ command[id].status = "unused"
    BY <1>8 DEF Click, TypeOK
  <2> QED  BY <1>8, <2>2, <2>3, <2>4 DEF Click, TypeOK
<1>9. ASSUME NEW id \in Ids, NEW ready \in BOOLEAN, IssueCommand(id, ready) PROVE TypeOK'
  <2>1. /\ command' \in [Ids -> Commands]
        /\ \A other \in Ids \ {id} : command'[other] = command[other]
    BY <1>9, IssueStep
  <2>2. up' \in [Ids -> Names \cup {"none"}] /\ up'[id] = "none"
        /\ \A other \in Ids \ {id} : up'[other] = up[other]
    BY <1>9 DEF IssueCommand, TypeOK
  <2>3. shown' = shown /\ shown[id] # "none"  BY <1>9 DEF IssueCommand, TypeOK
  <2>4. wire' \in [Ids -> Seq(Verdicts)]
    <3>1. Verdict(up[id], ready) \in Verdicts  BY VerdictType
    <3>2. Append(wire[id], Verdict(up[id], ready)) \in Seq(Verdicts)
      BY <3>1 DEF TypeOK
    <3> QED  BY <1>9, <3>2 DEF IssueCommand, TypeOK
  <2>5. words' \in Seq({"AUTO", "MANUAL"}) /\ order' \in {"none", "set_ping_parameters"}
    <3>1. Append(words, Word(up[id])) \in Seq({"AUTO", "MANUAL"})  BY DEF TypeOK, Word
    <3> QED  BY <1>9, <3>1 DEF IssueCommand, Send, TypeOK
  <2>6. \A other \in Ids : up'[other] # "none" =>
            command'[other].status = "unused" /\ shown'[other] # "none"
    BY <2>1, <2>2, <2>3 DEF TypeOK
  <2>7. \A other \in Ids : shown'[other] = "none" => command'[other].status = "unused"
    BY <2>1, <2>3 DEF TypeOK
  <2> QED  BY <1>9, <2>1, <2>2, <2>3, <2>4, <2>5, <2>6, <2>7 DEF IssueCommand, TypeOK
<1>10. CASE UpdateCommands
  <2>1. /\ command' \in [Ids -> Commands] /\ wire' \in [Ids -> Seq(Verdicts)]
        /\ \A id \in Ids : command[id].status = "unused" => command'[id].status = "unused"
    BY <1>10, UpdateStep
  <2> QED  BY <1>10, <2>1 DEF UpdateCommands, TypeOK
<1>11. ASSUME NEW id \in Ids, Receive(id) PROVE TypeOK'
  <2>1. wire[id] \in Seq(Verdicts) /\ wire[id] # <<>>  BY <1>11 DEF Receive, TypeOK
  <2>2. Head(wire[id]) \in Verdicts /\ Tail(wire[id]) \in Seq(Verdicts)  BY <2>1
  <2>3. wire' \in [Ids -> Seq(Verdicts)]  BY <1>11, <2>2 DEF Receive, TypeOK
  <2>4. shown' \in [Ids -> Verdicts \cup {"none"}] /\ shown'[id] # "none"
        /\ \A other \in Ids \ {id} : shown'[other] = shown[other]
    BY <1>11, <2>2 DEF Receive, TypeOK, Verdicts
  <2> QED  BY <1>11, <2>3, <2>4 DEF Receive, TypeOK
<1>12. CASE Relink
  <2>1. wire' \in [Ids -> Seq(Verdicts)]  BY <1>12 DEF Relink
  <2>2. up' \in [Ids -> Names \cup {"none"}] /\ \A id \in Ids : up'[id] = "none"
    BY <1>12 DEF Relink
  <2> QED  BY <1>12, <1>e, <2>1, <2>2 DEF Relink, TypeOK
<1>13. CASE Tick
  <2>1. /\ pico' \in Powers /\ now_in' = pico'.mode
        /\ since' \in [{"kept", "line"} -> SUBSET Modes]
        /\ command' \in [Ids -> Commands]
        /\ \A id \in Ids : command[id].status = "unused" => command'[id].status = "unused"
    BY <1>13, TickStep
  <2>2. now_in' \in Modes  BY <2>1 DEF Powers
  <2>3. quiet' \in 0..(LinkLimit + 1)
    <3>1. quiet \in 0..(LinkLimit + 1) /\ LinkLimit \in Nat  BY CommandAssumption DEF TypeOK
    <3>2. quiet' = IF bridge THEN 0 ELSE IF quiet > LinkLimit THEN quiet ELSE quiet + 1
      BY <1>13 DEF Tick
    <3> QED  BY <3>1, <3>2
  <2> QED  BY <1>13, <2>1, <2>2, <2>3 DEF Tick, TypeOK
<1>14. CASE UNCHANGED vars  BY <1>14 DEF vars, TypeOK
<1> QED  BY <1>1, <1>2, <1>3, <1>4, <1>5, <1>6, <1>7, <1>8, <1>9, <1>10, <1>11,
            <1>12, <1>13, <1>14 DEF Next

\* The state stays well typed, and a command is issued once: between the click
\* and the hub nothing else answers for it (connection.js, hub.issue_command).
THEOREM TypeCorrect == Spec => []TypeOK
BY TypeInit, TypeStep, PTL DEF Spec

-----------------------------------------------------------------------------
(* What confirms a command: ConfirmedWasTrue                               *)

\* Every mode that is in the Pico, on the line or in the report has been in the
\* vessel since the report in hand was made, and while each pending command was.
ModesAreKnown ==
    /\ now_in = pico.mode
    /\ pico.mode \in since["line"] /\ since["line"] \subseteq since["kept"]
    /\ line # <<>> => Parse(Head(line)).mode \in since["line"]
    /\ report.mode \in ModeNames => report.mode \in since["kept"]
    /\ \A id \in Ids : command[id].status = "pending" =>
        /\ pico.mode \in command[id].modes
        /\ line # <<>> => Parse(Head(line)).mode \in command[id].modes
        /\ report.mode \in ModeNames => report.mode \in command[id].modes

ModesIInv == TypeOK /\ ModesAreKnown

\* The Pico arbitrates, and neither the line nor the report changes.
LEMMA ModesByPico ==
    ASSUME ModesIInv,
           now_in' = pico'.mode, line' = line, report' = report,
           \A k \in {"kept", "line"} : since'[k] = since[k] \cup {pico'.mode},
           \A id \in Ids :
              /\ command[id].status # "pending" => command'[id] = command[id]
              /\ command[id].status = "pending" =>
                    command'[id].modes = command[id].modes \cup {pico'.mode}
    PROVE  ModesAreKnown'
<1>1. since'["line"] = since["line"] \cup {pico'.mode}
      /\ since'["kept"] = since["kept"] \cup {pico'.mode}
  OBVIOUS
<1>2. /\ now_in' = pico'.mode
      /\ pico'.mode \in since'["line"] /\ since'["line"] \subseteq since'["kept"]
      /\ line' # <<>> => Parse(Head(line')).mode \in since'["line"]
      /\ report'.mode \in ModeNames => report'.mode \in since'["kept"]
  BY <1>1 DEF ModesIInv, ModesAreKnown
<1>3. ASSUME NEW id \in Ids, command'[id].status = "pending"
      PROVE  /\ pico'.mode \in command'[id].modes
             /\ line' # <<>> => Parse(Head(line')).mode \in command'[id].modes
             /\ report'.mode \in ModeNames => report'.mode \in command'[id].modes
  <2>1. command[id].status = "pending"  BY <1>3
  <2>2. command'[id].modes = command[id].modes \cup {pico'.mode}  BY <2>1
  <2> QED  BY <2>1, <2>2 DEF ModesIInv, ModesAreKnown
<1> QED  BY <1>2, <1>3 DEF ModesAreKnown

\* Nothing is heard, and nothing happens to a command but that it is closed.
LEMMA ModesByOthers ==
    ASSUME ModesIInv,
           pico'.mode = pico.mode, now_in' = now_in, since' = since,
           line' = line \/ line' = <<>>,
           report' = report \/ report' = Garbled,
           \A id \in Ids : command'[id].status = "pending" =>
              command[id].status = "pending" /\ command'[id].modes = command[id].modes
    PROVE  ModesAreKnown'
<1>1. Garbled.mode \notin ModeNames  BY DEF Garbled, ModeNames
<1>2. /\ now_in' = pico'.mode
      /\ pico'.mode \in since'["line"] /\ since'["line"] \subseteq since'["kept"]
      /\ line' # <<>> => Parse(Head(line')).mode \in since'["line"]
      /\ report'.mode \in ModeNames => report'.mode \in since'["kept"]
  BY <1>1 DEF ModesIInv, ModesAreKnown
<1>3. \A id \in Ids : command'[id].status = "pending" =>
        /\ pico'.mode \in command'[id].modes
        /\ line' # <<>> => Parse(Head(line')).mode \in command'[id].modes
        /\ report'.mode \in ModeNames => report'.mode \in command'[id].modes
  BY <1>1 DEF ModesIInv, ModesAreKnown
<1> QED  BY <1>2, <1>3 DEF ModesAreKnown

LEMMA ModesStep == ASSUME ModesIInv, [Next]_vars PROVE ModesAreKnown'
<1> USE DEF boat, path, ping, web
<1>t. TypeOK  BY DEF ModesIInv
<1>1. CASE MoveStick
  <2>1. PICK r, w, q : Decide(r, w, q)  BY <1>1 DEF MoveStick
  <2>2. line' = line /\ report' = report  BY <1>1 DEF MoveStick
  <2> QED  BY <1>t, <2>1, <2>2, DecideStep, ModesByPico
<1>2. CASE OnMode
  <2>1. PICK r, w, q : Decide(r, w, q)  BY <1>2 DEF OnMode
  <2>2. line' = line /\ report' = report  BY <1>2 DEF OnMode
  <2> QED  BY <1>t, <2>1, <2>2, DecideStep, ModesByPico
<1>3. CASE Tick
  <2>1. line' = line /\ report' = report  BY <1>3 DEF Tick
  <2> QED  BY <1>t, <1>3, <2>1, TickStep, ModesByPico
<1>4. CASE SbusLost
  <2>1. pico'.mode = pico.mode  BY <1>4, <1>t DEF SbusLost, TypeOK, Powers
  <2> QED  BY <1>4, <2>1, ModesByOthers DEF SbusLost
<1>5. CASE EmitState
  <2>1. UNCHANGED <<pico, now_in, report, command>>  BY <1>5 DEF EmitState
  <2>2. since'["line"] = {pico.mode} /\ since'["kept"] = since["kept"]
    BY <1>5, <1>t DEF EmitState, TypeOK
  <2>3. line' # <<>> => Parse(Head(line')).mode = pico.mode
    <3>1. pico \in Powers  BY <1>t DEF TypeOK
    <3>2. line' # <<>> => Head(line') = StateLine(pico)  BY <1>5 DEF EmitState
    <3> QED  BY <3>1, <3>2, LineSaysMode
  <2>4. pico.mode \in since["kept"]  BY DEF ModesIInv, ModesAreKnown
  <2> QED  BY <2>1, <2>2, <2>3, <2>4 DEF ModesIInv, ModesAreKnown
<1>6. CASE Drain
  <2>1. UNCHANGED <<pico, now_in>> /\ line' = <<>>  BY <1>6 DEF Drain
  <2>2. PICK p \in Powers : line # <<>> /\ Head(line) = StateLine(p)
    BY <1>6, <1>t, LinesAreShort DEF Drain, TypeOK
  <2>3. CASE Keep(Head(line)) /\ since' = [since EXCEPT !.kept = since.line]
             /\ UNCHANGED command
    <3>1. report' = Parse(Head(line))
      BY <2>2, <2>3, LineSaysMode DEF Keep
    <3>2. since'["kept"] = since["line"] /\ since'["line"] = since["line"]
      BY <2>3, <1>t DEF TypeOK
    <3>3. command' = command  BY <2>3
    <3> QED  BY <2>1, <2>2, <3>1, <3>2, <3>3 DEF ModesIInv, ModesAreKnown
  <2>4. CASE /\ Keep([Head(line) EXCEPT !.mode = 0]) \/ UNCHANGED report
             /\ command' = [id \in Ids |-> [command[id] EXCEPT !.held = 0]]
             /\ UNCHANGED since
    <3>1. [Head(line) EXCEPT !.mode = 0].mode = 0  BY <2>2 DEF StateLine
    <3>2. report' = Garbled \/ report' = report  BY <2>4, <3>1 DEF Keep
    <3>3. \A id \in Ids : command'[id].status = command[id].status
                          /\ command'[id].modes = command[id].modes
      BY <1>t, <2>4, UnheldStep
    <3> QED  BY <2>1, <2>4, <3>2, <3>3, ModesByOthers
  <2> QED  BY <1>6, <2>3, <2>4 DEF Drain
<1>7. CASE Restart
  <2>1. \A id \in Ids : command'[id].status = command[id].status
                        /\ command'[id].modes = command[id].modes
    BY <1>7, <1>t, UnheldStep DEF Restart
  <2> QED  BY <1>7, <2>1, ModesByOthers DEF Restart
<1>8. ASSUME NEW id \in Ids, NEW ready \in BOOLEAN, IssueCommand(id, ready)
      PROVE  ModesAreKnown'
  <2>1. UNCHANGED <<pico, now_in, since, line, report>>  BY <1>8 DEF IssueCommand
  <2>2. /\ \A other \in Ids \ {id} : command'[other] = command[other]
        /\ command'[id].status = "pending" =>
                command'[id].modes = since["kept"] \cup {now_in}
    BY <1>8, <1>t, IssueStep
  <2>3. \A other \in Ids : command'[other].status = "pending" =>
            /\ pico.mode \in command'[other].modes
            /\ line # <<>> => Parse(Head(line)).mode \in command'[other].modes
            /\ report.mode \in ModeNames => report.mode \in command'[other].modes
    BY <2>2 DEF ModesIInv, ModesAreKnown
  <2> QED  BY <2>1, <2>3 DEF ModesIInv, ModesAreKnown
<1>9. CASE UpdateCommands
  <2>1. \A id \in Ids : command'[id].status = "pending" => command'[id] = command[id]
    BY <1>9, <1>t, UpdateStep
  <2> QED  BY <1>9, <2>1, ModesByOthers DEF UpdateCommands
<1>10. CASE UNCHANGED <<pico, now_in, since, line, report, command>>
  BY <1>10, ModesByOthers
<1> QED  BY <1>1, <1>2, <1>3, <1>4, <1>5, <1>6, <1>7, <1>8, <1>9, <1>10
         DEF Next, vars, ServePing, ReportPing, Click, Receive, Relink

LEMMA ModesAlways == Spec => []ModesIInv
<1>1. ASSUME Init PROVE ModesIInv
  <2>1. TypeOK  BY <1>1, TypeInit
  <2>2. \A id \in Ids : command[id].status = "unused"
    BY <1>1, ClosedType DEF Init
  <2>3. NoReport.mode \notin ModeNames  BY DEF NoReport, ModeNames
  <2> QED  BY <1>1, <2>1, <2>2, <2>3 DEF Init, ModesIInv, ModesAreKnown
<1>2. ModesIInv /\ [Next]_vars => ModesIInv'
  BY TypeStep, ModesStep DEF ModesIInv
<1> QED  BY <1>1, <1>2, PTL DEF Spec

ConfirmedStep ==
    \A id \in Ids :
       command[id].status = "pending" /\ command'[id].status = "confirmed" =>
          /\ command[id].name \in ModeNames => command[id].name \in command[id].modes
          /\ command[id].name = "set_ping_parameters" => sonar = "set_ping_parameters"

\* Only the hub's own pass over the pending commands confirms one.
LEMMA OnlyUpdateConfirms ==
    ASSUME TypeOK, [Next]_vars, NEW id \in Ids,
           command[id].status = "pending", command'[id].status = "confirmed"
    PROVE  Confirms(command[id].name)
<1> USE DEF boat, path, ping, web
<1>1. CASE MoveStick \/ OnMode
  <2>1. PICK r, w, q : Decide(r, w, q)  BY <1>1 DEF MoveStick, OnMode
  <2> QED  BY <2>1, DecideStep
<1>2. CASE Tick  BY <1>2, TickStep
<1>3. CASE Drain \/ Restart
  <2>1. command' = command
        \/ command' = [i \in Ids |-> [command[i] EXCEPT !.held = 0]]
    BY <1>3 DEF Drain, Restart
  <2> QED  BY <2>1, UnheldStep
<1>4. CASE \E i \in Ids, ready \in BOOLEAN : IssueCommand(i, ready)
  BY <1>4, IssueStep
<1>5. CASE UpdateCommands  BY <1>5, UpdateStep
<1>6. CASE UNCHANGED command  BY <1>6
<1> QED  BY <1>1, <1>2, <1>3, <1>4, <1>5, <1>6
         DEF Next, vars, SbusLost, EmitState, ServePing, ReportPing, Click, Receive, Relink

\* A mode is confirmed only if the vessel was in it since the report in hand when
\* the command was issued, ping parameters only if the sonar uses them
\* (commands.py, the predicates; hub.py, _update_commands).
THEOREM ConfirmedHolds == Spec => ConfirmedWasTrue
<1>1. ASSUME ModesIInv, [Next]_vars PROVE ConfirmedStep
  <2> SUFFICES ASSUME NEW id \in Ids, command[id].status = "pending",
                      command'[id].status = "confirmed"
               PROVE  /\ command[id].name \in ModeNames =>
                            command[id].name \in command[id].modes
                      /\ command[id].name = "set_ping_parameters" =>
                            sonar = "set_ping_parameters"
    BY DEF ConfirmedStep
  <2>1. Confirms(command[id].name)  BY <1>1, OnlyUpdateConfirms DEF ModesIInv
  <2>2. CASE command[id].name \in ModeNames
    <3>1. report.mode = command[id].name  BY <2>1, <2>2, ConfirmsMode
    <3> QED  BY <1>1, <2>2, <3>1 DEF ModesIInv, ModesAreKnown, ModeNames
  <2>3. CASE command[id].name = "set_ping_parameters"
    <3>1. sonar_report = "set_ping_parameters"
      BY <2>1, <2>3 DEF Confirms, Observed, ModeNames
    <3> QED  BY <1>1, <2>3, <3>1 DEF ModesIInv, TypeOK, ModeNames
  <2> QED  BY <2>2, <2>3
<1>2. ASSUME ModesIInv, [Next]_vars PROVE [ConfirmedStep]_vars  BY <1>1, <1>2
<1>3. Spec => [][ConfirmedStep]_vars  BY <1>2, ModesAlways, PTL DEF Spec
<1> QED  BY <1>3 DEF ConfirmedWasTrue, ConfirmedStep

-----------------------------------------------------------------------------
(* What is not given up: ObeyedIsConfirmed                                 *)

\* A command obeyed for one period: the vessel is in its mode, and its line of
\* this period is still to be written, on its way, or read.
HeldIsHeard ==
    \A id \in Ids : command[id].held # 0 =>
        /\ command[id].held = 1 /\ command[id].status = "pending"
        /\ bridge /\ pico.mode = command[id].name
        /\ emitted /\ line # <<>> => Parse(Head(line)).mode = command[id].name
        /\ emitted /\ line = <<>> => report.mode = command[id].name
        /\ ~emitted => line = <<>>
HeldIInv == TypeOK /\ HeldIsHeard

\* The Pico's mode, the line and the report stay, and no command gains a period.
LEMMA HeldByOthers ==
    ASSUME HeldIInv,
           pico'.mode = pico.mode, UNCHANGED <<bridge, emitted, line, report>>,
           \A id \in Ids : command'[id] = command[id] \/ command'[id].held = 0
    PROVE  HeldIsHeard'
BY DEF HeldIInv, HeldIsHeard

\* The Pico arbitrates: the held periods are lost with the mode.
LEMMA HeldByPico ==
    ASSUME HeldIInv, NEW r, NEW w, NEW q, Decide(r, w, q),
           UNCHANGED <<bridge, emitted, line, report>>
    PROVE  HeldIsHeard'
<1> SUFFICES ASSUME NEW id \in Ids, command'[id].held # 0
             PROVE  /\ command'[id].held = 1 /\ command'[id].status = "pending"
                    /\ bridge /\ pico'.mode = command'[id].name
                    /\ emitted /\ line # <<>> =>
                            Parse(Head(line)).mode = command'[id].name
                    /\ emitted /\ line = <<>> => report.mode = command'[id].name
                    /\ ~emitted => line = <<>>
  BY DEF HeldIsHeard
<1>1. /\ command[id].status # "pending" => command'[id] = command[id]
      /\ command[id].status = "pending" =>
            /\ command'[id].status = "pending"
            /\ command'[id].name = command[id].name
            /\ command'[id].held = IF pico'.mode = command[id].name
                                   THEN command[id].held ELSE 0
  BY DecideStep DEF HeldIInv
<1>2. command[id].status = "pending"  BY <1>1 DEF HeldIInv, HeldIsHeard
<1>3. pico'.mode = command[id].name /\ command[id].held # 0
      /\ command'[id].held = command[id].held
  BY <1>1, <1>2
<1> QED  BY <1>1, <1>2, <1>3 DEF HeldIInv, HeldIsHeard

LEMMA HeldStep == ASSUME HeldIInv, [Next]_vars PROVE HeldIsHeard'
<1> USE DEF boat, path, ping, web
<1>t. TypeOK  BY DEF HeldIInv
<1>1. CASE MoveStick
  <2>1. PICK r, w, q : Decide(r, w, q)  BY <1>1 DEF MoveStick
  <2>2. UNCHANGED <<bridge, emitted, line, report>>  BY <1>1 DEF MoveStick
  <2> QED  BY <2>1, <2>2, HeldByPico
<1>2. CASE OnMode
  <2>1. PICK r, w, q : Decide(r, w, q)  BY <1>2 DEF OnMode
  <2>2. UNCHANGED <<bridge, emitted, line, report>>  BY <1>2 DEF OnMode
  <2> QED  BY <2>1, <2>2, HeldByPico
<1>3. CASE SbusLost
  <2>1. pico'.mode = pico.mode  BY <1>3, <1>t DEF SbusLost, TypeOK, Powers
  <2> QED  BY <1>3, <2>1, HeldByOthers DEF SbusLost
<1>4. CASE EmitState
  <2>1. UNCHANGED <<pico, bridge, report, command>> /\ emitted'
    BY <1>4 DEF EmitState
  <2>2. pico \in Powers  BY <1>t DEF TypeOK
  <2>3. bridge => line' # <<>> /\ Parse(Head(line')).mode = pico.mode
    <3>1. bridge => line' = <<StateLine(pico)>>  BY <1>4 DEF EmitState
    <3> QED  BY <2>2, <3>1, LineSaysMode
  <2> QED  BY <2>1, <2>3 DEF HeldIInv, HeldIsHeard
<1>5. CASE Drain
  <2>1. UNCHANGED <<pico, bridge, emitted>> /\ line' = <<>> /\ line # <<>>
    BY <1>5 DEF Drain
  <2>2. PICK p \in Powers : Head(line) = StateLine(p)
    BY <1>5, <1>t, LinesAreShort DEF Drain, TypeOK
  <2>3. CASE Keep(Head(line)) /\ UNCHANGED command
    <3>1. report' = Parse(Head(line))  BY <2>2, <2>3, LineSaysMode DEF Keep
    <3> QED  BY <2>1, <2>3, <3>1 DEF HeldIInv, HeldIsHeard
  <2>4. CASE command' = [id \in Ids |-> [command[id] EXCEPT !.held = 0]]
    <3>1. \A id \in Ids : command'[id].held = 0  BY <1>t, <2>4, UnheldStep
    <3> QED  BY <3>1 DEF HeldIsHeard
  <2> QED  BY <1>5, <2>3, <2>4 DEF Drain
<1>6. CASE Restart
  <2>1. \A id \in Ids : command'[id].held = 0  BY <1>6, <1>t, UnheldStep DEF Restart
  <2> QED  BY <2>1 DEF HeldIsHeard
<1>7. ASSUME NEW id \in Ids, NEW ready \in BOOLEAN, IssueCommand(id, ready)
      PROVE  HeldIsHeard'
  <2>1. \A other \in Ids : command'[other] = command[other] \/ command'[other].held = 0
    BY <1>7, <1>t, IssueStep
  <2> QED  BY <1>7, <2>1, HeldByOthers DEF IssueCommand
<1>8. CASE UpdateCommands
  <2>1. \A id \in Ids : command'[id] = command[id] \/ command'[id].held = 0
    BY <1>8, <1>t, UpdateStep
  <2> QED  BY <1>8, <2>1, HeldByOthers DEF UpdateCommands
<1>9. CASE Tick
  <2> SUFFICES ASSUME NEW id \in Ids, command'[id].held # 0
               PROVE  /\ command'[id].held = 1 /\ command'[id].status = "pending"
                      /\ bridge' /\ pico'.mode = command'[id].name
                      /\ ~emitted' /\ line' = <<>>
    BY DEF HeldIsHeard
  <2>1. /\ command[id].status # "pending" => command'[id] = command[id]
        /\ command[id].status = "pending" =>
              /\ command'[id].status = "pending"
              /\ command'[id].name = command[id].name
              /\ command'[id].held = IF bridge /\ pico.mode = command[id].name
                                        /\ pico'.mode = pico.mode
                                     THEN command[id].held + 1 ELSE 0
    BY <1>9, <1>t, TickStep
  <2>2. command[id].status = "pending"  BY <2>1 DEF HeldIInv, HeldIsHeard
  <2>3. bridge /\ pico.mode = command[id].name /\ pico'.mode = pico.mode
        /\ command'[id].held = command[id].held + 1
    BY <2>1, <2>2
  <2>4. UNCHANGED <<bridge, line, report>> /\ emitted /\ ~emitted' /\ line = <<>>
        /\ ~Due(id)
    BY <1>9, <2>3 DEF Tick
  <2>5. command[id].held = 0
    <3> SUFFICES ASSUME command[id].held # 0 PROVE FALSE  OBVIOUS
    <3>1. report.mode = command[id].name  BY <2>4 DEF HeldIInv, HeldIsHeard
    <3>2. command[id].name \in ModeNames
      <4>1. pico.mode \in Modes /\ command[id] \in Commands
        BY <1>t DEF TypeOK, Powers
      <4>2. command[id].name # "ESTOP"
        BY <4>1, CommandAssumption DEF Commands
      <4> QED  BY <2>3, <4>1, <4>2 DEF Modes, ModeNames
    <3>3. Confirms(command[id].name)  BY <3>1, <3>2, ConfirmsMode
    <3>4. Resolved(command[id]) # command[id]
      BY <1>t, <2>2, <3>3, ResolvedType DEF TypeOK
    <3> QED  BY <2>4, <3>4 DEF Due
  <2> QED  BY <2>1, <2>2, <2>3, <2>4, <2>5
<1>10. CASE UNCHANGED <<pico, bridge, emitted, line, report, command>>
  BY <1>10, HeldByOthers
<1> QED  BY <1>1, <1>2, <1>3, <1>4, <1>5, <1>6, <1>7, <1>8, <1>9, <1>10
         DEF Next, vars, ServePing, ReportPing, Click, Receive, Relink

\* No command outlives two periods in which the vessel was in the mode asked for
\* and every line got through, for every time-out (commands.py,
\* CommandManager.update): the first of those lines has confirmed it.
THEOREM ObeyedHolds == Spec => []ObeyedIsConfirmed
<1>1. ASSUME Init PROVE HeldIInv
  <2>1. \A id \in Ids : command[id].held = 0  BY <1>1, ClosedType DEF Init
  <2> QED  BY <1>1, <2>1, TypeInit DEF HeldIInv, HeldIsHeard
<1>2. HeldIInv /\ [Next]_vars => HeldIInv'
  BY TypeStep, HeldStep DEF HeldIInv
<1>3. ASSUME HeldIInv PROVE ObeyedIsConfirmed
  <2>1. \A id \in Ids : command[id].held = 0 \/ command[id].held = 1
    BY <1>3 DEF HeldIInv, HeldIsHeard
  <2> QED  BY <2>1 DEF ObeyedIsConfirmed
<1> QED  BY <1>1, <1>2, <1>3, PTL DEF Spec
=============================================================================
