------------------------------- MODULE Setup -------------------------------
(***************************************************************************)
(* The setup file of the vessel: saved by the setup page through the       *)
(* backend (setup_store.py, setup_api.py, setup_gate.py, hub.py), laid     *)
(* over mounting.yaml by the sonar bridge (mounting.py,                    *)
(* omniscan_bridge_node.py), and applied by a command that waits for the   *)
(* bridge to report the digest the backend predicted.                      *)
(*                                                                         *)
(* The backend handles one request at a time.  The bridge is another       *)
(* process: it reads the file when it starts and when it is asked to, and  *)
(* reports once a second what it is using; the backend keeps the last      *)
(* report however old.  A field is one of the numbers that place the sonar *)
(* (Placed), the side it looks to, or one the backend reads itself (Live). *)
(***************************************************************************)
EXTENDS Naturals

CONSTANTS
    Placed,     \* the fields of SETUP_FIELD_FOR_GEOMETRY
    Live,       \* fields that take effect immediately
    Numbers,    \* what float() takes
    Base,       \* mounting.yaml: the geometry, side included
    BaseMeasured,\* its flag `measured`
    Default,    \* SonarMounting(): what is used when mounting.yaml is unusable
    Requests,   \* the saves a page may send: the edits, their provenance, confirmed or not
    Applies,    \* the apply commands the browsers may issue
    Patience,   \* DEFAULT_TIMEOUT_S, in passes of the broadcast loop
    MaxSaves,   \* bound: files written
    MaxFaults   \* bound: power cuts, hand edits and restarts

Side == "side"
Sides == {"port", "starboard"}
Geometry == Placed \cup {Side}
Junk == "junk"
Values == Numbers \cup Sides \cup {Junk}

ASSUME SetupAssumption ==
    /\ Side \notin Placed \cup Live /\ Placed \cap Live = {}
    /\ Junk \notin Numbers \cup Sides /\ Numbers \cap Sides = {}
    /\ \A g \in {Base, Default} :
        g \in [Geometry -> Numbers \cup Sides] /\ g[Side] \in Sides
        /\ \A f \in Placed : g[f] \in Numbers
    /\ BaseMeasured \in BOOLEAN
    /\ \A q \in Requests : DOMAIN q.edits \subseteq Placed \cup Live \cup {Side}
    /\ Patience \in Nat /\ MaxSaves \in Nat /\ MaxFaults \in Nat

VARIABLES
    file,       \* the setup file: what its text says, and what state it is in
    base,       \* mounting.yaml: "ok" or "bad"
    pico,       \* the arming the Pico reports: "disarmed", "armed" or "unknown"
    bridge,     \* the sonar bridge: up or not, the geometry it uses, and its flag
    report,     \* the last mounting state the backend was sent, as a set of <= 1
    calls,      \* reload requests sent and not handled
    cmd,        \* the apply commands
    told,       \* the answer to the request just handled, and whether it did anything
    saves, faults,
    claims,     \* history: every <<field, number>> somebody said was measured
    tampered    \* history: an answer was taken away behind the page's back

vars == <<file, base, pico, bridge, report, calls, cmd, told, saves, faults,
          claims, tampered>>

-----------------------------------------------------------------------------
(* The inventory of fields, and the profile (setup_profile.py)             *)

Fields == Geometry \cup Live

\* _coerce: the values a field takes from a browser
Accepts(f) == IF f = Side THEN Sides ELSE Numbers

Answered == {"entered", "captured", "measured"}
Unanswered == [value |-> Junk, by |-> "default", at |-> 0]

\* FieldValue.from_dict: a provenance this version does not know is no answer
Entry(e) == IF e.by \in Answered THEN e ELSE [e EXCEPT !.by = "default"]

\* FieldSpec.takes_effect
TakesEffect(f) == IF f \in Geometry THEN "on_reload" ELSE "immediately"

\* pending_effects: what the page is told is not in use yet
PendingEffects(changed) == {f \in changed : TakesEffect(f) # "immediately"}

-----------------------------------------------------------------------------
(* The file (setup_store.py)                                               *)

Blank == [f \in Fields |-> Unanswered]

\* SetupFileError
LoadFails(f) == f.kind = "broken"

\* SetupProfile.from_dict: an entry for a field nobody knows is left out
FromDict(says) == [f \in Fields |-> Entry(says[f])]

\* load; an empty file reads as an absent one
Load(f) == IF f.kind = "ok" THEN FromDict(f.says) ELSE Blank

-----------------------------------------------------------------------------
(* Editing and predicting (setup_api.py)                                   *)

\* apply_edits: EditError, of the whole request
BadEdit(edits, by) ==
    by \notin Answered \/ \E f \in DOMAIN edits : edits[f] \notin Accepts(f)

\* apply_edits: an answer that is already there is not given again
Changed(profile, edits, by) ==
    {f \in DOMAIN edits : ~ /\ profile[f].by \in Answered
                            /\ profile[f].value = edits[f]
                            /\ profile[f].by = by}

\* SetupProfile.set
FieldSet(value, by, now) == [value |-> value, by |-> by, at |-> now]

\* apply_edits
Edited(profile, edits, by, now) ==
    [f \in Fields |-> IF f \in Changed(profile, edits, by)
                      THEN FieldSet(edits[f], by, now)
                      ELSE profile[f]]

\* geometry_fingerprint: of the numbers, and not of the side
Fingerprint(g) == [f \in Placed |-> g[f]]

\* replace_mounting: the answers of a profile over a geometry
Merged(profile, g) ==
    [f \in Geometry |-> IF profile[f].by \in Answered /\ profile[f].value \in Accepts(f)
                        THEN profile[f].value ELSE g[f]]

NotANumber(profile) ==
    \E f \in Placed : profile[f].by \in Answered /\ profile[f].value \notin Numbers

\* Mutant: the answers are laid over the shipped default.
PredictedFromDefault(profile) ==
    {Fingerprint(Merged(profile, Default)) :
        r \in {x \in report : ~NotANumber(profile)}}

\* predicted_fingerprint: what the bridge should report once it has read the
\* file, from what it reports now; empty when that cannot be told
Predicted(profile) ==
    {Fingerprint(Merged(profile, r)) : r \in {x \in report : ~NotANumber(profile)}}

-----------------------------------------------------------------------------
(* The sonar bridge's reading of both files (mounting.py)                  *)

\* _load_mounting
LoadBase == [geometry |-> IF base = "ok" THEN Base ELSE Default,
             measured |-> base = "ok" /\ BaseMeasured]

OverlayFails(f) ==
    \/ f.kind \in {"broken", "empty"}
    \/ f.kind = "ok" /\ LET p == Load(f) IN
        NotANumber(p) \/ (p[Side].by \in Answered /\ p[Side].value \notin Sides)

\* Mutant: one measured number is enough.
MeasuredAny(p, m) ==
    \E f \in Placed : p[f].by = "measured" \/ (p[f].by \notin Answered /\ m.measured)

\* the flag is earned by all the numbers together
Measured(p, m) ==
    \A f \in Placed : p[f].by = "measured" \/ (p[f].by \notin Answered /\ m.measured)

\* _apply_overlay; on an error the base geometry is kept as it is
Overlay(f, m) ==
    LET p == Load(f) IN
    IF OverlayFails(f) \/ \A n \in Geometry : p[n].by \notin Answered THEN m
    ELSE [geometry |-> Merged(p, m.geometry), measured |-> Measured(p, m)]

\* load_mounting
LoadMounting == Overlay(file, LoadBase)

-----------------------------------------------------------------------------
(* The gate (setup_gate.py)                                                *)

\* ros_source.state: the mission the gate is shown is a constant
MissionState == "IDLE"

\* evaluate
Allowed == pico = "disarmed" /\ MissionState # "RECORDING"

-----------------------------------------------------------------------------
(* Saving (hub._save_setup)                                                *)

Quiet == [what |-> "none", edits |-> {}, effects |-> {}]
Say(what) == told' = [Quiet EXCEPT !.what = what]

Acceptable(edits, by, confirmed) ==
    /\ Allowed /\ confirmed /\ DOMAIN edits # {}
    /\ ~LoadFails(file) /\ ~BadEdit(edits, by)

RefuseSave(edits, by, confirmed) ==
    /\ ~Acceptable(edits, by, confirmed)
    /\ Say("nothing")
    /\ UNCHANGED <<file, base, pico, bridge, report, calls, cmd, saves, faults,
                   claims, tampered>>

SaveUnchanged(edits, by, confirmed) ==
    /\ Acceptable(edits, by, confirmed)
    /\ Changed(Load(file), edits, by) = {}
    /\ Say("nothing")
    /\ UNCHANGED <<file, base, pico, bridge, report, calls, cmd, saves, faults,
                   claims, tampered>>

\* setup_store.save: what the version does not recognise is not written back,
\* and the file is renamed over the old one before it is on the disk
Write(edits, by) ==
    /\ file' = [kind |-> "ok", says |-> Edited(Load(file), edits, by, saves'),
                fresh |-> TRUE]
    /\ claims' = claims \cup (IF by = "measured"
                              THEN {<<f, edits[f]>> : f \in DOMAIN edits} ELSE {})
    /\ cmd' = [c \in Applies |-> [cmd[c] EXCEPT !.stands = FALSE]]

Save(edits, by, confirmed) ==
    /\ saves < MaxSaves
    /\ Acceptable(edits, by, confirmed)
    /\ LET changed == Changed(Load(file), edits, by) IN
        /\ changed # {}
        /\ told' = [what |-> "saved", effects |-> PendingEffects(changed),
                    edits |-> {<<f, edits[f], by>> : f \in DOMAIN edits}]
    /\ saves' = saves + 1
    /\ Write(edits, by)
    /\ UNCHANGED <<base, pico, bridge, report, calls, faults, tampered>>

\* OSError: the temporary file could not be written
SaveFails(edits, by, confirmed) ==
    /\ Acceptable(edits, by, confirmed)
    /\ Changed(Load(file), edits, by) # {}
    /\ Say("nothing")
    /\ UNCHANGED <<file, base, pico, bridge, report, calls, cmd, saves, faults,
                   claims, tampered>>

HandleSave ==
    \E q \in Requests :
        \/ RefuseSave(q.edits, q.by, q.confirmed)
        \/ SaveUnchanged(q.edits, q.by, q.confirmed)
        \/ Save(q.edits, q.by, q.confirmed)
        \/ SaveFails(q.edits, q.by, q.confirmed)

-----------------------------------------------------------------------------
(* Applying (hub._apply_setup, ros_source._call_service, commands.py)      *)

Idle == [status |-> "none", expected |-> {}, age |-> 0, stands |-> FALSE,
         seen |-> FALSE]

\* history: the pending commands whose geometry the bridge is using
Witness(c, g) ==
    [c EXCEPT !.seen = @ \/ (c.status = "pending" /\ Fingerprint(g) \in c.expected)]

CanPredict == Allowed /\ ~LoadFails(file) /\ Predicted(Load(file)) # {}

RefuseApply ==
    /\ ~CanPredict
    /\ Say("nothing")
    /\ UNCHANGED <<file, base, pico, bridge, report, calls, cmd, saves, faults,
                   claims, tampered>>

\* the last report says the digest is in use already: nothing is sent
ApplyAlready ==
    /\ CanPredict
    /\ \E r \in report : Fingerprint(r) \in Predicted(Load(file))
    /\ Say("already")
    /\ UNCHANGED <<file, base, pico, bridge, report, calls, cmd, saves, faults,
                   claims, tampered>>

\* The service is called without waiting for its answer; without a service the
\* command fails at once.
ApplySend(c) ==
    /\ cmd[c].status = "none"
    /\ CanPredict
    /\ \A r \in report : Fingerprint(r) \notin Predicted(Load(file))
    /\ LET issued == [Idle EXCEPT !.status = IF bridge.up THEN "pending" ELSE "failed",
                                  !.expected = Predicted(Load(file)),
                                  !.stands = TRUE]
       IN cmd' = [cmd EXCEPT ![c] = Witness(issued, bridge.geometry)]
    /\ calls' = IF bridge.up THEN calls + 1 ELSE calls
    /\ Say(IF bridge.up THEN "sent" ELSE "nothing")
    /\ UNCHANGED <<file, base, pico, bridge, report, saves, faults, claims, tampered>>

\* Mutant: confirmed by the file that was written.
ConfirmsFile(c) == Predicted(Load(file)) = c.expected

\* mounting_reloaded
Confirms(c) == \E r \in report : Fingerprint(r) \in c.expected

\* CommandManager.update on one command
Resolved(c) ==
    IF c.status # "pending" THEN c
    ELSE IF Confirms(c) THEN [c EXCEPT !.status = "confirmed"]
    ELSE IF c.age >= Patience THEN [c EXCEPT !.status = "failed"]
    ELSE [c EXCEPT !.age = @ + 1]

\* _update_commands, on every pass of the loop
Update ==
    /\ \E c \in Applies : cmd[c].status = "pending"
    /\ cmd' = [c \in Applies |-> Resolved(cmd[c])]
    /\ told' = Quiet
    /\ UNCHANGED <<file, base, pico, bridge, report, calls, saves, faults, claims,
                   tampered>>

-----------------------------------------------------------------------------
(* The bridge (omniscan_bridge_node.py)                                    *)

\* a file that cannot be used is refused, and what is in use stays in use
ReloadRejected == base = "bad" \/ OverlayFails(file)

\* _on_reload_mounting
Reload ==
    /\ bridge.up /\ calls > 0
    /\ calls' = calls - 1
    /\ bridge' = IF ReloadRejected THEN bridge
                 ELSE [up |-> TRUE, geometry |-> LoadMounting.geometry,
                       measured |-> LoadMounting.measured]
    /\ cmd' = [c \in Applies |-> Witness(cmd[c], bridge'.geometry)]
    /\ told' = Quiet
    /\ UNCHANGED <<file, base, pico, report, saves, faults, claims, tampered>>

\* __init__: at startup whatever could be read is used, errors or not
StartBridge ==
    /\ ~bridge.up
    /\ bridge' = [up |-> TRUE, geometry |-> LoadMounting.geometry,
                  measured |-> LoadMounting.measured]
    /\ cmd' = [c \in Applies |-> Witness(cmd[c], bridge'.geometry)]
    /\ told' = Quiet
    /\ UNCHANGED <<file, base, pico, report, calls, saves, faults, claims, tampered>>

\* _diagnostics: the node reports what it uses, not what the files say
InUse == bridge.geometry

\* mounting_state_from_keyvalues: the report as the backend keeps it
Report ==
    /\ bridge.up
    /\ report' = {InUse}
    /\ report' # report
    /\ told' = Quiet
    /\ UNCHANGED <<file, base, pico, bridge, calls, cmd, saves, faults, claims, tampered>>

\* _mounting_state: only the last message on /diagnostics is kept, whoever sent
\* it, and one of another node holds no mounting state.
OtherDiagnostics ==
    /\ report # {}
    /\ report' = {}
    /\ told' = Quiet
    /\ UNCHANGED <<file, base, pico, bridge, calls, cmd, saves, faults, claims, tampered>>

-----------------------------------------------------------------------------
(* What happens to all of them                                             *)

Fault == faults < MaxFaults /\ faults' = faults + 1 /\ told' = Quiet

BridgeDies ==
    /\ Fault
    /\ bridge.up
    /\ bridge' = [bridge EXCEPT !.up = FALSE]
    /\ calls' = 0
    /\ UNCHANGED <<file, base, pico, report, cmd, saves, claims, tampered>>

\* The file was renamed and not flushed: after a power cut it may be empty.
\* Both processes forget what they had in memory.
PowerCut ==
    /\ Fault
    /\ \E lost \in {FALSE, file.fresh} :
        /\ file' = IF lost THEN [kind |-> "empty", says |-> Blank, fresh |-> FALSE]
                   ELSE [file EXCEPT !.fresh = FALSE]
        /\ tampered' = (tampered \/ lost)
    /\ bridge' = [bridge EXCEPT !.up = FALSE]
    /\ report' = {}
    /\ calls' = 0
    /\ cmd' = [c \in Applies |-> IF cmd[c].status = "pending"
                                 THEN [cmd[c] EXCEPT !.status = "forgotten"] ELSE cmd[c]]
    /\ UNCHANGED <<base, pico, saves, claims>>

\* A stray character in the text, and its repair; the answers are still there.
HandBreak ==
    /\ Fault
    /\ \/ file.kind = "ok" /\ file' = [file EXCEPT !.kind = "broken"]
       \/ file.kind = "broken" /\ file' = [file EXCEPT !.kind = "ok"]
    /\ UNCHANGED <<base, pico, bridge, report, calls, cmd, saves, claims, tampered>>

\* An answer written by hand: no number, or a provenance nobody knows.
HandEdit ==
    /\ Fault
    /\ file.kind = "ok"
    /\ \E f \in Geometry, by \in {"entered", "mesured"} :
        file' = [file EXCEPT !.says[f] = [value |-> Junk, by |-> by, at |-> 0]]
    /\ tampered' = TRUE
    /\ cmd' = [c \in Applies |-> [cmd[c] EXCEPT !.stands = FALSE]]
    /\ UNCHANGED <<base, pico, bridge, report, calls, saves, claims>>

BaseEdit ==
    /\ Fault
    /\ base' = IF base = "ok" THEN "bad" ELSE "ok"
    /\ tampered' = TRUE
    /\ UNCHANGED <<file, pico, bridge, report, calls, cmd, saves, claims>>

PicoReports ==
    /\ pico' \in {"disarmed", "armed"} \ {pico}
    /\ told' = Quiet
    /\ UNCHANGED <<file, base, bridge, report, calls, cmd, saves, faults, claims,
                   tampered>>

-----------------------------------------------------------------------------
Init ==
    /\ file = [kind |-> "absent", says |-> Blank, fresh |-> FALSE]
    /\ base = "ok"
    /\ pico = "unknown"
    /\ bridge = [up |-> FALSE, geometry |-> Default, measured |-> FALSE]
    /\ report = {}
    /\ calls = 0
    /\ cmd = [c \in Applies |-> Idle]
    /\ told = Quiet
    /\ saves = 0 /\ faults = 0
    /\ claims = {}
    /\ tampered = FALSE

Next ==
    \/ HandleSave
    \/ RefuseApply \/ ApplyAlready \/ \E c \in Applies : ApplySend(c)
    \/ Update
    \/ Reload \/ StartBridge \/ Report \/ OtherDiagnostics
    \/ BridgeDies \/ PowerCut \/ HandBreak \/ HandEdit \/ BaseEdit \/ PicoReports

\* The executor of the bridge serves its requests, its timer reports, and the
\* loop of the backend turns.
Spec == Init /\ [][Next]_vars /\ WF_vars(Reload) /\ WF_vars(Report) /\ WF_vars(Update)

-----------------------------------------------------------------------------
\* The files can be used.
Usable == base = "ok" /\ ~OverlayFails(file)

Entries == [value : Values, by : Answered \cup {"default", "mesured"},
            at : 0..MaxSaves]
Files == [kind : {"absent", "ok", "broken", "empty"}, says : [Fields -> Entries],
          fresh : BOOLEAN]
Placements == [Geometry -> Numbers \cup Sides]
Commands == [status : {"none", "pending", "confirmed", "failed", "forgotten"},
             expected : SUBSET [Placed -> Values], age : 0..Patience,
             stands : BOOLEAN, seen : BOOLEAN]

\* Type correctness of the state: what is in use is made of numbers and sides,
\* whatever was written into the file by hand.
TypeOK ==
    /\ file \in Files
    /\ base \in {"ok", "bad"}
    /\ pico \in {"disarmed", "armed", "unknown"}
    /\ bridge \in [up : BOOLEAN, geometry : Placements, measured : BOOLEAN]
    /\ report \subseteq Placements /\ \A r, s \in report : r = s
    /\ calls \in Nat
    /\ cmd \in [Applies -> Commands]
    /\ told.what \in {"none", "nothing", "saved", "already", "sent"}
    /\ told.effects \subseteq Fields
    /\ saves \in 0..MaxSaves /\ faults \in 0..MaxFaults
    /\ claims \subseteq Fields \X Values /\ tampered \in BOOLEAN

\* Confirmed means that the bridge has used the geometry since the command was
\* given, and not that a file was written or a service called (commands.py,
\* mounting_reloaded).
ConfirmedIsLoaded == \A c \in Applies : cmd[c].status = "confirmed" => cmd[c].seen

\* The digest a pending command waits for is the one a reload would produce, as
\* long as nobody saves in between and no answer was taken away by other means
\* (setup_api.py, predicted_fingerprint: "exactly the merge the node will
\* perform"), although it is computed from a report that may be old.
PredictionComesTrue ==
    \A c \in Applies :
        cmd[c].status = "pending" /\ cmd[c].stands /\ ~tampered /\ Usable
            => Fingerprint(LoadMounting.geometry) \in cmd[c].expected

\* The bridge calls its geometry measured only if somebody has said so of every
\* number in use, in one file or the other (mounting.py, _apply_overlay), across
\* reloads that are refused and restarts on what could be read.
MeasuredIsEarned ==
    bridge.measured => \A f \in Placed :
        \/ <<f, bridge.geometry[f]>> \in claims
        \/ BaseMeasured /\ bridge.geometry[f] = Base[f]

=============================================================================
