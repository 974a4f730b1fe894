---------------------------- MODULE Setup_proofs ----------------------------
(***************************************************************************)
(* Proofs about Setup: type correctness, and the three claims of the setup *)
(* page: that a measured geometry was measured, that a confirmed apply was *)
(* in use, and that the digest a command waits for is the right one.  The  *)
(* first part holds the facts about the operators on files, profiles and   *)
(* geometries; each claim then has its own strengthening, and each is      *)
(* inductive together with TypeOK alone.                                   *)
(*                                                                         *)
(* The second half is about the node that the geometry is for: what        *)
(* SonarBridge counts of the pings, and that its parser loses no frame.    *)
(***************************************************************************)
EXTENDS Setup, SonarBridge, FiniteSetTheorems, TLAPS

-----------------------------------------------------------------------------
(* Operators                                                               *)

LEMMA FieldsFacts ==
    /\ Fields = Placed \cup {Side} \cup Live
    /\ Geometry \subseteq Fields /\ Placed \subseteq Geometry /\ Side \in Geometry
    /\ Numbers \subseteq Values /\ Sides \subseteq Values /\ Junk \in Values
    /\ \A f \in Placed : f # Side /\ Accepts(f) = Numbers
    /\ \A f \in Fields : Accepts(f) \subseteq Numbers \cup Sides
    /\ \A g \in {Base, Default} : g \in Placements
BY SetupAssumption DEF Fields, Geometry, Accepts, Values, Placements

LEMMA BlankIsSaid == Blank \in [Fields -> Entries] /\ Unanswered \in Entries
BY FieldsFacts, SetupAssumption DEF Blank, Unanswered, Entries, Answered, Values

LEMMA EntryKeeps ==
    ASSUME NEW e \in Entries
    PROVE  /\ Entry(e) \in Entries
           /\ Entry(e).value = e.value
           /\ e.by \in Answered => Entry(e) = e
           /\ e.by \notin Answered => Entry(e).by = "default" /\ Entry(e).by \notin Answered
BY DEF Entry, Entries, Answered

LEMMA LoadSays ==
    ASSUME NEW f \in Files
    PROVE  /\ Load(f) \in [Fields -> Entries]
           /\ f.kind = "ok" => \A n \in Fields : Load(f)[n] = Entry(f.says[n])
           /\ f.kind # "ok" => \A n \in Fields : Load(f)[n] = Unanswered
<1>1. CASE f.kind = "ok"
  <2>1. f.says \in [Fields -> Entries]  BY DEF Files
  <2>2. Load(f) = [n \in Fields |-> Entry(f.says[n])]  BY <1>1 DEF Load, FromDict
  <2>3. \A n \in Fields : Entry(f.says[n]) \in Entries  BY <2>1, EntryKeeps
  <2> QED  BY <1>1, <2>2, <2>3
<1>2. CASE f.kind # "ok"
  BY <1>2, BlankIsSaid DEF Load, Blank
<1> QED  BY <1>1, <1>2

LEMMA MergedPlaces ==
    ASSUME NEW p \in [Fields -> Entries], NEW g \in Placements
    PROVE  /\ Merged(p, g) \in Placements
           /\ \A f \in Geometry : Merged(p, g)[f] =
                IF p[f].by \in Answered /\ p[f].value \in Accepts(f)
                THEN p[f].value ELSE g[f]
BY FieldsFacts DEF Merged, Placements

LEMMA FingerprintType ==
    ASSUME NEW g \in Placements
    PROVE  /\ Fingerprint(g) \in [Placed -> Values]
           /\ \A h \in Placements :
                (\A f \in Placed : g[f] = h[f]) => Fingerprint(g) = Fingerprint(h)
BY FieldsFacts DEF Fingerprint, Placements

LEMMA LoadMountingType ==
    ASSUME file \in Files
    PROVE  LoadMounting \in [geometry : Placements, measured : BOOLEAN]
<1>1. LoadBase \in [geometry : Placements, measured : BOOLEAN]
  BY FieldsFacts, SetupAssumption DEF LoadBase
<1> DEFINE p == Load(file)
<1>2. p \in [Fields -> Entries]  BY LoadSays
<1>3. Merged(p, LoadBase.geometry) \in Placements  BY <1>1, <1>2, MergedPlaces
<1>4. Measured(p, LoadBase) \in BOOLEAN  BY DEF Measured
<1> QED  BY <1>1, <1>3, <1>4 DEF LoadMounting, Overlay

LEMMA PredictedType ==
    ASSUME file \in Files, report \subseteq Placements
    PROVE  Predicted(Load(file)) \subseteq [Placed -> Values]
BY LoadSays, MergedPlaces, FingerprintType DEF Predicted

LEMMA WitnessKeeps ==
    ASSUME NEW c \in Commands, NEW g
    PROVE  /\ Witness(c, g) \in Commands
           /\ Witness(c, g).status = c.status /\ Witness(c, g).expected = c.expected
           /\ Witness(c, g).stands = c.stands
           /\ c.seen => Witness(c, g).seen
           /\ c.status = "pending" /\ Fingerprint(g) \in c.expected => Witness(c, g).seen
<1>1. \A b \in BOOLEAN : [c EXCEPT !.seen = b] \in Commands
  BY DEF Commands
<1>2. (c.seen \/ (c.status = "pending" /\ Fingerprint(g) \in c.expected)) \in BOOLEAN
  OBVIOUS
<1>3. Witness(c, g) \in Commands  BY <1>1, <1>2 DEF Witness
<1>4. c \in [status : {"none", "pending", "confirmed", "failed", "forgotten"},
             expected : SUBSET [Placed -> Values], age : 0..Patience,
             stands : BOOLEAN, seen : BOOLEAN]
  BY DEF Commands
<1> QED  BY <1>3, <1>4 DEF Witness

LEMMA IdleType == Idle \in Commands
BY SetupAssumption DEF Idle, Commands

LEMMA IssuedType ==
    ASSUME NEW s \in {"pending", "failed"}, NEW E \in SUBSET [Placed -> Values]
    PROVE  LET issued == [Idle EXCEPT !.status = s, !.expected = E, !.stands = TRUE]
           IN /\ issued \in Commands
              /\ issued.status = s /\ issued.expected = E /\ issued.stands = TRUE
BY IdleType DEF Commands

LEMMA StandsKeeps ==
    ASSUME NEW c \in Commands
    PROVE  [c EXCEPT !.stands = FALSE] \in Commands
BY DEF Commands

LEMMA ForgottenKeeps ==
    ASSUME NEW c \in Commands
    PROVE  [c EXCEPT !.status = "forgotten"] \in Commands
BY DEF Commands

LEMMA ResolvedType ==
    ASSUME NEW c \in Commands
    PROVE  /\ Resolved(c) \in Commands
           /\ Resolved(c).expected = c.expected
           /\ Resolved(c).stands = c.stands /\ Resolved(c).seen = c.seen
           /\ Resolved(c).status = "pending" => c.status = "pending"
           /\ Resolved(c).status = "confirmed" =>
                c.status = "confirmed" \/ (c.status = "pending" /\ Confirms(c))
BY SetupAssumption DEF Resolved, Commands

LEMMA ChangedIsEdited ==
    ASSUME NEW q \in Requests, NEW p
    PROVE  Changed(p, q.edits, q.by) \subseteq DOMAIN q.edits
BY DEF Changed

LEMMA EditedType ==
    ASSUME NEW p \in [Fields -> Entries], NEW q \in Requests, NEW n \in 0..MaxSaves,
           ~BadEdit(q.edits, q.by)
    PROVE  /\ Edited(p, q.edits, q.by, n) \in [Fields -> Entries]
           /\ \A f \in Fields : Edited(p, q.edits, q.by, n)[f] =
                IF f \in Changed(p, q.edits, q.by)
                THEN FieldSet(q.edits[f], q.by, n) ELSE p[f]
           /\ \A f \in Changed(p, q.edits, q.by) : q.edits[f] \in Accepts(f)
           /\ q.by \in Answered
<1>1. DOMAIN q.edits \subseteq Fields  BY SetupAssumption DEF Fields, Geometry
<1>2. q.by \in Answered /\ \A f \in DOMAIN q.edits : q.edits[f] \in Accepts(f)
  BY DEF BadEdit
<1>3. \A f \in Changed(p, q.edits, q.by) : f \in Fields /\ q.edits[f] \in Accepts(f)
  BY <1>1, <1>2, ChangedIsEdited
<1>4. \A f \in Changed(p, q.edits, q.by) : FieldSet(q.edits[f], q.by, n) \in Entries
  BY <1>2, <1>3, FieldsFacts DEF FieldSet, Entries
<1>5. Edited(p, q.edits, q.by, n) = [f \in Fields |->
        IF f \in Changed(p, q.edits, q.by) THEN FieldSet(q.edits[f], q.by, n) ELSE p[f]]
  BY DEF Edited
<1> QED  BY <1>2, <1>3, <1>4, <1>5

-----------------------------------------------------------------------------
(* Type correctness                                                        *)

LEMMA TypeInit == ASSUME Init PROVE TypeOK
<1> USE DEF Init
<1>1. file \in Files /\ cmd \in [Applies -> Commands]
  BY BlankIsSaid, IdleType DEF Files
<1>2. bridge \in [up : BOOLEAN, geometry : Placements, measured : BOOLEAN]
  BY FieldsFacts
<1>3. saves \in 0..MaxSaves /\ faults \in 0..MaxFaults  BY SetupAssumption
<1>4. told.what = "none" /\ told.effects = {}  BY DEF Quiet
<1> QED  BY <1>1, <1>2, <1>3, <1>4 DEF TypeOK

LEMMA SaveTypes ==
    ASSUME TypeOK, NEW q \in Requests, Save(q.edits, q.by, q.confirmed)
    PROVE  TypeOK'
<1> DEFINE p == Load(file)
<1>1. p \in [Fields -> Entries]  BY LoadSays DEF TypeOK
<1>2. saves' \in 0..MaxSaves  BY SetupAssumption DEF TypeOK, Save
<1>3. ~BadEdit(q.edits, q.by)  BY DEF Save, Acceptable
<1>4. Edited(p, q.edits, q.by, saves') \in [Fields -> Entries]
  BY <1>1, <1>2, <1>3, EditedType
<1>5. file' \in Files  BY <1>4 DEF Save, Write, Files
<1>6. cmd' \in [Applies -> Commands]
  BY StandsKeeps DEF TypeOK, Save, Write
<1>7. DOMAIN q.edits \subseteq Fields  BY SetupAssumption DEF Fields, Geometry
<1>8. \A f \in DOMAIN q.edits : q.edits[f] \in Values
  <2>1. \A f \in DOMAIN q.edits : q.edits[f] \in Accepts(f)  BY <1>3 DEF BadEdit
  <2> QED  BY <2>1, <1>7, FieldsFacts
<1>9. claims' \subseteq Fields \X Values
  BY <1>7, <1>8 DEF TypeOK, Save, Write
<1>10. told'.what = "saved" /\ told'.effects \subseteq Fields
  BY <1>7, ChangedIsEdited DEF Save, PendingEffects
<1> QED  BY <1>2, <1>5, <1>6, <1>9, <1>10 DEF TypeOK, Save

LEMMA TypeStep == ASSUME TypeOK, [Next]_vars PROVE TypeOK'
<1>1. CASE HandleSave
  <2>1. PICK q \in Requests :
            \/ RefuseSave(q.edits, q.by, q.confirmed)
            \/ SaveUnchanged(q.edits, q.by, q.confirmed)
            \/ Save(q.edits, q.by, q.confirmed)
            \/ SaveFails(q.edits, q.by, q.confirmed)
    BY <1>1 DEF HandleSave
  <2>2. CASE Save(q.edits, q.by, q.confirmed)  BY <2>2, SaveTypes
  <2>3. CASE \/ RefuseSave(q.edits, q.by, q.confirmed)
             \/ SaveUnchanged(q.edits, q.by, q.confirmed)
             \/ SaveFails(q.edits, q.by, q.confirmed)
    BY <2>3 DEF TypeOK, RefuseSave, SaveUnchanged, SaveFails, Say, Quiet
  <2> QED  BY <2>1, <2>2, <2>3
<1>2. CASE RefuseApply \/ ApplyAlready
  BY <1>2 DEF TypeOK, RefuseApply, ApplyAlready, Say, Quiet
<1>3. ASSUME NEW c \in Applies, ApplySend(c) PROVE TypeOK'
  <2> DEFINE s == IF bridge.up THEN "pending" ELSE "failed"
             issued == [Idle EXCEPT !.status = s, !.expected = Predicted(Load(file)),
                                    !.stands = TRUE]
  <2>1. Predicted(Load(file)) \subseteq [Placed -> Values]
    BY PredictedType DEF TypeOK
  <2>2. issued \in Commands
    BY <2>1, IssuedType
  <2>3. cmd' = [cmd EXCEPT ![c] = Witness(issued, bridge.geometry)]
    BY <1>3 DEF ApplySend
  <2>4. cmd' \in [Applies -> Commands]
    <3> HIDE DEF issued
    <3> QED  BY <2>2, <2>3, WitnessKeeps DEF TypeOK
  <2>5. calls' \in Nat  BY <1>3 DEF ApplySend, TypeOK
  <2> QED  BY <1>3, <2>4, <2>5 DEF TypeOK, ApplySend, Say, Quiet
<1>4. CASE Update
  <2>1. cmd' \in [Applies -> Commands]  BY <1>4, ResolvedType DEF Update, TypeOK
  <2> QED  BY <1>4, <2>1 DEF Update, TypeOK, Quiet
<1>5. CASE Reload
  <2>1. bridge' \in [up : BOOLEAN, geometry : Placements, measured : BOOLEAN]
    BY <1>5, LoadMountingType DEF Reload, TypeOK
  <2>2. cmd' \in [Applies -> Commands]  BY <1>5, WitnessKeeps DEF Reload, TypeOK
  <2>3. calls' \in Nat  BY <1>5 DEF Reload, TypeOK
  <2> QED  BY <1>5, <2>1, <2>2, <2>3 DEF Reload, TypeOK, Quiet
<1>6. CASE StartBridge
  <2>1. bridge' \in [up : BOOLEAN, geometry : Placements, measured : BOOLEAN]
    BY <1>6, LoadMountingType DEF StartBridge, TypeOK
  <2>2. cmd' \in [Applies -> Commands]  BY <1>6, WitnessKeeps DEF StartBridge, TypeOK
  <2> QED  BY <1>6, <2>1, <2>2 DEF StartBridge, TypeOK, Quiet
<1>7. CASE Report \/ OtherDiagnostics
  BY <1>7 DEF Report, InUse, OtherDiagnostics, TypeOK, Quiet
<1>8. CASE BridgeDies
  <2>1. bridge' \in [up : BOOLEAN, geometry : Placements, measured : BOOLEAN]
    BY <1>8 DEF BridgeDies, TypeOK
  <2>2. faults' \in 0..MaxFaults  BY <1>8, SetupAssumption DEF BridgeDies, Fault, TypeOK
  <2> QED  BY <1>8, <2>1, <2>2 DEF BridgeDies, Fault, TypeOK, Quiet
<1>9. CASE PowerCut
  <2>1. file' \in Files
    <3>1. [kind |-> "empty", says |-> Blank, fresh |-> FALSE] \in Files
      BY BlankIsSaid DEF Files
    <3>2. [file EXCEPT !.fresh = FALSE] \in Files  BY DEF TypeOK, Files
    <3> QED  BY <1>9, <3>1, <3>2 DEF PowerCut
  <2>2. cmd' \in [Applies -> Commands]  BY <1>9, ForgottenKeeps DEF PowerCut, TypeOK
  <2>3. bridge' \in [up : BOOLEAN, geometry : Placements, measured : BOOLEAN]
    BY <1>9 DEF PowerCut, TypeOK
  <2>4. tampered' \in BOOLEAN
    BY <1>9 DEF PowerCut, TypeOK, Files
  <2> QED  BY <1>9, <2>1, <2>2, <2>3, <2>4, SetupAssumption
           DEF PowerCut, Fault, TypeOK, Quiet
<1>10. CASE HandBreak
  <2>1. file' \in Files  BY <1>10 DEF HandBreak, TypeOK, Files
  <2> QED  BY <1>10, <2>1, SetupAssumption DEF HandBreak, Fault, TypeOK, Quiet
<1>11. CASE HandEdit
  <2>1. PICK f \in Geometry, by \in {"entered", "mesured"} :
            file' = [file EXCEPT !.says[f] = [value |-> Junk, by |-> by, at |-> 0]]
    BY <1>11 DEF HandEdit
  <2>2. [value |-> Junk, by |-> by, at |-> 0] \in Entries
    BY FieldsFacts, SetupAssumption DEF Entries, Answered
  <2>3. file' \in Files  BY <2>1, <2>2, FieldsFacts DEF TypeOK, Files
  <2>4. cmd' \in [Applies -> Commands]  BY <1>11, StandsKeeps DEF HandEdit, TypeOK
  <2> QED  BY <1>11, <2>3, <2>4, SetupAssumption DEF HandEdit, Fault, TypeOK, Quiet
<1>12. CASE BaseEdit
  BY <1>12, SetupAssumption DEF BaseEdit, Fault, TypeOK, Quiet
<1>13. CASE PicoReports
  BY <1>13 DEF PicoReports, TypeOK, Quiet
<1>14. CASE UNCHANGED vars
  BY <1>14 DEF vars, TypeOK
<1> QED  BY <1>1, <1>2, <1>3, <1>4, <1>5, <1>6, <1>7, <1>8, <1>9, <1>10, <1>11,
            <1>12, <1>13, <1>14 DEF Next

\* The state stays well typed: whatever a hand writes into the file, what the
\* bridge uses and reports is made of numbers and of sides (setup_profile.py,
\* _coerce; mounting.py, replace_mounting).
THEOREM TypeCorrect == Spec => []TypeOK
BY TypeInit, TypeStep, PTL DEF Spec

-----------------------------------------------------------------------------
(* Whose flag is it: MeasuredIsEarned                                      *)

\* What the text says was measured, somebody said so.
ClaimsKept ==
    \A f \in Fields :
        file.says[f].by = "measured" => <<f, file.says[f].value>> \in claims

EarnedIInv == TypeOK /\ ClaimsKept /\ MeasuredIsEarned

LEMMA LoadMountingIsEarned ==
    ASSUME TypeOK, ClaimsKept, LoadMounting.measured, NEW f \in Placed
    PROVE  \/ <<f, LoadMounting.geometry[f]>> \in claims
           \/ BaseMeasured /\ LoadMounting.geometry[f] = Base[f]
<1> DEFINE p == Load(file)
<1>1. f \in Fields /\ f \in Geometry /\ Accepts(f) = Numbers  BY FieldsFacts
<1>2. LoadBase.measured => BaseMeasured /\ LoadBase.geometry = Base
  BY DEF LoadBase
<1>3. CASE OverlayFails(file) \/ \A n \in Geometry : p[n].by \notin Answered
  BY <1>2, <1>3 DEF LoadMounting, Overlay
<1>4. CASE ~(OverlayFails(file) \/ \A n \in Geometry : p[n].by \notin Answered)
  <2>1. LoadMounting = [geometry |-> Merged(p, LoadBase.geometry),
                        measured |-> Measured(p, LoadBase)]
    BY <1>4 DEF LoadMounting, Overlay
  <2>2. Measured(p, LoadBase)  BY <2>1
  <2>3. LoadBase.geometry \in Placements  BY FieldsFacts DEF LoadBase
  <2>4. p \in [Fields -> Entries]  BY LoadSays DEF TypeOK
  <2>5. LoadMounting.geometry[f] =
            IF p[f].by \in Answered /\ p[f].value \in Accepts(f)
            THEN p[f].value ELSE LoadBase.geometry[f]
    BY <1>1, <2>1, <2>3, <2>4, MergedPlaces
  <2>6. CASE p[f].by = "measured"
    <3>1. file.kind = "ok"  BY <1>1, <2>6, LoadSays DEF TypeOK, Unanswered
    <3>2. p[f] = Entry(file.says[f]) /\ file.says[f] \in Entries
      BY <1>1, <3>1, LoadSays DEF TypeOK, Files
    <3>3. p[f] = file.says[f]  BY <2>6, <3>2, EntryKeeps DEF Answered
    <3>4. <<f, p[f].value>> \in claims  BY <1>1, <2>6, <3>3 DEF ClaimsKept
    <3>5. ~NotANumber(p)  BY <1>4, <3>1 DEF OverlayFails
    <3>6. p[f].value \in Accepts(f)  BY <1>1, <2>6, <3>5 DEF NotANumber, Answered
    <3> QED  BY <2>5, <2>6, <3>4, <3>6 DEF Answered
  <2>7. CASE p[f].by # "measured"
    <3>1. p[f].by \notin Answered /\ LoadBase.measured  BY <2>2, <2>7 DEF Measured
    <3> QED  BY <1>2, <2>5, <3>1
  <2> QED  BY <2>6, <2>7
<1> QED  BY <1>3, <1>4

LEMMA EarnedBySave ==
    ASSUME EarnedIInv, NEW q \in Requests, Save(q.edits, q.by, q.confirmed)
    PROVE  ClaimsKept' /\ MeasuredIsEarned'
<1> DEFINE p == Load(file)
           ch == Changed(p, q.edits, q.by)
<1>1. TypeOK  BY DEF EarnedIInv
<1>2. p \in [Fields -> Entries]  BY <1>1, LoadSays DEF TypeOK
<1>3. saves' \in 0..MaxSaves  BY <1>1, SetupAssumption DEF TypeOK, Save
<1>4. ~BadEdit(q.edits, q.by)  BY DEF Save, Acceptable
<1>5. \A f \in Fields : file'.says[f] =
        IF f \in ch THEN FieldSet(q.edits[f], q.by, saves') ELSE p[f]
  BY <1>2, <1>3, <1>4, EditedType DEF Save, Write
<1>6. claims \subseteq claims'
      /\ (q.by = "measured" => \A f \in DOMAIN q.edits : <<f, q.edits[f]>> \in claims')
  BY DEF Save, Write
<1>7. ASSUME NEW f \in Fields, file'.says[f].by = "measured"
      PROVE  <<f, file'.says[f].value>> \in claims'
  <2>1. CASE f \in ch
    <3>1. file'.says[f] = FieldSet(q.edits[f], q.by, saves')  BY <1>5, <2>1
    <3>2. f \in DOMAIN q.edits  BY <2>1, ChangedIsEdited
    <3> QED  BY <1>6, <1>7, <3>1, <3>2 DEF FieldSet
  <2>2. CASE f \notin ch
    <3>1. p[f].by = "measured" /\ file'.says[f] = p[f]  BY <1>5, <1>7, <2>2
    <3>2. file.kind = "ok"  BY <1>1, <3>1, LoadSays DEF TypeOK, Unanswered
    <3>3. p[f] = Entry(file.says[f]) /\ file.says[f] \in Entries
      BY <1>1, <3>2, LoadSays DEF TypeOK, Files
    <3>4. p[f] = file.says[f]  BY <3>1, <3>3, EntryKeeps DEF Answered
    <3> QED  BY <1>6, <3>1, <3>4 DEF EarnedIInv, ClaimsKept
  <2> QED  BY <2>1, <2>2
<1>8. MeasuredIsEarned'
  BY <1>6 DEF EarnedIInv, MeasuredIsEarned, Save
<1> QED  BY <1>7, <1>8 DEF ClaimsKept

LEMMA EarnedStep == ASSUME EarnedIInv, [Next]_vars PROVE ClaimsKept' /\ MeasuredIsEarned'
<1> USE DEF EarnedIInv
<1>1. CASE HandleSave
  <2>1. PICK q \in Requests :
            \/ RefuseSave(q.edits, q.by, q.confirmed)
            \/ SaveUnchanged(q.edits, q.by, q.confirmed)
            \/ Save(q.edits, q.by, q.confirmed)
            \/ SaveFails(q.edits, q.by, q.confirmed)
    BY <1>1 DEF HandleSave
  <2>2. CASE Save(q.edits, q.by, q.confirmed)  BY <2>2, EarnedBySave
  <2>3. CASE UNCHANGED <<file, bridge, claims>>
    BY <2>3 DEF ClaimsKept, MeasuredIsEarned
  <2> QED  BY <2>1, <2>2, <2>3 DEF RefuseSave, SaveUnchanged, SaveFails
<1>2. CASE Reload \/ StartBridge
  <2>1. file' = file /\ claims' = claims  BY <1>2 DEF Reload, StartBridge
  <2>2. \/ bridge' = bridge
        \/ /\ bridge'.measured = LoadMounting.measured
           /\ bridge'.geometry = LoadMounting.geometry
    BY <1>2 DEF Reload, StartBridge
  <2>3. ClaimsKept'  BY <2>1 DEF ClaimsKept
  <2>4. MeasuredIsEarned'
    BY <2>1, <2>2, LoadMountingIsEarned DEF MeasuredIsEarned
  <2> QED  BY <2>3, <2>4
<1>3. CASE BridgeDies
  <2>1. bridge'.measured = bridge.measured /\ bridge'.geometry = bridge.geometry
    BY <1>3 DEF BridgeDies, TypeOK
  <2> QED  BY <1>3, <2>1 DEF BridgeDies, ClaimsKept, MeasuredIsEarned
<1>4. CASE PowerCut
  <2>1. bridge'.measured = bridge.measured /\ bridge'.geometry = bridge.geometry
    BY <1>4 DEF PowerCut, TypeOK
  <2>2. \A f \in Fields : file'.says[f] = file.says[f] \/ file'.says[f].by = "default"
    BY <1>4 DEF PowerCut, TypeOK, Files, Blank, Unanswered
  <2> QED  BY <1>4, <2>1, <2>2 DEF PowerCut, ClaimsKept, MeasuredIsEarned
<1>5. CASE HandBreak
  <2>1. file'.says = file.says  BY <1>5 DEF HandBreak, TypeOK, Files
  <2> QED  BY <1>5, <2>1 DEF HandBreak, ClaimsKept, MeasuredIsEarned
<1>6. CASE HandEdit
  <2>1. \A f \in Fields :
            file'.says[f] = file.says[f] \/ file'.says[f].by \in {"entered", "mesured"}
    BY <1>6 DEF HandEdit, TypeOK, Files
  <2> QED  BY <1>6, <2>1 DEF HandEdit, ClaimsKept, MeasuredIsEarned
<1>7. CASE UNCHANGED <<file, bridge, claims>>
  BY <1>7 DEF ClaimsKept, MeasuredIsEarned
<1> QED  BY <1>1, <1>2, <1>3, <1>4, <1>5, <1>6, <1>7
         DEF Next, vars, RefuseApply, ApplyAlready, ApplySend, Update, Report,
             OtherDiagnostics, BaseEdit, PicoReports

\* The flag `measured` is earned (mounting.py, _apply_overlay), for every set of
\* fields, every mounting.yaml and every number of saves, faults and commands.
THEOREM MeasuredHolds == Spec => []MeasuredIsEarned
<1>1. ASSUME Init PROVE EarnedIInv
  <2>1. TypeOK  BY <1>1, TypeInit
  <2>2. \A f \in Fields : file.says[f].by = "default"
    BY <1>1 DEF Init, Blank, Unanswered
  <2>3. ~bridge.measured  BY <1>1 DEF Init
  <2> QED  BY <2>1, <2>2, <2>3 DEF EarnedIInv, ClaimsKept, MeasuredIsEarned
<1>2. EarnedIInv /\ [Next]_vars => EarnedIInv'
  BY TypeStep, EarnedStep DEF EarnedIInv
<1>3. EarnedIInv => MeasuredIsEarned  BY DEF EarnedIInv
<1> QED  BY <1>1, <1>2, <1>3, PTL DEF Spec

-----------------------------------------------------------------------------
(* What confirmed means: ConfirmedIsLoaded                                 *)

\* A pending command has seen its geometry in use, or neither the last report
\* nor the running bridge has it.
PendingIsUnseen ==
    \A c \in Applies : cmd[c].status = "pending" =>
        \/ cmd[c].seen
        \/ /\ \A r \in report : Fingerprint(r) \notin cmd[c].expected
           /\ bridge.up => Fingerprint(bridge.geometry) \notin cmd[c].expected

SeenIInv == TypeOK /\ PendingIsUnseen /\ ConfirmedIsLoaded

\* A step of the bridge that may change what it uses, and witnesses it.
LEMMA SeenByWitness ==
    ASSUME SeenIInv, report' = report,
           cmd' = [c \in Applies |-> Witness(cmd[c], bridge'.geometry)]
    PROVE  PendingIsUnseen' /\ ConfirmedIsLoaded'
<1>1. ASSUME NEW c \in Applies
      PROVE  /\ cmd[c] \in Commands
             /\ cmd'[c].status = cmd[c].status /\ cmd'[c].expected = cmd[c].expected
             /\ cmd[c].seen => cmd'[c].seen
             /\ cmd[c].status = "pending"
                 /\ Fingerprint(bridge'.geometry) \in cmd[c].expected => cmd'[c].seen
  BY WitnessKeeps DEF SeenIInv, TypeOK
<1>2. PendingIsUnseen'  BY <1>1 DEF SeenIInv, PendingIsUnseen
<1>3. ConfirmedIsLoaded'  BY <1>1 DEF SeenIInv, ConfirmedIsLoaded
<1> QED  BY <1>2, <1>3

\* A step that gives no command a status or a digest, and brings no report and
\* no geometry of the bridge.
LEMMA SeenByOthers ==
    ASSUME SeenIInv,
           report' = report \/ report' = {},
           bridge'.up => bridge.up /\ bridge'.geometry = bridge.geometry,
           \A c \in Applies :
              /\ cmd'[c].status = cmd[c].status \/ cmd'[c].status \in {"forgotten"}
              /\ cmd'[c].expected = cmd[c].expected
              /\ cmd'[c].seen = cmd[c].seen
    PROVE  PendingIsUnseen' /\ ConfirmedIsLoaded'
<1>1. PendingIsUnseen'  BY DEF SeenIInv, PendingIsUnseen
<1>2. ConfirmedIsLoaded'  BY DEF SeenIInv, ConfirmedIsLoaded
<1> QED  BY <1>1, <1>2

LEMMA SeenStep == ASSUME SeenIInv, [Next]_vars PROVE PendingIsUnseen' /\ ConfirmedIsLoaded'
<1> USE DEF SeenIInv
<1>1. ASSUME NEW c \in Applies, ApplySend(c)
      PROVE  PendingIsUnseen' /\ ConfirmedIsLoaded'
  <2> DEFINE s == IF bridge.up THEN "pending" ELSE "failed"
             issued == [Idle EXCEPT !.status = s, !.expected = Predicted(Load(file)),
                                    !.stands = TRUE]
  <2>1. Predicted(Load(file)) \subseteq [Placed -> Values]
    BY PredictedType DEF TypeOK
  <2>2. /\ issued \in Commands /\ issued.status = s
        /\ issued.expected = Predicted(Load(file))
    BY <2>1, IssuedType, ZenonT(30)
  <2>3. cmd' = [cmd EXCEPT ![c] = Witness(issued, bridge.geometry)]
    BY <1>1 DEF ApplySend
  <2>4. /\ cmd'[c].status = s /\ cmd'[c].expected = Predicted(Load(file))
        /\ s = "pending" /\ Fingerprint(bridge.geometry) \in Predicted(Load(file))
            => cmd'[c].seen
    <3> HIDE DEF issued, s
    <3> QED  BY <2>2, <2>3, WitnessKeeps DEF TypeOK
  <2>5. \A d \in Applies \ {c} : cmd'[d] = cmd[d]  BY <2>3 DEF TypeOK
  <2>6. \A r \in report : Fingerprint(r) \notin Predicted(Load(file))
    BY <1>1 DEF ApplySend
  <2>7. report' = report /\ bridge' = bridge  BY <1>1 DEF ApplySend
  <2>8. PendingIsUnseen'  BY <2>4, <2>5, <2>6, <2>7 DEF PendingIsUnseen
  <2>9. ConfirmedIsLoaded'  BY <2>4, <2>5 DEF ConfirmedIsLoaded
  <2> QED  BY <2>8, <2>9
<1>2. CASE Update
  <2>1. report' = report /\ bridge' = bridge  BY <1>2 DEF Update
  <2>2. \A c \in Applies :
          /\ cmd'[c].expected = cmd[c].expected /\ cmd'[c].seen = cmd[c].seen
          /\ cmd'[c].status = "pending" => cmd[c].status = "pending"
          /\ cmd'[c].status = "confirmed" =>
                cmd[c].status = "confirmed"
                \/ (cmd[c].status = "pending" /\ Confirms(cmd[c]))
    BY <1>2, ResolvedType DEF Update, TypeOK
  <2>3. PendingIsUnseen'  BY <2>1, <2>2 DEF PendingIsUnseen
  <2>4. ConfirmedIsLoaded'
    BY <2>2 DEF ConfirmedIsLoaded, PendingIsUnseen, Confirms
  <2> QED  BY <2>3, <2>4
<1>3. CASE Reload \/ StartBridge
  BY <1>3, SeenByWitness DEF Reload, StartBridge
<1>4. CASE Report
  BY <1>4 DEF Report, InUse, PendingIsUnseen, ConfirmedIsLoaded
<1>5. CASE HandleSave
  <2>1. report' = report /\ bridge' = bridge
        /\ (cmd' = cmd \/ cmd' = [c \in Applies |-> [cmd[c] EXCEPT !.stands = FALSE]])
    BY <1>5 DEF HandleSave, RefuseSave, SaveUnchanged, Save, SaveFails, Write
  <2>2. \A c \in Applies :
            /\ cmd'[c].status = cmd[c].status
            /\ cmd'[c].expected = cmd[c].expected
            /\ cmd'[c].seen = cmd[c].seen
    BY <2>1 DEF TypeOK, Commands
  <2> QED  BY <2>1, <2>2, SeenByOthers
<1>6. CASE HandEdit
  <2>1. report' = report /\ bridge' = bridge
        /\ cmd' = [c \in Applies |-> [cmd[c] EXCEPT !.stands = FALSE]]
    BY <1>6 DEF HandEdit
  <2>2. \A c \in Applies :
            /\ cmd'[c].status = cmd[c].status
            /\ cmd'[c].expected = cmd[c].expected
            /\ cmd'[c].seen = cmd[c].seen
    BY <2>1 DEF TypeOK, Commands
  <2> QED  BY <2>1, <2>2, SeenByOthers
<1>7. CASE PowerCut
  <2>1. report' = {} /\ ~bridge'.up  BY <1>7 DEF PowerCut, TypeOK
  <2>2. \A c \in Applies :
            /\ cmd'[c].status = cmd[c].status \/ cmd'[c].status = "forgotten"
            /\ cmd'[c].expected = cmd[c].expected
            /\ cmd'[c].seen = cmd[c].seen
    BY <1>7 DEF PowerCut, TypeOK, Commands
  <2> QED  BY <2>1, <2>2, SeenByOthers
<1>8. CASE BridgeDies
  <2>1. ~bridge'.up /\ report' = report /\ cmd' = cmd  BY <1>8 DEF BridgeDies, TypeOK
  <2> QED  BY <2>1, SeenByOthers
<1>9. CASE OtherDiagnostics
  BY <1>9, SeenByOthers DEF OtherDiagnostics
<1>10. CASE UNCHANGED <<report, bridge, cmd>>
  BY <1>10, SeenByOthers
<1> QED  BY <1>1, <1>2, <1>3, <1>4, <1>5, <1>6, <1>7, <1>8, <1>9, <1>10
         DEF Next, vars, RefuseApply, ApplyAlready, HandBreak, BaseEdit, PicoReports

\* A confirmed apply was in use since it was given (commands.py,
\* mounting_reloaded): a report can only confirm what the bridge has used, and
\* a report that is older than the command was looked at when it was given.
THEOREM ConfirmedHolds == Spec => []ConfirmedIsLoaded
<1>1. ASSUME Init PROVE SeenIInv
  <2>1. TypeOK  BY <1>1, TypeInit
  <2>2. \A c \in Applies : cmd[c].status = "none"  BY <1>1 DEF Init, Idle
  <2> QED  BY <2>1, <2>2 DEF SeenIInv, PendingIsUnseen, ConfirmedIsLoaded
<1>2. SeenIInv /\ [Next]_vars => SeenIInv'
  BY TypeStep, SeenStep DEF SeenIInv
<1>3. SeenIInv => ConfirmedIsLoaded  BY DEF SeenIInv
<1> QED  BY <1>1, <1>2, <1>3, PTL DEF Spec

-----------------------------------------------------------------------------
(* What the backend predicts: PredictionComesTrue                          *)

\* A geometry agrees with mounting.yaml wherever the text gives no answer.
FromBase(g) ==
    \A f \in Placed : file.says[f].by \notin Answered => g[f] = Base[f]

\* As long as no answer is taken away: mounting.yaml can be read, the text gives
\* no answer that is not one, every geometry in use or reported agrees with
\* mounting.yaml where the text is silent, and a command that still stands
\* expects the text laid over mounting.yaml.
Untampered ==
    /\ base = "ok"
    /\ file.kind # "empty"
    /\ file.kind = "absent" => \A f \in Fields : file.says[f].by \notin Answered
    /\ \A f \in Fields :
        file.says[f].by \in Answered => file.says[f].value \in Accepts(f)
    /\ \A r \in report : FromBase(r)
    /\ bridge.up => FromBase(bridge.geometry)
    /\ \A c \in Applies : cmd[c].status = "pending" /\ cmd[c].stands
        => Fingerprint(Merged(file.says, Base)) \in cmd[c].expected
PredictionIInv == TypeOK /\ (~tampered => Untampered)

\* What the backend loads is what the text says.
LEMMA LoadIsSaid ==
    ASSUME TypeOK, Untampered, ~LoadFails(file), NEW f \in Fields
    PROVE  /\ Load(file)[f].by \in Answered <=> file.says[f].by \in Answered
           /\ file.says[f].by \in Answered => Load(file)[f].value = file.says[f].value
<1>1. CASE file.kind = "ok"
  <2>1. file.says[f] \in Entries /\ Load(file)[f] = Entry(file.says[f])
    BY <1>1, LoadSays DEF TypeOK, Files
  <2> QED  BY <2>1, EntryKeeps
<1>2. CASE file.kind = "absent"
  <2>1. Load(file)[f] = Unanswered  BY <1>2, LoadSays DEF TypeOK
  <2>2. file.says[f].by \notin Answered  BY <1>2 DEF Untampered
  <2>3. Unanswered.by \notin Answered  BY DEF Unanswered, Answered
  <2> QED  BY <2>1, <2>2, <2>3
<1> QED  BY <1>1, <1>2 DEF Untampered, LoadFails, TypeOK, Files

LEMMA LoadMountingFromBase ==
    ASSUME TypeOK, Untampered
    PROVE  /\ FromBase(LoadMounting.geometry)
           /\ ~OverlayFails(file) =>
                Fingerprint(LoadMounting.geometry) = Fingerprint(Merged(file.says, Base))
<1> DEFINE p == Load(file)
<1>1. LoadBase.geometry = Base /\ Base \in Placements
  BY FieldsFacts DEF LoadBase, Untampered
<1>2. p \in [Fields -> Entries] /\ file.says \in [Fields -> Entries]
  BY LoadSays DEF TypeOK, Files
<1>3. /\ Merged(p, Base) \in Placements /\ Merged(file.says, Base) \in Placements
      /\ \A f \in Placed : Merged(p, Base)[f] =
            IF p[f].by \in Answered /\ p[f].value \in Accepts(f)
            THEN p[f].value ELSE Base[f]
      /\ \A f \in Placed : Merged(file.says, Base)[f] =
            IF file.says[f].by \in Answered /\ file.says[f].value \in Accepts(f)
            THEN file.says[f].value ELSE Base[f]
  <2> HIDE DEF p
  <2>1. \A f \in Placed : f \in Geometry  BY FieldsFacts
  <2>2. \A s \in [Fields -> Entries] :
            /\ Merged(s, Base) \in Placements
            /\ \A f \in Placed : Merged(s, Base)[f] =
                  IF s[f].by \in Answered /\ s[f].value \in Accepts(f)
                  THEN s[f].value ELSE Base[f]
    BY <1>1, <2>1, MergedPlaces
  <2> QED  BY <1>2, <2>2
<1>4. CASE OverlayFails(file)
  BY <1>1, <1>4 DEF LoadMounting, Overlay, FromBase
<1>5. CASE ~OverlayFails(file)
  <2>1. \A f \in Fields :
            /\ p[f].by \in Answered <=> file.says[f].by \in Answered
            /\ file.says[f].by \in Answered => p[f].value = file.says[f].value
    BY <1>5, LoadIsSaid DEF OverlayFails, LoadFails
  <2>2. CASE \A n \in Geometry : p[n].by \notin Answered
    <3>1. LoadMounting.geometry = Base
      BY <1>1, <2>2 DEF LoadMounting, Overlay
    <3>2. \A f \in Placed : Merged(file.says, Base)[f] = Base[f]
      BY <1>3, <2>1, <2>2, FieldsFacts
    <3> QED  BY <1>1, <1>3, <3>1, <3>2, FingerprintType DEF FromBase
  <2>3. CASE ~\A n \in Geometry : p[n].by \notin Answered
    <3>1. LoadMounting.geometry = Merged(p, Base)
      BY <1>1, <1>5, <2>3 DEF LoadMounting, Overlay
    <3>2. \A f \in Placed : Merged(p, Base)[f] = Merged(file.says, Base)[f]
      BY <1>3, <2>1, FieldsFacts
    <3>3. FromBase(Merged(p, Base))  BY <1>3, <2>1, FieldsFacts DEF FromBase
    <3> QED  BY <1>3, <3>1, <3>2, <3>3, FingerprintType
  <2> QED  BY <2>2, <2>3
<1> QED  BY <1>4, <1>5

\* The backend knows a report instead of mounting.yaml, and predicts the same.
LEMMA PredictedIsSaid ==
    ASSUME TypeOK, Untampered, ~LoadFails(file), Predicted(Load(file)) # {}
    PROVE  Fingerprint(Merged(file.says, Base)) \in Predicted(Load(file))
<1> DEFINE p == Load(file)
<1>1. PICK r \in report : ~NotANumber(p)  BY DEF Predicted
<1>2. Fingerprint(Merged(p, r)) \in Predicted(p)  BY <1>1 DEF Predicted
<1>3. r \in Placements /\ FromBase(r) /\ Base \in Placements
  BY <1>1, FieldsFacts DEF TypeOK, Untampered
<1>4. p \in [Fields -> Entries] /\ file.says \in [Fields -> Entries]
  BY LoadSays DEF TypeOK, Files
<1>5. ASSUME NEW f \in Placed PROVE Merged(p, r)[f] = Merged(file.says, Base)[f]
  <2>1. f \in Fields /\ f \in Geometry  BY FieldsFacts
  <2>2. /\ p[f].by \in Answered <=> file.says[f].by \in Answered
        /\ file.says[f].by \in Answered => p[f].value = file.says[f].value
    BY <2>1, LoadIsSaid
  <2>3. file.says[f].by \in Answered => file.says[f].value \in Accepts(f)
    BY <2>1 DEF Untampered
  <2>4. file.says[f].by \notin Answered => r[f] = Base[f]  BY <1>3 DEF FromBase
  <2>5. Merged(p, r)[f] = IF p[f].by \in Answered /\ p[f].value \in Accepts(f)
                          THEN p[f].value ELSE r[f]
    BY <1>3, <1>4, <2>1, MergedPlaces
  <2>6. Merged(file.says, Base)[f] =
            IF file.says[f].by \in Answered /\ file.says[f].value \in Accepts(f)
            THEN file.says[f].value ELSE Base[f]
    BY <1>3, <1>4, <2>1, MergedPlaces
  <2> QED  BY <2>2, <2>3, <2>4, <2>5, <2>6
<1>6. Merged(p, r) \in Placements /\ Merged(file.says, Base) \in Placements
  BY <1>3, <1>4, MergedPlaces
<1>7. Fingerprint(Merged(p, r)) = Fingerprint(Merged(file.says, Base))
  BY <1>5, <1>6, FingerprintType
<1> QED  BY <1>2, <1>7

LEMMA UntamperedBySave ==
    ASSUME TypeOK, Untampered, NEW q \in Requests, Save(q.edits, q.by, q.confirmed)
    PROVE  Untampered'
<1> DEFINE p == Load(file)
           ch == Changed(p, q.edits, q.by)
<1>1. ~LoadFails(file) /\ ~BadEdit(q.edits, q.by)  BY DEF Save, Acceptable
<1>2. saves' \in 0..MaxSaves  BY SetupAssumption DEF TypeOK, Save
<1>3. p \in [Fields -> Entries]  BY LoadSays DEF TypeOK
<1>4. /\ \A f \in Fields : file'.says[f] =
            IF f \in ch THEN FieldSet(q.edits[f], q.by, saves') ELSE p[f]
      /\ \A f \in ch : q.edits[f] \in Accepts(f)
      /\ q.by \in Answered
  BY <1>1, <1>2, <1>3, EditedType DEF Save, Write
<1>5. ASSUME NEW f \in Fields
      PROVE  /\ file'.says[f].by \notin Answered => file.says[f].by \notin Answered
             /\ file'.says[f].by \in Answered => file'.says[f].value \in Accepts(f)
  <2>1. CASE f \in ch
    <3>1. file'.says[f] = FieldSet(q.edits[f], q.by, saves')  BY <1>4, <2>1
    <3>2. file'.says[f].by = q.by /\ file'.says[f].value = q.edits[f]
      BY <3>1 DEF FieldSet
    <3> HIDE DEF ch
    <3> QED  BY <1>4, <2>1, <3>2
  <2>2. CASE f \notin ch
    <3>1. file'.says[f] = p[f]  BY <1>4, <2>2
    <3>2. /\ p[f].by \in Answered <=> file.says[f].by \in Answered
          /\ file.says[f].by \in Answered => p[f].value = file.says[f].value
      BY <1>1, LoadIsSaid
    <3> QED  BY <3>1, <3>2 DEF Untampered
  <2> QED  BY <2>1, <2>2
<1>6. \A g : FromBase(g) => FromBase(g)'
  <2> SUFFICES ASSUME NEW g, FromBase(g), NEW f \in Placed, file'.says[f].by \notin Answered
               PROVE  g[f] = Base[f]
    BY DEF FromBase
  <2> QED  BY <1>5, FieldsFacts DEF FromBase
<1>7. base' = base /\ report' = report /\ bridge' = bridge /\ file'.kind = "ok"
  BY DEF Save, Write
<1>8. \A c \in Applies : ~cmd'[c].stands
  BY DEF Save, Write, TypeOK, Commands
<1>9. (\A r \in report' : FromBase(r)') /\ (bridge'.up => FromBase(bridge.geometry)')
  BY <1>6, <1>7 DEF Untampered
<1>10. (\A r \in report : FromBase(r))' /\ (bridge.up => FromBase(bridge.geometry))'
  BY <1>7, <1>9 DEF FromBase
<1> QED  BY <1>5, <1>7, <1>8, <1>10 DEF Untampered

LEMMA UntamperedByOthers ==
    ASSUME TypeOK, Untampered, base' = base, file'.says = file.says,
           file'.kind = file.kind \/ file'.kind \in {"ok", "broken"},
           \A r \in report' : r \in report \/ (bridge.up /\ r = bridge.geometry),
           bridge'.up => \/ bridge.up /\ bridge'.geometry = bridge.geometry
                         \/ bridge'.geometry = LoadMounting.geometry,
           \A c \in Applies : cmd'[c].status = "pending" /\ cmd'[c].stands =>
                \/ /\ cmd[c].status = "pending" /\ cmd[c].stands
                   /\ cmd'[c].expected = cmd[c].expected
                \/ Fingerprint(Merged(file.says, Base)) \in cmd'[c].expected
    PROVE  Untampered'
<1>1. \A g : FromBase(g) <=> FromBase(g)'  BY DEF FromBase
<1>2. FromBase(LoadMounting.geometry)  BY LoadMountingFromBase
<1>3. \A r \in report' : FromBase(r)  BY DEF Untampered
<1>4. bridge'.up => FromBase(bridge'.geometry)  BY <1>2 DEF Untampered
<1>5. (\A r \in report : FromBase(r))'  BY <1>3 DEF FromBase
<1>6. (bridge.up => FromBase(bridge.geometry))'  BY <1>4 DEF FromBase
<1>7. (\A c \in Applies : cmd[c].status = "pending" /\ cmd[c].stands
        => Fingerprint(Merged(file.says, Base)) \in cmd[c].expected)'
  BY DEF Untampered
<1>8. /\ base' = "ok"
      /\ file'.kind # "empty"
      /\ file'.kind = "absent" => \A f \in Fields : file'.says[f].by \notin Answered
      /\ \A f \in Fields :
            file'.says[f].by \in Answered => file'.says[f].value \in Accepts(f)
  BY DEF Untampered
<1> QED  BY <1>5, <1>6, <1>7, <1>8 DEF Untampered

LEMMA PredictionStep ==
    ASSUME TypeOK, Untampered, ~tampered', [Next]_vars
    PROVE  Untampered'
<1>1. CASE HandleSave
  <2>1. PICK q \in Requests :
            \/ RefuseSave(q.edits, q.by, q.confirmed)
            \/ SaveUnchanged(q.edits, q.by, q.confirmed)
            \/ Save(q.edits, q.by, q.confirmed)
            \/ SaveFails(q.edits, q.by, q.confirmed)
    BY <1>1 DEF HandleSave
  <2>2. CASE Save(q.edits, q.by, q.confirmed)  BY <2>2, UntamperedBySave
  <2>3. CASE UNCHANGED <<file, base, bridge, report, cmd>>
    BY <2>3, UntamperedByOthers
  <2> QED  BY <2>1, <2>2, <2>3 DEF RefuseSave, SaveUnchanged, SaveFails
<1>2. ASSUME NEW c \in Applies, ApplySend(c) PROVE Untampered'
  <2> DEFINE s == IF bridge.up THEN "pending" ELSE "failed"
             issued == [Idle EXCEPT !.status = s, !.expected = Predicted(Load(file)),
                                    !.stands = TRUE]
  <2>1. Predicted(Load(file)) \subseteq [Placed -> Values]
    BY PredictedType DEF TypeOK
  <2>2. issued \in Commands /\ issued.expected = Predicted(Load(file))
    BY <2>1, IssuedType
  <2>3. cmd' = [cmd EXCEPT ![c] = Witness(issued, bridge.geometry)]
    BY <1>2 DEF ApplySend
  <2>4. cmd'[c].expected = Predicted(Load(file))
    <3> HIDE DEF issued
    <3> QED  BY <2>2, <2>3, WitnessKeeps DEF TypeOK
  <2>5. \A d \in Applies \ {c} : cmd'[d] = cmd[d]  BY <2>3 DEF TypeOK
  <2>6. Fingerprint(Merged(file.says, Base)) \in Predicted(Load(file))
    BY <1>2, PredictedIsSaid DEF ApplySend, CanPredict
  <2>7. UNCHANGED <<file, base, bridge, report>>  BY <1>2 DEF ApplySend
  <2>8. \A d \in Applies : cmd'[d].status = "pending" /\ cmd'[d].stands =>
                \/ /\ cmd[d].status = "pending" /\ cmd[d].stands
                   /\ cmd'[d].expected = cmd[d].expected
                \/ Fingerprint(Merged(file.says, Base)) \in cmd'[d].expected
    BY <2>4, <2>5, <2>6
  <2> HIDE DEF issued, s
  <2> QED  BY <2>7, <2>8, UntamperedByOthers
<1>3. CASE Update
  <2>1. \A c \in Applies :
          /\ cmd'[c].expected = cmd[c].expected /\ cmd'[c].stands = cmd[c].stands
          /\ cmd'[c].status = "pending" => cmd[c].status = "pending"
    BY <1>3, ResolvedType DEF Update, TypeOK
  <2> QED  BY <1>3, <2>1, UntamperedByOthers DEF Update
<1>4. CASE Reload \/ StartBridge
  <2>1. \A c \in Applies :
          /\ cmd'[c].expected = cmd[c].expected /\ cmd'[c].stands = cmd[c].stands
          /\ cmd'[c].status = cmd[c].status
    BY <1>4, WitnessKeeps DEF Reload, StartBridge, TypeOK
  <2>2. bridge'.up => \/ bridge.up /\ bridge'.geometry = bridge.geometry
                      \/ bridge'.geometry = LoadMounting.geometry
    BY <1>4 DEF Reload, StartBridge
  <2>3. UNCHANGED <<file, base, report>>  BY <1>4 DEF Reload, StartBridge
  <2> QED  BY <2>1, <2>2, <2>3, UntamperedByOthers
<1>5. CASE Report \/ OtherDiagnostics
  BY <1>5, UntamperedByOthers DEF Report, InUse, OtherDiagnostics
<1>6. CASE BridgeDies
  <2>1. ~bridge'.up  BY <1>6 DEF BridgeDies, TypeOK
  <2> QED  BY <1>6, <2>1, UntamperedByOthers DEF BridgeDies
<1>7. CASE PowerCut
  <2>1. file' = [file EXCEPT !.fresh = FALSE]
    BY <1>7 DEF PowerCut, TypeOK, Files
  <2>2. file'.says = file.says /\ file'.kind = file.kind
    BY <2>1 DEF TypeOK, Files
  <2>3. ~bridge'.up /\ report' = {} /\ base' = base
    BY <1>7 DEF PowerCut, TypeOK
  <2>4. \A c \in Applies : cmd'[c].status # "pending"
    BY <1>7 DEF PowerCut, TypeOK, Commands
  <2> QED  BY <2>2, <2>3, <2>4, UntamperedByOthers
<1>8. CASE HandBreak
  <2>1. file'.says = file.says /\ file'.kind \in {"ok", "broken"}
    BY <1>8 DEF HandBreak, TypeOK, Files
  <2> QED  BY <1>8, <2>1, UntamperedByOthers DEF HandBreak
<1>9. CASE HandEdit \/ BaseEdit
  BY <1>9 DEF HandEdit, BaseEdit
<1>10. CASE UNCHANGED <<file, base, bridge, report, cmd>>
  BY <1>10, UntamperedByOthers
<1> QED  BY <1>1, <1>2, <1>3, <1>4, <1>5, <1>6, <1>7, <1>8, <1>9, <1>10
         DEF Next, vars, RefuseApply, ApplyAlready, PicoReports

LEMMA TamperedStays == ASSUME TypeOK, [Next]_vars, tampered PROVE tampered'
BY DEF Next, vars, HandleSave, RefuseSave, SaveUnchanged, Save, SaveFails,
       RefuseApply, ApplyAlready, ApplySend, Update, Reload, StartBridge, Report,
       OtherDiagnostics, BridgeDies, PowerCut, HandBreak, HandEdit, BaseEdit,
       PicoReports

\* A pending command waits for what a reload of the same answers gives
\* (setup_api.py, predicted_fingerprint), although the backend never reads
\* mounting.yaml: what the text leaves open is mounting.yaml's in every report.
THEOREM PredictionHolds == Spec => []PredictionComesTrue
<1>1. ASSUME Init PROVE PredictionIInv
  <2>1. TypeOK  BY <1>1, TypeInit
  <2>2. \A f \in Fields : file.says[f].by \notin Answered
    BY <1>1 DEF Init, Blank, Unanswered, Answered
  <2>3. \A c \in Applies : cmd[c].status = "none"  BY <1>1 DEF Init, Idle
  <2>4. base = "ok" /\ file.kind = "absent" /\ report = {} /\ ~bridge.up
    BY <1>1 DEF Init
  <2> QED  BY <2>1, <2>2, <2>3, <2>4 DEF PredictionIInv, Untampered
<1>2. ASSUME PredictionIInv, [Next]_vars PROVE PredictionIInv'
  <2>1. TypeOK /\ TypeOK'  BY <1>2, TypeStep DEF PredictionIInv
  <2>2. ASSUME ~tampered' PROVE Untampered'
    <3>1. Untampered  BY <1>2, <2>1, <2>2, TamperedStays DEF PredictionIInv
    <3> QED  BY <1>2, <2>1, <2>2, <3>1, PredictionStep
  <2> QED  BY <2>1, <2>2 DEF PredictionIInv
<1>3. ASSUME PredictionIInv PROVE PredictionComesTrue
  BY <1>3, LoadMountingFromBase DEF PredictionIInv, PredictionComesTrue, Usable, Untampered
<1> QED  BY <1>1, <1>2, <1>3, PTL DEF Spec

-----------------------------------------------------------------------------
(* omniscan_bridge: the accounting of the ping numbers                     *)

\* What the network and the framing are asked for: the number of a frame that the
\* parser returns is a new one, and it is the highest so far or lies in a gap, at most
\* loss_window behind the highest.
FreshNumber(n) ==
    /\ n \in Nat /\ n \notin Range(delivered)
    /\ delivered # <<>> => n > last \/ (n > delivered[1] /\ last - n <= Window)

InOrder ==
    ~rebooted' /\ ~old' /\ delivered' # delivered =>
        \E n : delivered' = Append(delivered, n) /\ FreshNumber(n)

\* The numbers between the first and the highest that did not arrive.
Gaps == (delivered[1] .. last) \ Range(delivered)

\* The accounting agrees with the history.  Stronger than LossIsMeasured in that the
\* window holds nothing that was not delivered, so that a late ping is not taken for a
\* duplicate, and the last number is the highest, so that a gap is counted once.
Accounted ==
    /\ delivered \in Seq(Nat) /\ recent \in Seq(Nat) /\ Range(recent) \subseteq Range(delivered)
    /\ IsFiniteSet(Range(delivered)) /\ seen = Cardinality(Range(delivered))
    /\ delivered = <<>> => last = Never /\ missing = 0
    /\ delivered # <<>> =>
        /\ last \in Range(delivered)
        /\ \A n \in Range(delivered) : delivered[1] <= n /\ n <= last
        /\ missing = Cardinality(Gaps)

AccountInv == ~rebooted /\ ~old => Accounted

-----------------------------------------------------------------------------
\* What Append adds to the values of a sequence.
LEMMA RangeOfAppend ==
    ASSUME NEW S, NEW s \in Seq(S), NEW e \in S
    PROVE  Range(Append(s, e)) = Range(s) \cup {e}
<1> DEFINE t == Append(s, e)
<1>1. /\ t \in Seq(S) /\ Len(t) = Len(s) + 1 /\ Len(s) \in Nat
      /\ t[Len(s) + 1] = e /\ \A i \in 1 .. Len(s) : t[i] = s[i]
    OBVIOUS
<1>2. DOMAIN t = 1 .. Len(s) + 1 /\ DOMAIN s = 1 .. Len(s)
    BY <1>1
<1> HIDE DEF t
<1>3. ASSUME NEW x \in Range(t) PROVE x \in Range(s) \cup {e}
    <2>1. PICK i \in 1 .. Len(s) + 1 : x = t[i]
        BY <1>2 DEF Range
    <2>2. i = Len(s) + 1 \/ i \in 1 .. Len(s)
        BY <1>1
    <2> QED BY <1>1, <1>2, <2>1, <2>2 DEF Range
<1>4. ASSUME NEW x \in Range(s) \cup {e} PROVE x \in Range(t)
    <2>1. CASE x = e
        BY <1>1, <1>2, <2>1 DEF Range
    <2>2. CASE x \in Range(s)
        <3>1. PICK i \in 1 .. Len(s) : x = s[i]
            BY <1>2, <2>2 DEF Range
        <3>2. i \in 1 .. Len(s) + 1
            BY <1>1
        <3> QED BY <1>1, <1>2, <3>1, <3>2 DEF Range
    <2> QED BY <2>1, <2>2
<1> QED BY <1>3, <1>4 DEF t

\* Only a frame that is returned touches the accounting.
LEMMA ParserAccounts ==
    ASSUME ParserStep
    PROVE  UNCHANGED accounting \/ \E n : Account(n)
<1>1. CASE TakeFrame
    BY <1>1 DEF TakeFrame
<1>2. CASE ~TakeFrame
    BY <1>2 DEF ParserStep, NoMarker, SkipToMarker, ShortHeader, TooLong, Incomplete, Stalled, BadSum
<1> QED BY <1>1, <1>2

\* No step but the parser's touches it, and what the histories say is not taken back.
LEMMA AccountSteps ==
    ASSUME [SonarNext]_sonarVars
    PROVE  /\ ~rebooted' /\ ~old' => ~rebooted /\ ~old
           /\ UNCHANGED accounting \/ \E n : Account(n)
<1>1. CASE Ping \/ Lose \/ Overtake \/ PowerOn
    BY <1>1 DEF Ping, Lose, Overtake, PowerOn, Aside, parserVars, feedVars
<1>2. CASE PowerOff
    BY <1>2 DEF PowerOff, Aside, parserVars, feedVars
<1>3. CASE Connect
    BY <1>3 DEF Connect, Aside, parserVars, feedVars, deviceVars
<1>4. CASE Receive
    BY <1>4 DEF Receive, Aside, parserVars, feedVars
<1>5. CASE DropOldest \/ PutNewest
    <2>1. CASE DropOldest
        BY <2>1 DEF DropOldest, Aside, parserVars, feedVars, deviceVars
    <2>2. CASE PutNewest
        BY <2>2 DEF PutNewest, Aside, parserVars, feedVars, deviceVars
    <2> QED BY <1>5, <2>1, <2>2
<1>6. CASE Disconnect \/ WakeUp \/ RxTimeout
    BY <1>6 DEF Disconnect, WakeUp, RxTimeout, Aside, parserVars, feedVars, deviceVars
<1>7. CASE Drain
    <2>1. UNCHANGED accounting
        BY <1>7 DEF Drain, Feed
    <2>2. UNCHANGED rebooted /\ (~old' => ~old)
        BY <1>7 DEF Drain, deviceVars
    <2> QED BY <2>1, <2>2
<1>8. CASE Parse
    <2>1. UNCHANGED <<rebooted, old>> /\ ParserStep
        BY <1>8 DEF Parse, deviceVars, feedVars
    <2> QED BY <2>1, ParserAccounts
<1>9. CASE StallTimeout
    BY <1>9 DEF StallTimeout, Stall, deviceVars, feedVars
<1>10. CASE Configure \/ ConfigureFails
    BY <1>10 DEF Configure, ConfigureFails, Aside, parserVars, feedVars, deviceVars
<1>11. CASE \E s \in Settings : SetParameters(s)
    BY <1>11 DEF SetParameters, Aside, parserVars, feedVars
<1>12. CASE \E on \in BOOLEAN : SetPinging(on)
    BY <1>12 DEF SetPinging, Aside, parserVars, feedVars
<1>13. CASE UNCHANGED sonarVars
    BY <1>13 DEF sonarVars, parserVars, feedVars, deviceVars
<1> QED BY <1>1, <1>2, <1>3, <1>4, <1>5, <1>6, <1>7, <1>8, <1>9, <1>10, <1>11, <1>12, <1>13
        DEF SonarNext

\* The window holds the new number and what it held, but for the oldest.
LEMMA RememberKeeps ==
    ASSUME recent \in Seq(Nat), NEW n \in Nat, Remember(n)
    PROVE  recent' \in Seq(Nat) /\ Range(recent') \subseteq Range(recent) \cup {n}
<1> DEFINE all == Append(recent, n)
<1>1. all \in Seq(Nat) /\ Range(all) = Range(recent) \cup {n} /\ Len(all) # 0
    BY RangeOfAppend
<1>2. recent' = IF Len(all) > Window THEN Tail(all) ELSE all
    BY DEF Remember
<1> HIDE DEF all
<1>3. Tail(all) \in Seq(Nat) /\ Range(Tail(all)) \subseteq Range(all)
    BY <1>1 DEF Range
<1> QED BY <1>1, <1>2, <1>3

\* A fresh number is the first, or is counted by NextPing with the gap before it, or by
\* LatePing, which closes one: no branch of _account_ping is left that could miscount.
LEMMA AccountKeeps ==
    ASSUME Accounted, NEW n, Account(n), FreshNumber(n)
    PROVE  Accounted'
<1>1. n \in Nat /\ n \notin Range(delivered)
    BY DEF FreshNumber
<1>2. ~Contains(recent, n)
    <2> SUFFICES ASSUME Contains(recent, n) PROVE FALSE
        OBVIOUS
    <2>1. PICK i \in 1 .. Len(recent) : recent[i] = n
        BY DEF Contains
    <2>2. n \in Range(recent)
        BY <2>1 DEF Range, Accounted
    <2> QED BY <1>1, <2>2 DEF Accounted
<1>3. delivered' = Append(delivered, n)
    BY DEF Account
<1>4. /\ delivered' \in Seq(Nat) /\ delivered' # <<>>
      /\ Range(delivered') = Range(delivered) \cup {n}
    BY <1>1, <1>3, RangeOfAppend DEF Accounted
<1>5. IsFiniteSet(Range(delivered')) /\ Cardinality(Range(delivered')) = seen + 1
    BY <1>1, <1>4, FS_AddElement, SMTT(30) DEF Accounted
<1>6. delivered # <<>> => delivered'[1] = delivered[1]
    BY <1>1, <1>3 DEF Accounted
<1>7. Remember(n) => recent' \in Seq(Nat) /\ Range(recent') \subseteq Range(delivered')
    BY <1>1, <1>4, RememberKeeps DEF Accounted
<1>8. CASE delivered = <<>>
    <2>1. FirstPing(n)
        BY <1>8, SonarAssumption DEF Account, Accounted, Duplicate, Restarted, LatePing, NextPing
    <2>2. delivered'[1] = n /\ Range(delivered') = {n} /\ last' = n
        BY <1>1, <1>3, <1>4, <1>8, <2>1 DEF FirstPing, Range
    <2>3. Gaps' = {} /\ missing' = 0
        BY <1>1, <2>1, <2>2, <1>8 DEF FirstPing, Gaps, Accounted
    <2> QED BY <1>1, <1>4, <1>5, <1>7, <2>1, <2>2, <2>3, FS_EmptySet DEF Accounted, FirstPing
<1>9. CASE delivered # <<>>
    <2>1. /\ last \in Range(delivered) /\ Range(delivered) \subseteq Nat /\ last \in Nat
          /\ delivered[1] \in Nat /\ delivered[1] \in Range(delivered)
          /\ delivered[1] <= last
        <3>1. last \in Range(delivered) /\ delivered \in Seq(Nat)
            BY <1>9 DEF Accounted
        <3>2. Range(delivered) \subseteq Nat
            BY <3>1 DEF Range
        <3>3. 1 \in DOMAIN delivered
            BY <1>9, <3>1
        <3>4. delivered[1] \in Range(delivered)
            BY <3>3 DEF Range
        <3> QED BY <1>9, <3>1, <3>2, <3>4 DEF Accounted
    <2>2. IsFiniteSet(Gaps) /\ Cardinality(Gaps) \in Nat /\ missing = Cardinality(Gaps)
        <3>1. IsFiniteSet(delivered[1] .. last)
            <4>1. delivered[1] \in Int /\ last \in Int
                BY <2>1
            <4> QED BY <4>1, FS_Interval
        <3>2. IsFiniteSet(Gaps)
            BY <3>1, FS_Subset DEF Gaps
        <3> QED BY <1>9, <3>2, FS_CardinalityType DEF Accounted
    <2>3. CASE n > last
        <3>1. NextPing(n)
            BY <1>1, <1>2, <2>1, <2>3, SonarAssumption
               DEF Account, FirstPing, Duplicate, Restarted, LatePing
        <3>2. last' = n /\ missing' = missing + (n - last - 1) /\ seen' = seen + 1
            BY <3>1 DEF NextPing
        <3> DEFINE more == last + 1 .. n - 1
        <3>3. Gaps' = Gaps \cup more
            BY <1>1, <1>4, <1>6, <1>9, <2>1, <2>3, <3>2 DEF Gaps, Accounted
        <3>4. IsFiniteSet(more) /\ Cardinality(more) = n - last - 1
            <4>1. last + 1 \in Int /\ n - 1 \in Int
                BY <1>1, <2>1
            <4>2. /\ IsFiniteSet(more)
                  /\ Cardinality(more) = IF last + 1 > n - 1 THEN 0 ELSE (n - 1) - (last + 1) + 1
                BY <4>1, FS_Interval
            <4> QED BY <1>1, <2>1, <2>3, <4>2
        <3>5. Gaps \cap more = {}
            BY <2>1 DEF Gaps
        <3>6. Cardinality(Gaps') = Cardinality(Gaps) + Cardinality(more) - 0
            <4> HIDE DEF more
            <4>1. Cardinality(Gaps \cup more) =
                    Cardinality(Gaps) + Cardinality(more) - Cardinality(Gaps \cap more)
                BY <2>2, <3>4, FS_Union
            <4> QED BY <3>3, <3>5, <4>1, FS_EmptySet
        <3>7. missing' = Cardinality(Gaps')
            BY <1>1, <2>1, <2>2, <2>3, <3>2, <3>4, <3>6
        <3>8. \A m \in Range(delivered') : delivered'[1] <= m /\ m <= last'
            BY <1>1, <1>4, <1>6, <1>9, <2>1, <2>3, <3>2 DEF Accounted
        <3> QED BY <1>4, <1>5, <1>7, <3>1, <3>2, <3>7, <3>8 DEF Accounted, NextPing
    <2>4. CASE ~(n > last)
        <3>1. n > delivered[1] /\ n < last /\ last - n <= Window
            BY <1>1, <1>9, <2>1, <2>4 DEF FreshNumber
        <3>2. LatePing(n)
            BY <1>1, <1>2, <2>1, <3>1, SonarAssumption
               DEF Account, FirstPing, Duplicate, Restarted, NextPing
        <3>3. n \in Gaps
            BY <1>1, <2>1, <3>1 DEF Gaps
        <3>4. Gaps' = Gaps \ {n} /\ last' = last
            BY <1>4, <1>6, <1>9, <3>2 DEF Gaps, LatePing
        <3>5. Cardinality(Gaps') = Cardinality(Gaps) - 1
            BY <2>2, <3>3, <3>4, FS_RemoveElement
        <3>6. Cardinality(Gaps) # 0
            BY <2>2, <3>3, FS_EmptySet
        <3>7. missing' = Cardinality(Gaps') /\ seen' = seen + 1
            BY <2>2, <3>2, <3>5, <3>6 DEF LatePing
        <3>8. \A m \in Range(delivered') : delivered'[1] <= m /\ m <= last'
            BY <1>1, <1>4, <1>6, <1>9, <2>1, <3>1, <3>4 DEF Accounted
        <3> QED BY <1>4, <1>5, <1>7, <2>1, <3>2, <3>4, <3>7, <3>8 DEF Accounted, LatePing
    <2> QED BY <2>3, <2>4
<1> QED BY <1>8, <1>9

\* Nothing has arrived and nothing is counted.
LEMMA AccountInit == SonarInit => AccountInv
<1> SUFFICES ASSUME SonarInit PROVE Accounted
    BY DEF AccountInv
<1>1. delivered = <<>> /\ recent = <<>> /\ last = Never /\ seen = 0 /\ missing = 0
    BY DEF SonarInit, ParserInit
<1>2. Range(<<>>) = {}
    BY DEF Range
<1> QED BY <1>1, <1>2, FS_EmptySet DEF Accounted

\* A step that returns a fresh number, or none, keeps the accounts right.
LEMMA AccountNext == AccountInv /\ [SonarNext]_sonarVars /\ InOrder => AccountInv'
<1> SUFFICES ASSUME AccountInv, [SonarNext]_sonarVars, InOrder, ~rebooted', ~old'
             PROVE  Accounted'
    BY DEF AccountInv
<1>1. Accounted
    BY AccountSteps DEF AccountInv
<1>2. CASE UNCHANGED accounting
    BY <1>1, <1>2 DEF Accounted, Gaps, accounting
<1>3. CASE \E n : Account(n)
    <2>1. PICK n : Account(n)
        BY <1>3
    <2>2. delivered' = Append(delivered, n) /\ delivered \in Seq(Nat)
        BY <1>1, <2>1 DEF Account, Accounted
    <2>3. delivered' # delivered
        BY <2>2
    <2>4. FreshNumber(n)
        BY <2>2, <2>3 DEF InOrder
    <2> QED BY <1>1, <2>1, <2>4, AccountKeeps
<1> QED BY <1>2, <1>3, AccountSteps

\* Whatever is lost, dropped from the queue, cut or damaged on the way, packet_loss_ratio
\* is a measurement (_account_ping), as long as the sonar was not off, no ping from
\* before the first came in, and the numbers returned are fresh ones in the window.
THEOREM LossIsMeasuredHolds ==
    SonarSpec /\ [][InOrder]_sonarVars => []LossIsMeasured
<1>1. AccountInv => LossIsMeasured
    BY DEF AccountInv, Accounted, Gaps, LossIsMeasured
<1>2. AccountInv /\ [SonarNext]_sonarVars /\ [InOrder]_sonarVars => AccountInv'
    <2>1. CASE UNCHANGED sonarVars
        BY <2>1 DEF sonarVars, parserVars, accounting, AccountInv, Accounted, Gaps, deviceVars, feedVars
    <2> QED BY <2>1, AccountNext
<1> QED BY <1>1, <1>2, AccountInit, PTL DEF SonarSpec

-----------------------------------------------------------------------------
(* omniscan_bridge: framing and resynchronisation                          *)

\* The checksum of a ping: one step of the fold for each token of its frame, whichever
\* is taken first.
LEMMA SumOfPing ==
    ASSUME NEW n \in Nat
    PROVE  Sum(<<B, R, Token("data", 1), Token("data", n)>>) = Token("sum", 149 + n)
<1> DEFINE ping == <<B, R, Token("data", 1), Token("data", n)>>
           D == DOMAIN ping
           Folds(f) == f = [s \in SUBSET D |-> IF s = {} THEN 0
                              ELSE LET x == CHOOSE y \in s : TRUE IN ping[x].value + f[s \ {x}]]
           Value(i, v, s) == IF i \in s THEN v ELSE 0
           W(s) == Value(1, 66, s) + Value(2, 82, s) + Value(3, 1, s) + Value(4, n, s)
           w == [s \in SUBSET D |-> W(s)]
           fold == CHOOSE f : Folds(f)
<1>1. D = {1, 2, 3, 4}
    OBVIOUS
<1>2. /\ ping[1].value = 66 /\ ping[2].value = 82
      /\ ping[3].value = 1 /\ ping[4].value = n
    BY DEF Token, B, R
<1>3. Sum(ping) = Token("sum", fold[D])
    BY DEF Sum, FoldSeq, FoldFunction, FoldFunctionOnSet, MapThenFoldSet
<1> HIDE DEF ping
<1>4. ASSUME NEW s \in SUBSET D, NEW x \in s
      PROVE  W(s) = ping[x].value + W(s \ {x}) /\ s \ {x} \in SUBSET D
    <2>1. x = 1 \/ x = 2 \/ x = 3 \/ x = 4
        BY <1>1
    <2> QED BY <1>2, <2>1
<1>5. W({}) = 0
    OBVIOUS
<1>6. W(D) = 149 + n
    BY <1>1
<1> HIDE DEF W, D
<1>7. Folds(w)
    <2> SUFFICES ASSUME NEW s \in SUBSET D
                 PROVE  w[s] = IF s = {} THEN 0
                               ELSE LET x == CHOOSE y \in s : TRUE IN ping[x].value + w[s \ {x}]
        OBVIOUS
    <2>1. CASE s = {}
        BY <1>5, <2>1
    <2>2. CASE s # {}
        <3> DEFINE x == CHOOSE y \in s : TRUE
        <3>1. x \in s
            BY <2>2
        <3> HIDE DEF x
        <3>2. w[s] = ping[x].value + w[s \ {x}]
            BY <1>4, <3>1
        <3> QED BY <2>2, <3>2 DEF x
    <2> QED BY <2>1, <2>2
<1> HIDE DEF w
<1>8. Folds(fold)
    BY <1>7
<1>9. ASSUME NEW s \in SUBSET D
      PROVE  fold[s] = IF s = {} THEN 0
                       ELSE LET x == CHOOSE y \in s : TRUE IN ping[x].value + fold[s \ {x}]
    BY <1>8
<1> HIDE DEF fold, Folds
<1> DEFINE Right(k) == \A s \in SUBSET D : Cardinality(s) = k => fold[s] = W(s)
<1>10. IsFiniteSet(D) /\ Cardinality(D) = 4
    <2>1. D = 1 .. 4
        BY <1>1
    <2>2. \A b \in Int : IsFiniteSet(1 .. b) /\ (b >= 1 => Cardinality(1 .. b) = b)
        <3> SUFFICES ASSUME NEW b \in Int
                     PROVE  IsFiniteSet(1 .. b) /\ (b >= 1 => Cardinality(1 .. b) = b)
            OBVIOUS
        <3>1. 1 \in Int
            OBVIOUS
        <3>2. IsFiniteSet(1 .. b) /\ Cardinality(1 .. b) = IF 1 > b THEN 0 ELSE b - 1 + 1
            BY <3>1, FS_Interval
        <3> QED BY <3>2
    <2>3. 4 \in Int /\ 4 >= 1
        OBVIOUS
    <2>4. IsFiniteSet(1 .. 4) /\ (4 >= 1 => Cardinality(1 .. 4) = 4)
        BY <2>2, <2>3, Zenon
    <2> QED BY <2>1, <2>3, <2>4
<1>11. Right(0)
    <2> SUFFICES ASSUME NEW s \in SUBSET D, Cardinality(s) = 0 PROVE fold[s] = W(s)
        OBVIOUS
    <2>1. s = {}
        BY <1>10, FS_Subset, FS_EmptySet
    <2> QED BY <1>5, <1>9, <2>1
<1>12. ASSUME NEW k \in Nat, Right(k) PROVE Right(k + 1)
    <2> SUFFICES ASSUME NEW s \in SUBSET D, Cardinality(s) = k + 1 PROVE fold[s] = W(s)
        OBVIOUS
    <2>1. s # {}
        BY FS_EmptySet
    <2> DEFINE x == CHOOSE y \in s : TRUE
    <2>2. x \in s /\ fold[s] = ping[x].value + fold[s \ {x}]
        BY <1>9, <2>1
    <2> HIDE DEF x
    <2>3. IsFiniteSet(s)
        BY <1>10, FS_Subset
    <2>4. Cardinality(s \ {x}) = k
        <3>1. Cardinality(s \ {x}) = Cardinality(s) - 1
            BY <2>2, <2>3, FS_RemoveElement
        <3> QED BY <3>1
    <2>5. fold[s \ {x}] = W(s \ {x})
        BY <1>4, <1>12, <2>2, <2>4
    <2> QED BY <1>4, <2>2, <2>5
<1> HIDE DEF Right
<1>13. Right(1) /\ Right(2) /\ Right(3) /\ Right(4)
    <2>1. Right(1)
        BY <1>11, <1>12
    <2>2. Right(2)
        BY <1>12, <2>1
    <2>3. Right(3)
        BY <1>12, <2>2
    <2>4. Right(4)
        BY <1>12, <2>3
    <2> QED BY <2>1, <2>2, <2>3, <2>4
<1>14. fold[D] = W(D)
    BY <1>10, <1>13 DEF Right
<1> QED BY <1>3, <1>6, <1>14 DEF ping

\* The tokens of a stream of frames, whole or damaged.
Tokens == {B, R} \cup {Token("data", v) : v \in Nat} \cup {Token("sum", v) : v \in Nat}

LEMMA TokenFacts ==
    /\ \A v, w : /\ Token("data", v) # B /\ Token("data", v) # R
                 /\ Token("sum", v) # B /\ Token("sum", v) # R
                 /\ Token("data", v) # Token("sum", w)
                 /\ Token("data", v) = Token("data", w) => v = w
                 /\ Token("sum", v) = Token("sum", w) => v = w
                 /\ Token("data", v).value = v
                 /\ Token("data", v).kind = "data" /\ Token("sum", v).kind = "sum"
    /\ B # R /\ B.kind = "B" /\ R.kind = "R"
    /\ B \in Tokens /\ R \in Tokens
    /\ \A v \in Nat : Token("data", v) \in Tokens /\ Token("sum", v) \in Tokens
    /\ \A t \in Tokens : t.value \in Nat
<1>1. /\ B # R /\ B.kind = "B" /\ R.kind = "R" /\ B.value = 66 /\ R.value = 82
      /\ B \in Tokens /\ R \in Tokens
    BY DEF Token, B, R, Tokens
<1>2. ASSUME NEW v, NEW w
      PROVE  /\ Token("data", v) # B /\ Token("data", v) # R
             /\ Token("sum", v) # B /\ Token("sum", v) # R
             /\ Token("data", v) # Token("sum", w)
             /\ Token("data", v) = Token("data", w) => v = w
             /\ Token("sum", v) = Token("sum", w) => v = w
             /\ Token("data", v).value = v /\ Token("sum", v).value = v
             /\ Token("data", v).kind = "data" /\ Token("sum", v).kind = "sum"
    BY DEF Token, B, R
<1>3. \A v \in Nat : Token("data", v) \in Tokens /\ Token("sum", v) \in Tokens
    BY DEF Tokens
<1>4. \A t \in Tokens : t.value \in Nat
    BY <1>1, <1>2 DEF Tokens
<1> QED BY <1>1, <1>2, <1>3, <1>4

LEMMA Appended ==
    ASSUME NEW S, NEW s \in Seq(S), NEW e \in S
    PROVE  /\ Append(s, e) \in Seq(S) /\ Len(Append(s, e)) = Len(s) + 1
           /\ Append(s, e)[Len(s) + 1] = e
           /\ \A i \in 1 .. Len(s) : Append(s, e)[i] = s[i]
OBVIOUS

LEMMA EncodeFacts ==
    ASSUME NEW n \in Nat
    PROVE  /\ Encode(n) \in Seq(Tokens) /\ Len(Encode(n)) = 5
           /\ Encode(n)[1] = B /\ Encode(n)[2] = R /\ Encode(n)[3] = Token("data", 1)
           /\ Encode(n)[4] = Token("data", n) /\ Encode(n)[5] = Token("sum", 149 + n)
<1> DEFINE body == <<B, R, Token("data", 1), Token("data", n)>>
           sum == Token("sum", 149 + n)
<1>1. Encode(n) = Append(body, sum)
    BY SumOfPing DEF Encode
<1>2. /\ body \in Seq(Tokens) /\ Len(body) = 4
      /\ body[1] = B /\ body[2] = R /\ body[3] = Token("data", 1) /\ body[4] = Token("data", n)
    BY TokenFacts
<1>3. sum \in Tokens
    BY TokenFacts
<1> HIDE DEF body, sum
<1>4. /\ Append(body, sum) \in Seq(Tokens) /\ Len(Append(body, sum)) = Len(body) + 1
      /\ Append(body, sum)[Len(body) + 1] = sum
      /\ \A i \in 1 .. Len(body) : Append(body, sum)[i] = body[i]
    <2>1. body \in Seq(Tokens) /\ sum \in Tokens
        BY <1>2, <1>3
    <2> QED BY <2>1, Appended, ZenonT(30)
<1>5. Len(body) + 1 = 5 /\ \A i \in {1, 2, 3, 4} : i \in 1 .. Len(body)
    BY <1>2
<1> QED BY <1>1, <1>2, <1>4, <1>5 DEF sum

LEMMA CutFacts ==
    ASSUME NEW S, NEW s \in Seq(S), NEW m \in 1 .. Len(s) + 1, NEW n \in m - 1 .. Len(s)
    PROVE  /\ SubSeq(s, m, n) \in Seq(S) /\ Len(SubSeq(s, m, n)) = n - m + 1
           /\ \A i \in 1 .. n - m + 1 : SubSeq(s, m, n)[i] = s[m - 1 + i]
<1>1. \A i \in m .. n : i \in 1 .. Len(s) /\ s[i] \in S
    OBVIOUS
<1>2. SubSeq(s, m, n) \in Seq(S)
    BY <1>1
<1> QED BY <1>2

LEMMA JoinedFacts ==
    ASSUME NEW S, NEW s \in Seq(S), NEW t \in Seq(S)
    PROVE  /\ s \o t \in Seq(S) /\ Len(s \o t) = Len(s) + Len(t)
           /\ Len(s) \in Nat /\ Len(t) \in Nat
           /\ \A i \in 1 .. Len(s) : (s \o t)[i] = s[i]
           /\ \A i \in 1 .. Len(t) : (s \o t)[Len(s) + i] = t[i]
<1>1. /\ s \o t \in Seq(S) /\ Len(s \o t) = Len(s) + Len(t) /\ Len(s) \in Nat /\ Len(t) \in Nat
      /\ \A i \in 1 .. Len(s) + Len(t) :
            (s \o t)[i] = IF i <= Len(s) THEN s[i] ELSE t[i - Len(s)]
    OBVIOUS
<1>2. ASSUME NEW i \in 1 .. Len(t) PROVE (s \o t)[Len(s) + i] = t[i]
    <2>1. Len(s) + i \in 1 .. Len(s) + Len(t) /\ ~(Len(s) + i <= Len(s)) /\ (Len(s) + i) - Len(s) = i
        BY <1>1
    <2> QED BY <1>1, <2>1
<1> QED BY <1>1, <1>2

LEMMA ChangedFacts ==
    ASSUME NEW S, NEW s \in Seq(S), NEW i \in 1 .. Len(s), NEW e \in S
    PROVE  /\ [s EXCEPT ![i] = e] \in Seq(S) /\ Len([s EXCEPT ![i] = e]) = Len(s)
           /\ [s EXCEPT ![i] = e][i] = e
           /\ \A j \in 1 .. Len(s) : j # i => [s EXCEPT ![i] = e][j] = s[j]
OBVIOUS

\* A frame lies at i.
FrameAt(s, i) ==
    /\ i \in 1 .. Len(s) - 4
    /\ s[i] = B /\ s[i + 1] = R /\ s[i + 2] = Token("data", 1)
    /\ s[i + 3] = Token("data", s[i + 3].value)
    /\ s[i + 4] = Token("sum", 149 + s[i + 3].value)

\* From i to its end the stream is the beginning of a frame, and not all of it.
Begun(s, i) ==
    /\ i \in 1 .. Len(s) /\ Len(s) - i <= 3
    /\ s[i] = B
    /\ i + 1 <= Len(s) => s[i + 1] = R
    /\ i + 2 <= Len(s) => s[i + 2] = Token("data", 1)
    /\ i + 3 <= Len(s) => s[i + 3].kind = "data"

Ends(s, t) == Len(t) <= Len(s) /\ \A k \in 1 .. Len(t) : s[Len(s) - Len(t) + k] = t[k]

\* What a chunk of one frame looks like, however it was cut or damaged: a marker begins
\* only at its head, the checksum ends it, and one of the two is there.
Pieces ==
    { c \in [tokens : Seq(Tokens), of : Nat, part : {"whole", "first", "second", "damaged"}] :
        LET t == c.tokens
        IN /\ Len(t) >= 1 /\ Len(t) <= 5
           /\ \A i \in 2 .. Len(t) : t[i] # B
           /\ \A i \in 1 .. Len(t) : t[i].kind = "sum" => i = Len(t) /\ t[i] = Token("sum", 149 + c.of)
           /\ t[1] = B \/ t[Len(t)].kind = "sum" }

\* A piece of a frame is one: what it is made of says so.
LEMMA PieceOf ==
    ASSUME NEW n \in Nat, NEW t \in Seq(Tokens), NEW p \in {"whole", "first", "second", "damaged"},
           Len(t) >= 1 /\ Len(t) <= 5, \A i \in 2 .. Len(t) : t[i] # B,
           \A i \in 1 .. Len(t) : t[i].kind = "sum" => i = Len(t) /\ t[i] = Token("sum", 149 + n),
           t[1] = B \/ t[Len(t)].kind = "sum"
    PROVE  Chunk(t, n, p) \in Pieces
BY DEF Chunk, Pieces

LEMMA SendingsArePieces ==
    ASSUME NEW n \in Nat, NEW s \in Sendings(n)
    PROVE  s \in Seq(Pieces)
<1> DEFINE f == Encode(n)
<1>1. /\ f \in Seq(Tokens) /\ Len(f) = 5
      /\ f[1] = B /\ f[2] = R /\ f[3] = Token("data", 1)
      /\ f[4] = Token("data", n) /\ f[5] = Token("sum", 149 + n)
    BY EncodeFacts
<1>2. /\ f[1].kind = "B" /\ f[2].kind = "R" /\ f[3].kind = "data" /\ f[4].kind = "data"
      /\ f[5].kind = "sum"
      /\ f[2] # B /\ f[3] # B /\ f[4] # B /\ f[5] # B
    BY <1>1, TokenFacts
<1> HIDE DEF f
<1>3. /\ \A i \in 2 .. 5 : f[i] # B
      /\ \A i \in 1 .. 4 : f[i].kind # "sum"
    BY <1>2
<1>4. Chunk(f, n, "whole") \in Pieces
    <2>1. /\ Len(f) >= 1 /\ Len(f) <= 5 /\ \A i \in 2 .. Len(f) : f[i] # B
          /\ \A i \in 1 .. Len(f) : f[i].kind = "sum" => i = Len(f) /\ f[i] = Token("sum", 149 + n)
          /\ f[1] = B
        BY <1>1, <1>3
    <2> QED BY <1>1, <2>1, PieceOf
<1>5. ASSUME NEW c \in 1 .. Len(f) - 1
      PROVE  /\ Chunk(SubSeq(f, 1, c), n, "first") \in Pieces
             /\ Chunk(SubSeq(f, c + 1, Len(f)), n, "second") \in Pieces
    <2>1. c \in 1 .. 4
        BY <1>1
    <2> DEFINE a == SubSeq(f, 1, c)
               b == SubSeq(f, c + 1, Len(f))
    <2>2. /\ a \in Seq(Tokens) /\ Len(a) = c /\ \A i \in 1 .. c : a[i] = f[i]
          /\ b \in Seq(Tokens) /\ Len(b) = 5 - c /\ \A i \in 1 .. 5 - c : b[i] = f[c + i]
        <3>0. f \in Seq(Tokens)
            BY <1>1, Zenon
        <3>1. /\ 1 \in 1 .. Len(f) + 1 /\ c \in 1 - 1 .. Len(f) /\ c - 1 + 1 = c
              /\ c + 1 \in 1 .. Len(f) + 1 /\ Len(f) \in (c + 1) - 1 .. Len(f)
              /\ Len(f) - (c + 1) + 1 = 5 - c
            BY <1>1, <2>1
        <3>2. /\ a \in Seq(Tokens) /\ Len(a) = c - 1 + 1
              /\ \A i \in 1 .. c - 1 + 1 : a[i] = f[1 - 1 + i]
            BY <3>0, <3>1, CutFacts
        <3>3. /\ b \in Seq(Tokens) /\ Len(b) = Len(f) - (c + 1) + 1
              /\ \A i \in 1 .. Len(f) - (c + 1) + 1 : b[i] = f[(c + 1) - 1 + i]
            BY <3>0, <3>1, CutFacts
        <3> HIDE DEF a, b
        <3>4. /\ \A i \in 1 .. c : 1 - 1 + i = i
              /\ \A i \in 1 .. 5 - c : (c + 1) - 1 + i = c + i
            BY <2>1
        <3> QED BY <3>1, <3>2, <3>3, <3>4
    <2> HIDE DEF a, b
    <2>3. Chunk(a, n, "first") \in Pieces
        <3>1. /\ Len(a) >= 1 /\ Len(a) <= 5 /\ \A i \in 2 .. Len(a) : a[i] # B
              /\ \A i \in 1 .. Len(a) : a[i].kind # "sum"
              /\ a[1] = B
            BY <1>1, <1>3, <2>1, <2>2
        <3> QED BY <2>2, <3>1, PieceOf
    <2>4. Chunk(b, n, "second") \in Pieces
        <3>1. /\ Len(b) >= 1 /\ Len(b) <= 5 /\ \A i \in 2 .. Len(b) : b[i] # B
              /\ b[Len(b)] = Token("sum", 149 + n) /\ b[Len(b)].kind = "sum"
            BY <1>1, <1>2, <1>3, <2>1, <2>2
        <3>2. ASSUME NEW i \in 1 .. Len(b), b[i].kind = "sum"
              PROVE  i = Len(b)
            <4>1. c + i \in 1 .. 5 /\ f[c + i].kind = "sum"
                BY <2>1, <2>2, <3>2
            <4>2. c + i = 5
                BY <1>3, <4>1
            <4> QED BY <2>1, <2>2, <4>2
        <3> QED BY <2>2, <3>1, <3>2, PieceOf
    <2> QED BY <2>3, <2>4 DEF a, b
<1>6. ASSUME NEW i \in 1 .. Len(f), NEW v \in Nat
      PROVE  Chunk([f EXCEPT ![i] = Token("data", v)], n, "damaged") \in Pieces
    <2> DEFINE d == Token("data", v)
               t == [f EXCEPT ![i] = d]
    <2>1. d \in Tokens /\ d # B /\ d.kind = "data"
        BY TokenFacts
    <2> HIDE DEF d
    <2>2. i \in 1 .. 5
        BY <1>1
    <2>3. /\ t \in Seq(Tokens) /\ Len(t) = 5 /\ t[i] = d
          /\ \A j \in 1 .. 5 : j # i => t[j] = f[j]
        <3>1. f \in Seq(Tokens) /\ i \in 1 .. Len(f) /\ d \in Tokens
            BY <1>1, <2>1, Zenon
        <3>2. /\ t \in Seq(Tokens) /\ Len(t) = Len(f) /\ t[i] = d
              /\ \A j \in 1 .. Len(f) : j # i => t[j] = f[j]
            BY <3>1, ChangedFacts
        <3> QED BY <1>1, <3>2
    <2> HIDE DEF t
    <2>4. \A j \in 2 .. 5 : t[j] # B
        BY <1>3, <2>1, <2>3
    <2>5. ASSUME NEW j \in 1 .. 5, t[j].kind = "sum"
          PROVE  j = 5 /\ t[j] = Token("sum", 149 + n)
        <3>1. j # i
            BY <2>1, <2>3, <2>5
        <3>2. t[j] = f[j]
            BY <2>3, <3>1
        <3> QED BY <1>1, <1>3, <2>5, <3>2
    <2>6. t[1] = B \/ t[5].kind = "sum"
        BY <1>1, <1>2, <2>2, <2>3
    <2>7. /\ Len(t) >= 1 /\ Len(t) <= 5 /\ \A j \in 2 .. Len(t) : t[j] # B
          /\ \A j \in 1 .. Len(t) : t[j].kind = "sum" => j = Len(t) /\ t[j] = Token("sum", 149 + n)
          /\ t[1] = B \/ t[Len(t)].kind = "sum"
        BY <2>3, <2>4, <2>5, <2>6
    <2>8. Chunk(t, n, "damaged") \in Pieces
        BY <2>3, <2>7, PieceOf
    <2> QED BY <2>8 DEF t, d
<1>7. ASSUME NEW i \in 1 .. Len(f)
      PROVE  Chunk(RemoveAt(f, i), n, "damaged") \in Pieces
    <2> DEFINE t == RemoveAt(f, i)
    <2>1. i \in 1 .. 5
        BY <1>1
    <2>2. /\ t \in Seq(Tokens) /\ Len(t) = 4
          /\ \A j \in 1 .. 4 : t[j] = IF j < i THEN f[j] ELSE f[j + 1]
        <3>1. t = SubSeq(f, 1, i - 1) \o SubSeq(f, i + 1, 5)
            BY <1>1 DEF RemoveAt
        <3> DEFINE a == SubSeq(f, 1, i - 1)
                   b == SubSeq(f, i + 1, 5)
        <3>2. /\ a \in Seq(Tokens) /\ Len(a) = i - 1 /\ \A j \in 1 .. i - 1 : a[j] = f[j]
              /\ b \in Seq(Tokens) /\ Len(b) = 5 - i /\ \A j \in 1 .. 5 - i : b[j] = f[i + j]
            <4>1. /\ 1 \in 1 .. Len(f) + 1 /\ i - 1 \in 1 - 1 .. Len(f) /\ (i - 1) - 1 + 1 = i - 1
                  /\ i + 1 \in 1 .. Len(f) + 1 /\ 5 \in (i + 1) - 1 .. Len(f)
                  /\ 5 - (i + 1) + 1 = 5 - i
                BY <1>1, <2>1
            <4>2. /\ a \in Seq(Tokens) /\ Len(a) = (i - 1) - 1 + 1
                  /\ \A j \in 1 .. (i - 1) - 1 + 1 : a[j] = f[1 - 1 + j]
                <5>1. \A m \in 1 .. Len(f) + 1 : \A k \in m - 1 .. Len(f) :
                        /\ SubSeq(f, m, k) \in Seq(Tokens) /\ Len(SubSeq(f, m, k)) = k - m + 1
                        /\ \A j \in 1 .. k - m + 1 : SubSeq(f, m, k)[j] = f[m - 1 + j]
                    BY <1>1, CutFacts
                <5> QED BY <4>1, <5>1
            <4>3. /\ b \in Seq(Tokens) /\ Len(b) = 5 - (i + 1) + 1
                  /\ \A j \in 1 .. 5 - (i + 1) + 1 : b[j] = f[(i + 1) - 1 + j]
                BY <1>1, <4>1, CutFacts, ZenonT(30)
            <4> HIDE DEF a, b
            <4>4. /\ \A j \in 1 .. i - 1 : 1 - 1 + j = j
                  /\ \A j \in 1 .. 5 - i : (i + 1) - 1 + j = i + j
                BY <2>1
            <4> QED BY <4>1, <4>2, <4>3, <4>4
        <3> HIDE DEF a, b
        <3>3. /\ a \o b \in Seq(Tokens) /\ Len(a \o b) = Len(a) + Len(b)
              /\ \A j \in 1 .. Len(a) : (a \o b)[j] = a[j]
              /\ \A j \in 1 .. Len(b) : (a \o b)[Len(a) + j] = b[j]
            BY <3>2, JoinedFacts
        <3>4. t = a \o b
            BY <3>1 DEF a, b
        <3> HIDE DEF t
        <3>5. ASSUME NEW j \in 1 .. 4 PROVE t[j] = IF j < i THEN f[j] ELSE f[j + 1]
            <4>1. CASE j < i
                <5>1. j \in 1 .. Len(a) /\ j \in 1 .. i - 1
                    BY <2>1, <3>2, <4>1
                <5> QED BY <3>2, <3>3, <3>4, <4>1, <5>1
            <4>2. CASE ~(j < i)
                <5>1. j - i + 1 \in 1 .. Len(b) /\ j - i + 1 \in 1 .. 5 - i
                    BY <2>1, <3>2, <4>2
                <5>2. Len(a) + (j - i + 1) = j /\ i + (j - i + 1) = j + 1
                    BY <2>1, <3>2
                <5> QED BY <3>2, <3>3, <3>4, <4>2, <5>1, <5>2, SMTT(30)
            <4> QED BY <4>1, <4>2
        <3>6. t \in Seq(Tokens) /\ Len(t) = 4
            BY <2>1, <3>2, <3>3, <3>4
        <3> QED BY <3>5, <3>6
    <2> HIDE DEF t
    <2>3. \A j \in 2 .. 4 : t[j] # B
        BY <1>3, <2>1, <2>2
    <2>4. ASSUME NEW j \in 1 .. 4, t[j].kind = "sum"
          PROVE  j = 4 /\ t[j] = Token("sum", 149 + n)
        <3>1. CASE j < i
            BY <1>3, <2>2, <2>4, <3>1
        <3>2. CASE ~(j < i)
            <4>1. t[j] = f[j + 1] /\ j + 1 \in 1 .. 5
                BY <2>2, <3>2
            <4>2. j + 1 = 5
                BY <1>3, <2>4, <4>1
            <4> QED BY <1>1, <4>1, <4>2
        <3> QED BY <3>1, <3>2
    <2>5. t[1] = B \/ t[4].kind = "sum"
        <3>1. CASE i = 1
            BY <1>2, <2>2, <3>1
        <3>2. CASE i # 1
            BY <1>1, <2>1, <2>2, <3>2
        <3> QED BY <3>1, <3>2
    <2>6. /\ Len(t) >= 1 /\ Len(t) <= 5 /\ \A j \in 2 .. Len(t) : t[j] # B
          /\ \A j \in 1 .. Len(t) : t[j].kind = "sum" => j = Len(t) /\ t[j] = Token("sum", 149 + n)
          /\ t[1] = B \/ t[Len(t)].kind = "sum"
        BY <2>2, <2>3, <2>4, <2>5
    <2>7. Chunk(t, n, "damaged") \in Pieces
        BY <2>2, <2>6, PieceOf
    <2> QED BY <2>7 DEF t
<1>8. \A c \in Pieces, d \in Pieces : <<c>> \in Seq(Pieces) /\ <<c, d>> \in Seq(Pieces)
    OBVIOUS
<1>9. 3 \in 1 .. Len(f) /\ Header = 3 /\ {0, 2} \subseteq Nat /\ 9 \in Nat
    BY <1>1 DEF Header
<1>10. \/ s = <<Chunk(f, n, "whole")>>
       \/ \E c \in 1 .. Len(f) - 1 :
            s = <<Chunk(SubSeq(f, 1, c), n, "first"), Chunk(SubSeq(f, c + 1, Len(f)), n, "second")>>
       \/ \E i \in 1 .. Len(f) : s = <<Chunk([f EXCEPT ![i] = Token("data", 9)], n, "damaged")>>
       \/ \E l \in {0, 2} : s = <<Chunk([f EXCEPT ![Header] = Token("data", l)], n, "damaged")>>
       \/ \E i \in 1 .. Len(f) : s = <<Chunk(RemoveAt(f, i), n, "damaged")>>
    BY DEF Sendings, f
<1>11. CASE s = <<Chunk(f, n, "whole")>>
    BY <1>4, <1>8, <1>11
<1>12. CASE \E c \in 1 .. Len(f) - 1 :
            s = <<Chunk(SubSeq(f, 1, c), n, "first"), Chunk(SubSeq(f, c + 1, Len(f)), n, "second")>>
    BY <1>5, <1>8, <1>12
<1>13. CASE \E i \in 1 .. Len(f) : s = <<Chunk([f EXCEPT ![i] = Token("data", 9)], n, "damaged")>>
    BY <1>6, <1>8, <1>9, <1>13
<1>14. CASE \E l \in {0, 2} : s = <<Chunk([f EXCEPT ![Header] = Token("data", l)], n, "damaged")>>
    BY <1>6, <1>8, <1>9, <1>14
<1>15. CASE \E i \in 1 .. Len(f) : s = <<Chunk(RemoveAt(f, i), n, "damaged")>>
    BY <1>7, <1>8, <1>15
<1> QED BY <1>10, <1>11, <1>12, <1>13, <1>14, <1>15

\* The frames of the stream that were fed and are not returned yet, in their order, are
\* the rest of w.
Waiting(s, d, w) ==
    /\ Len(d) <= Len(w) /\ \A j \in 1 .. Len(d) : w[j] = d[j]
    /\ \E at \in [Len(d) + 1 .. Len(w) -> Nat] :
        /\ \A j \in Len(d) + 1 .. Len(w) : FrameAt(s, at[j]) /\ s[at[j] + 3].value = w[j]
        /\ \A j, k \in Len(d) + 1 .. Len(w) : j < k => at[j] < at[k]
        /\ \A i \in Nat : FrameAt(s, i) => \E j \in Len(d) + 1 .. Len(w) : at[j] = i

\* t is what is left of s when n tokens leave its head.
Behind(s, n, t) ==
    /\ s \in Seq(Tokens) /\ t \in Seq(Tokens) /\ n \in 0 .. Len(s)
    /\ Len(t) = Len(s) - n /\ \A i \in 1 .. Len(t) : t[i] = s[n + i]

LEMMA BehindFrames ==
    ASSUME NEW s, NEW n, NEW t, Behind(s, n, t), NEW i \in Nat
    PROVE  /\ FrameAt(t, i) => FrameAt(s, n + i) /\ t[i + 3] = s[(n + i) + 3]
           /\ i > n /\ FrameAt(s, i) => FrameAt(t, i - n) /\ t[(i - n) + 3] = s[i + 3]
<1>1. /\ n \in Nat /\ Len(s) \in Nat /\ Len(t) \in Nat
      /\ Len(t) = Len(s) - n /\ \A j \in 1 .. Len(t) : t[j] = s[n + j]
    BY DEF Behind
<1>2. ASSUME NEW j \in Nat, j \in 1 .. Len(t) - 4
      PROVE  /\ t[j] = s[n + j] /\ t[j + 1] = s[(n + j) + 1] /\ t[j + 2] = s[(n + j) + 2]
             /\ t[j + 3] = s[(n + j) + 3] /\ t[j + 4] = s[(n + j) + 4]
             /\ n + j \in 1 .. Len(s) - 4
    <2>1. /\ j \in 1 .. Len(t) /\ j + 1 \in 1 .. Len(t) /\ j + 2 \in 1 .. Len(t)
          /\ j + 3 \in 1 .. Len(t) /\ j + 4 \in 1 .. Len(t)
        BY <1>1, <1>2
    <2>2. /\ n + (j + 1) = (n + j) + 1 /\ n + (j + 2) = (n + j) + 2
          /\ n + (j + 3) = (n + j) + 3 /\ n + (j + 4) = (n + j) + 4
          /\ n + j \in 1 .. Len(s) - 4
        BY <1>1, <1>2
    <2> QED BY <1>1, <2>1, <2>2
<1>3. ASSUME FrameAt(t, i)
      PROVE  FrameAt(s, n + i) /\ t[i + 3] = s[(n + i) + 3]
    <2>1. i \in 1 .. Len(t) - 4
        BY <1>3 DEF FrameAt
    <2> QED BY <1>2, <1>3, <2>1 DEF FrameAt
<1>4. ASSUME i > n, FrameAt(s, i)
      PROVE  FrameAt(t, i - n) /\ t[(i - n) + 3] = s[i + 3]
    <2>1. i \in 1 .. Len(s) - 4
        BY <1>4 DEF FrameAt
    <2>2. i - n \in Nat /\ i - n \in 1 .. Len(t) - 4 /\ n + (i - n) = i
        BY <1>1, <1>4, <2>1
    <2> DEFINE j == i - n
    <2>3. j \in Nat /\ j \in 1 .. Len(t) - 4 /\ n + j = i
        BY <2>2
    <2> HIDE DEF j
    <2>4. FrameAt(t, j) /\ t[j + 3] = s[i + 3]
        BY <1>2, <1>4, <2>3 DEF FrameAt
    <2> QED BY <2>4 DEF j
<1> QED BY <1>3, <1>4

\* No frame has begun in the tokens that are discarded: nothing is lost.
LEMMA WaitingBehind ==
    ASSUME NEW s, NEW n, NEW t, Behind(s, n, t), NEW d \in Seq(Nat), NEW w \in Seq(Nat),
           Waiting(s, d, w), \A i \in 1 .. n : ~FrameAt(s, i)
    PROVE  Waiting(t, d, w)
<1> DEFINE J == Len(d) + 1 .. Len(w)
<1>1. n \in Nat /\ Len(d) \in Nat /\ Len(w) \in Nat
    BY DEF Behind
<1>2. PICK at \in [J -> Nat] :
        /\ \A j \in J : FrameAt(s, at[j]) /\ s[at[j] + 3].value = w[j]
        /\ \A j, k \in J : j < k => at[j] < at[k]
        /\ \A i \in Nat : FrameAt(s, i) => \E j \in J : at[j] = i
    BY DEF Waiting
<1> HIDE DEF J
<1>3. ASSUME NEW j \in J PROVE at[j] \in Nat /\ at[j] > n
    <2>1. at[j] \in Nat /\ FrameAt(s, at[j])
        BY <1>2
    <2>2. at[j] >= 1
        BY <2>1 DEF FrameAt
    <2> QED BY <1>1, <2>1, <2>2
<1> DEFINE to == [j \in J |-> at[j] - n]
<1>4. to \in [J -> Nat] /\ \A j \in J : to[j] = at[j] - n
    BY <1>1, <1>3
<1> HIDE DEF to
<1>5. ASSUME NEW j \in J PROVE FrameAt(t, to[j]) /\ t[to[j] + 3].value = w[j]
    <2>1. FrameAt(t, at[j] - n) /\ t[(at[j] - n) + 3] = s[at[j] + 3]
        BY <1>2, <1>3, BehindFrames
    <2> QED BY <1>2, <1>4, <2>1
<1>6. ASSUME NEW j \in J, NEW k \in J, j < k PROVE to[j] < to[k]
    <2>1. at[j] < at[k] /\ at[j] \in Nat /\ at[k] \in Nat
        BY <1>2, <1>6
    <2> QED BY <1>1, <1>4, <2>1
<1>7. ASSUME NEW i \in Nat, FrameAt(t, i) PROVE \E j \in J : to[j] = i
    <2>1. FrameAt(s, n + i) /\ n + i \in Nat
        BY <1>1, <1>7, BehindFrames
    <2>2. PICK j \in J : at[j] = n + i
        BY <1>2, <2>1
    <2>3. to[j] = i
        BY <1>1, <1>4, <2>2
    <2> QED BY <2>3
<1>8. Len(d) <= Len(w) /\ \A j \in 1 .. Len(d) : w[j] = d[j]
    BY DEF Waiting
<1> QED BY <1>4, <1>5, <1>6, <1>7, <1>8 DEF Waiting, J

\* The frame at the head is the next of those that wait.
LEMMA WaitingTaken ==
    ASSUME NEW s, NEW t, Behind(s, 5, t), NEW d \in Seq(Nat), NEW w \in Seq(Nat),
           Waiting(s, d, w), FrameAt(s, 1), NEW n \in Nat, n = s[4].value
    PROVE  Waiting(t, Append(d, n), w)
<1> DEFINE J == Len(d) + 1 .. Len(w)
           e == Append(d, n)
           K == Len(e) + 1 .. Len(w)
<1>1. /\ Len(d) \in Nat /\ Len(w) \in Nat /\ Len(e) = Len(d) + 1
      /\ e[Len(d) + 1] = n /\ \A j \in 1 .. Len(d) : e[j] = d[j]
    BY Appended
<1> HIDE DEF e
<1>2. PICK at \in [J -> Nat] :
        /\ \A j \in J : FrameAt(s, at[j]) /\ s[at[j] + 3].value = w[j]
        /\ \A j, k \in J : j < k => at[j] < at[k]
        /\ \A i \in Nat : FrameAt(s, i) => \E j \in J : at[j] = i
    BY DEF Waiting
<1>3. PICK one \in J : at[one] = 1
    BY <1>2
<1>4. \A j \in J : at[j] \in Nat /\ at[j] >= 1
    BY <1>2 DEF FrameAt
<1>5. one = Len(d) + 1 /\ Len(d) + 1 \in J
    <2>1. Len(d) + 1 \in J
        BY <1>1, <1>3
    <2>2. ~(Len(d) + 1 < one)
        <3> SUFFICES ASSUME Len(d) + 1 < one PROVE FALSE
            OBVIOUS
        <3>1. at[Len(d) + 1] < at[one]
            BY <1>2, <1>3, <2>1
        <3>2. at[Len(d) + 1] \in Nat /\ at[Len(d) + 1] >= 1
            BY <1>4, <2>1
        <3> QED BY <1>3, <3>1, <3>2
    <2> QED BY <1>1, <1>3, <2>1, <2>2
<1>6. w[Len(d) + 1] = n
    <2>1. s[1 + 3].value = w[one]
        BY <1>2, <1>3
    <2> QED BY <1>5, <2>1
<1>7. Len(e) <= Len(w) /\ \A j \in 1 .. Len(e) : w[j] = e[j]
    <2>1. Len(e) <= Len(w)
        BY <1>1, <1>5
    <2>2. ASSUME NEW j \in 1 .. Len(e) PROVE w[j] = e[j]
        <3>1. j = Len(d) + 1 \/ j \in 1 .. Len(d)
            BY <1>1
        <3>2. \A k \in 1 .. Len(d) : w[k] = d[k]
            BY DEF Waiting
        <3> QED BY <1>1, <1>6, <3>1, <3>2
    <2> QED BY <2>1, <2>2
<1>8. ASSUME NEW j \in K PROVE j \in J /\ j # one
    BY <1>1, <1>5
<1>9. ASSUME NEW j \in K PROVE at[j] \in Nat /\ at[j] > 5 /\ FrameAt(s, at[j])
    <2>1. at[j] \in Nat /\ FrameAt(s, at[j]) /\ at[j] > 1
        <3>1. one < j
            BY <1>1, <1>5, <1>8
        <3> QED BY <1>2, <1>3, <1>8, <3>1
    <2>2. s[at[j]] = B
        BY <2>1 DEF FrameAt
    <2>3. s[2] # B /\ s[3] # B /\ s[4] # B /\ s[5] # B
        <3>1. /\ s[1 + 1] = R /\ s[1 + 2] = Token("data", 1)
              /\ s[1 + 3] = Token("data", s[1 + 3].value)
              /\ s[1 + 4] = Token("sum", 149 + s[1 + 3].value)
            BY DEF FrameAt
        <3>2. s[2] = R /\ s[3] = Token("data", 1)
            BY <3>1
        <3>3. \E v : s[4] = Token("data", v)
            BY <3>1
        <3>4. \E v : s[5] = Token("sum", v)
            BY <3>1
        <3> QED BY <3>2, <3>3, <3>4, TokenFacts, Zenon
    <2>4. at[j] # 2 /\ at[j] # 3 /\ at[j] # 4 /\ at[j] # 5
        BY <2>2, <2>3
    <2>5. \A x \in Nat : x > 1 /\ x # 2 /\ x # 3 /\ x # 4 /\ x # 5 => x > 5
        OBVIOUS
    <2> QED BY <2>1, <2>4, <2>5
<1> HIDE DEF J, K
<1> DEFINE to == [j \in K |-> at[j] - 5]
<1>10. to \in [K -> Nat] /\ \A j \in K : to[j] = at[j] - 5
    BY <1>9
<1> HIDE DEF to
<1>11. ASSUME NEW j \in K PROVE FrameAt(t, to[j]) /\ t[to[j] + 3].value = w[j]
    <2>1. FrameAt(t, at[j] - 5) /\ t[(at[j] - 5) + 3] = s[at[j] + 3]
        BY <1>9, BehindFrames
    <2> QED BY <1>2, <1>8, <1>10, <2>1
<1>12. ASSUME NEW j \in K, NEW k \in K, j < k PROVE to[j] < to[k]
    <2>1. at[j] < at[k] /\ at[j] \in Nat /\ at[k] \in Nat
        BY <1>2, <1>8, <1>12
    <2> QED BY <1>10, <2>1
<1>13. ASSUME NEW i \in Nat, FrameAt(t, i) PROVE \E j \in K : to[j] = i
    <2>1. FrameAt(s, 5 + i) /\ 5 + i \in Nat
        BY <1>13, BehindFrames
    <2>2. PICK j \in J : at[j] = 5 + i
        BY <1>2, <2>1
    <2>3. j # one
        BY <1>3, <2>2
    <2>4. j \in K
        BY <1>1, <1>5, <2>2, <2>3 DEF J, K
    <2>5. to[j] = i
        BY <1>10, <2>2, <2>4
    <2> QED BY <2>4, <2>5
<1>14. Waiting(t, e, w)
    BY <1>7, <1>10, <1>11, <1>12, <1>13 DEF Waiting, K
<1> QED BY <1>14 DEF e

LEMMA SumTells ==
    ASSUME NEW v \in Nat, NEW n \in Nat, Token("sum", 149 + v) = Token("sum", 149 + n)
    PROVE  v = n
<1>1. Token("sum", 149 + v).value = Token("sum", 149 + n).value
    OBVIOUS
<1>2. Token("sum", 149 + v).value = 149 + v /\ Token("sum", 149 + n).value = 149 + n
    BY DEF Token
<1> QED BY <1>1, <1>2

LEMMA BegunFacts ==
    ASSUME NEW s \in Seq(Tokens), NEW i \in Nat, Begun(s, i), NEW j \in i + 1 .. Len(s)
    PROVE  s[j] # B /\ s[j].kind # "sum"
<1>1. i \in 1 .. Len(s) /\ Len(s) - i <= 3 /\ Len(s) \in Nat
    BY DEF Begun
<1>2. j = i + 1 \/ j = i + 2 \/ j = i + 3
    BY <1>1
<1>3. B.kind = "B"
    BY TokenFacts
<1> QED BY <1>1, <1>2, <1>3, TokenFacts DEF Begun

LEMMA SameAsFrame ==
    ASSUME NEW q \in Seq(Tokens), NEW n \in Nat, Len(q) = 5,
           q[1] = B, q[2] = R, q[3] = Token("data", 1), q[4] = Token("data", n),
           q[5] = Token("sum", 149 + n)
    PROVE  q = Encode(n)
<1>1. /\ Encode(n) \in Seq(Tokens) /\ Len(Encode(n)) = 5
      /\ \A k \in 1 .. 5 : q[k] = Encode(n)[k]
    BY EncodeFacts
<1> QED BY <1>1

\* What the stream held, and the chunk that was fed.
Ending(s, b) ==
    /\ Begun(b, 1) => Ends(s, b)
    /\ \A i \in Nat : Begun(s, i) => Len(b) = Len(s) - i + 1 /\ Ends(s, b)

\* What is new in the stream t, when the piece q of frame n was fed to s, in which the
\* last chunk was b: the frame, if q completes it, alone or together with b.
Completed(s, b, q, n, t) ==
    /\ \A i \in Nat : i <= Len(s) - 4 =>
            (FrameAt(t, i) <=> FrameAt(s, i)) /\ (FrameAt(s, i) => t[i + 3] = s[i + 3])
    /\ \A i \in Nat : FrameAt(t, i) /\ ~(i <= Len(s) - 4) =>
            i = Len(t) - 4 /\ Encode(n) \in {q, b \o q}
    /\ Encode(n) \in {q, b \o q} =>
            /\ Len(t) - 4 \in Nat /\ Len(t) - 4 > Len(s) - 4
            /\ FrameAt(t, Len(t) - 4) /\ t[(Len(t) - 4) + 3].value = n

LEMMA FedTokens ==
    ASSUME NEW s \in Seq(Tokens), NEW b \in Seq(Tokens), Ending(s, b),
           NEW q \in Seq(Tokens), NEW n \in Nat, Len(q) >= 1 /\ Len(q) <= 5,
           \A i \in 2 .. Len(q) : q[i] # B,
           \A i \in 1 .. Len(q) : q[i].kind = "sum" => i = Len(q) /\ q[i] = Token("sum", 149 + n),
           q[1] = B \/ q[Len(q)].kind = "sum",
           NEW t \in Seq(Tokens), Len(t) = Len(s) + Len(q),
           \A i \in 1 .. Len(s) : t[i] = s[i],
           \A i \in 1 .. Len(q) : t[Len(s) + i] = q[i]
    PROVE  Completed(s, b, q, n, t) /\ Ending(t, q)
<1>1. /\ q \in Seq(Tokens) /\ n \in Nat /\ Len(q) >= 1 /\ Len(q) <= 5
      /\ \A i \in 2 .. Len(q) : q[i] # B
      /\ \A i \in 1 .. Len(q) : q[i].kind = "sum" => i = Len(q) /\ q[i] = Token("sum", 149 + n)
      /\ q[1] = B \/ q[Len(q)].kind = "sum"
    OBVIOUS
<1>2. Encode(n) \in {q, b \o q} <=> Encode(n) = q \/ Encode(n) = b \o q
    OBVIOUS
<1>3. /\ t \in Seq(Tokens) /\ Len(t) = Len(s) + Len(q) /\ Len(s) \in Nat
      /\ \A i \in 1 .. Len(s) : t[i] = s[i]
      /\ \A i \in 1 .. Len(q) : t[Len(s) + i] = q[i]
    OBVIOUS
<1>12. Len(s) \in Nat /\ Len(q) \in Nat /\ Len(q) >= 1 /\ Len(q) <= 5 /\ Len(t) = Len(s) + Len(q)
    OBVIOUS
<1>4. ASSUME NEW i \in Nat, i <= Len(s) - 4
      PROVE  (FrameAt(t, i) <=> FrameAt(s, i)) /\ (FrameAt(s, i) => t[i + 3] = s[i + 3])
    <2>1. CASE i = 0
        BY <2>1 DEF FrameAt
    <2>2. CASE i # 0
        <3>1. /\ i \in 1 .. Len(s) /\ i + 1 \in 1 .. Len(s) /\ i + 2 \in 1 .. Len(s)
              /\ i + 3 \in 1 .. Len(s) /\ i + 4 \in 1 .. Len(s)
              /\ i \in 1 .. Len(s) - 4 /\ i \in 1 .. Len(t) - 4
            BY <1>1, <1>3, <1>4, <2>2
        <3>2. /\ t[i] = s[i] /\ t[i + 1] = s[i + 1] /\ t[i + 2] = s[i + 2]
              /\ t[i + 3] = s[i + 3] /\ t[i + 4] = s[i + 4]
            BY <1>3, <3>1
        <3> QED BY <3>1, <3>2 DEF FrameAt
    <2> QED BY <2>1, <2>2
<1>5. ASSUME NEW i \in Nat, FrameAt(t, i), ~(i <= Len(s) - 4)
      PROVE  i = Len(t) - 4 /\ Encode(n) \in {q, b \o q}
    <2>1. i \in 1 .. Len(t) - 4
        BY <1>5 DEF FrameAt
    <2> DEFINE j == i + 4 - Len(s)
               v == t[i + 3].value
    <2>2. j \in 1 .. Len(q) /\ Len(s) + j = i + 4
        BY <1>1, <1>3, <1>5, <2>1
    <2>3. q[j] = t[i + 4] /\ t[i + 4] = Token("sum", 149 + v)
        BY <1>3, <1>5, <2>2 DEF FrameAt
    <2>4. j = Len(q) /\ Token("sum", 149 + v) = Token("sum", 149 + n)
        <3> DEFINE x == 149 + v
        <3>1. q[j] = Token("sum", x)
            BY <2>3
        <3> HIDE DEF x, j, v
        <3>2. q[j].kind = "sum"
            BY <3>1, TokenFacts
        <3>3. j = Len(q) /\ q[j] = Token("sum", 149 + n)
            BY <1>1, <2>2, <3>2
        <3> QED BY <3>1, <3>3 DEF x
    <2>5. v \in Nat
        <3>1. i + 3 \in 1 .. Len(t)
            BY <1>3, <2>1
        <3>2. t[i + 3] \in Tokens
            BY <1>3, <3>1
        <3> QED BY <3>2, TokenFacts
    <2>6. v = n
        <3> HIDE DEF v
        <3> QED BY <1>1, <2>4, <2>5, SumTells
    <2>7. i = Len(t) - 4
        BY <1>1, <1>3, <2>2, <2>4
    <2>8. /\ t[i] = B /\ t[i + 1] = R /\ t[i + 2] = Token("data", 1)
          /\ t[i + 3] = Token("data", n) /\ t[i + 4] = Token("sum", 149 + n)
        BY <1>5, <2>6 DEF FrameAt
    <2> HIDE DEF j, v
    <2>9. CASE i > Len(s)
        <3>1. i = Len(s) + 1 /\ Len(q) = 5
            <4>1. \A x, y \in Nat : y <= 5 /\ x + y - 4 > x => y = 5 /\ x + y - 4 = x + 1
                OBVIOUS
            <4>2. i = Len(s) + Len(q) - 4 /\ Len(s) + Len(q) - 4 > Len(s)
                BY <1>12, <2>7, <2>9
            <4>3. Len(q) = 5 /\ Len(s) + Len(q) - 4 = Len(s) + 1
                BY <1>12, <4>1, <4>2, Zenon
            <4> QED BY <4>2, <4>3, Zenon
        <3>2. /\ q[1] = t[Len(s) + 1] /\ q[2] = t[Len(s) + 2] /\ q[3] = t[Len(s) + 3]
              /\ q[4] = t[Len(s) + 4] /\ q[5] = t[Len(s) + 5]
            BY <1>3, <3>1
        <3>3. Len(s) + 2 = i + 1 /\ Len(s) + 3 = i + 2 /\ Len(s) + 4 = i + 3 /\ Len(s) + 5 = i + 4
            BY <1>3, <3>1
        <3>4. /\ q[1] = B /\ q[2] = R /\ q[3] = Token("data", 1) /\ q[4] = Token("data", n)
              /\ q[5] = Token("sum", 149 + n)
            BY <2>8, <3>1, <3>2, <3>3
        <3>5. q = Encode(n)
            BY <1>1, <3>1, <3>4, SameAsFrame
        <3> QED BY <1>2, <2>7, <3>5
    <2>10. CASE ~(i > Len(s))
        <3>1. i \in 1 .. Len(s) /\ Len(s) - i <= 3
            BY <1>3, <1>5, <2>1, <2>10
        <3>2. Begun(s, i)
            <4>1. t[i + 3].kind = "data"
                BY <2>8, TokenFacts
            <4>2. /\ i + 1 <= Len(s) => i + 1 \in 1 .. Len(s)
                  /\ i + 2 <= Len(s) => i + 2 \in 1 .. Len(s)
                  /\ i + 3 <= Len(s) => i + 3 \in 1 .. Len(s)
                BY <1>3, <3>1
            <4> QED BY <1>3, <2>8, <3>1, <4>1, <4>2 DEF Begun
        <3>3. Len(b) = Len(s) - i + 1 /\ Ends(s, b)
            BY <3>2 DEF Ending
        <3> DEFINE r == b \o q
        <3>4. /\ r \in Seq(Tokens) /\ Len(r) = Len(b) + Len(q)
              /\ \A k \in 1 .. Len(b) : r[k] = b[k]
              /\ \A k \in 1 .. Len(q) : r[Len(b) + k] = q[k]
            BY <1>1, JoinedFacts
        <3> HIDE DEF r
        <3>5. Len(r) = 5
            BY <1>1, <1>3, <2>7, <3>3, <3>4
        <3>6. ASSUME NEW k \in 1 .. 5 PROVE r[k] = t[i - 1 + k]
            <4>1. CASE k <= Len(b)
                <5>1. k \in 1 .. Len(b) /\ Len(s) - Len(b) + k = i - 1 + k /\ i - 1 + k \in 1 .. Len(s)
                    BY <1>3, <3>1, <3>3, <4>1, SMTT(30)
                <5>2. s[Len(s) - Len(b) + k] = b[k]
                    BY <3>3, <5>1 DEF Ends
                <5> QED BY <1>3, <3>4, <5>1, <5>2
            <4>2. CASE ~(k <= Len(b))
                <5>1. /\ k - Len(b) \in 1 .. Len(q) /\ Len(b) + (k - Len(b)) = k
                      /\ Len(s) + (k - Len(b)) = i - 1 + k
                    BY <1>12, <2>7, <3>1, <3>3, <4>2
                <5> QED BY <1>3, <3>4, <5>1, ZenonT(30)
            <4> QED BY <4>1, <4>2
        <3>7. /\ r[1] = B /\ r[2] = R /\ r[3] = Token("data", 1) /\ r[4] = Token("data", n)
              /\ r[5] = Token("sum", 149 + n)
            <4>1. /\ i - 1 + 1 = i /\ i - 1 + 2 = i + 1 /\ i - 1 + 3 = i + 2
                  /\ i - 1 + 4 = i + 3 /\ i - 1 + 5 = i + 4
                BY <2>1
            <4>2. /\ r[1] = t[i - 1 + 1] /\ r[2] = t[i - 1 + 2] /\ r[3] = t[i - 1 + 3]
                  /\ r[4] = t[i - 1 + 4] /\ r[5] = t[i - 1 + 5]
                BY <3>6, 1 \in 1 .. 5, 2 \in 1 .. 5, 3 \in 1 .. 5, 4 \in 1 .. 5, 5 \in 1 .. 5, Zenon
            <4> QED BY <2>8, <4>1, <4>2
        <3>8. r = Encode(n)
            BY <1>1, <3>4, <3>5, <3>7, SameAsFrame
        <3> QED BY <1>2, <2>7, <3>8 DEF r
    <2> QED BY <2>9, <2>10
<1>6. ASSUME NEW i \in Nat, i = Len(t) - 4, i >= 1,
             t[i] = B, t[i + 1] = R, t[i + 2] = Token("data", 1), t[i + 3] = Token("data", n),
             t[i + 4] = Token("sum", 149 + n)
      PROVE  FrameAt(t, i) /\ t[i + 3].value = n
    <2>1. t[i + 3].value = n /\ i \in 1 .. Len(t) - 4
        BY <1>3, <1>6, TokenFacts
    <2> QED BY <1>6, <2>1 DEF FrameAt
<1>7. ASSUME Encode(n) = q
      PROVE  /\ Len(t) - 4 \in Nat /\ Len(t) - 4 > Len(s) - 4
             /\ FrameAt(t, Len(t) - 4) /\ t[(Len(t) - 4) + 3].value = n
    <2>1. /\ Len(q) = 5 /\ q[1] = B /\ q[2] = R /\ q[3] = Token("data", 1)
          /\ q[4] = Token("data", n) /\ q[5] = Token("sum", 149 + n)
        BY <1>1, <1>7, EncodeFacts
    <2> DEFINE i == Len(s) + 1
    <2>2. /\ i \in Nat /\ i = Len(t) - 4 /\ i >= 1 /\ i > Len(s) - 4
          /\ Len(s) + 2 = i + 1 /\ Len(s) + 3 = i + 2 /\ Len(s) + 4 = i + 3 /\ Len(s) + 5 = i + 4
        BY <1>3, <2>1
    <2>3. /\ t[Len(s) + 1] = q[1] /\ t[Len(s) + 2] = q[2] /\ t[Len(s) + 3] = q[3]
          /\ t[Len(s) + 4] = q[4] /\ t[Len(s) + 5] = q[5]
        BY <1>3, <2>1
    <2>4. t[i] = q[1] /\ t[i + 1] = q[2] /\ t[i + 2] = q[3] /\ t[i + 3] = q[4] /\ t[i + 4] = q[5]
        BY <2>2, <2>3
    <2> HIDE DEF i
    <2>5. FrameAt(t, i) /\ t[i + 3].value = n
        BY <1>6, <2>1, <2>2, <2>4
    <2> QED BY <2>2, <2>5
<1>8. ASSUME Encode(n) = b \o q
      PROVE  /\ Len(t) - 4 \in Nat /\ Len(t) - 4 > Len(s) - 4
             /\ FrameAt(t, Len(t) - 4) /\ t[(Len(t) - 4) + 3].value = n
    <2> DEFINE r == b \o q
    <2>1. /\ r \in Seq(Tokens) /\ Len(r) = Len(b) + Len(q) /\ Len(b) \in Nat
          /\ \A k \in 1 .. Len(b) : r[k] = b[k]
          /\ \A k \in 1 .. Len(q) : r[Len(b) + k] = q[k]
        BY <1>1, JoinedFacts
    <2>2. r = Encode(n)
        BY <1>8
    <2> HIDE DEF r
    <2>3. /\ Len(r) = 5 /\ r[1] = B /\ r[2] = R /\ r[3] = Token("data", 1)
          /\ r[4] = Token("data", n) /\ r[5] = Token("sum", 149 + n)
        BY <1>1, <2>2, EncodeFacts
    <2>4. Len(b) + Len(q) = 5 /\ Len(b) \in Nat /\ Len(b) <= 4
        <3>1. Len(r) = Len(b) + Len(q) /\ Len(b) \in Nat /\ Len(r) = 5
            BY <2>1, <2>3, Zenon
        <3>2. \A x, y \in Nat : y >= 1 /\ x + y = 5 => x <= 4
            OBVIOUS
        <3>3. Len(b) + Len(q) = 5
            BY <3>1, Zenon
        <3> QED BY <1>12, <3>1, <3>2, <3>3, Zenon
    <2>5. CASE Len(b) = 0
        <3>1. /\ Len(q) = 5
              /\ r[0 + 1] = q[1] /\ r[0 + 2] = q[2] /\ r[0 + 3] = q[3] /\ r[0 + 4] = q[4] /\ r[0 + 5] = q[5]
            <4>1. Len(q) = 5 /\ 1 \in 1 .. Len(q) /\ 2 \in 1 .. Len(q) /\ 3 \in 1 .. Len(q)
                  /\ 4 \in 1 .. Len(q) /\ 5 \in 1 .. Len(q)
                <5>1. Len(q) = 5
                    BY <1>12, <2>4, <2>5
                <5> QED BY <5>1
            <4>2. \A k \in 1 .. Len(q) : r[0 + k] = q[k]
                BY <2>1, <2>5
            <4> QED BY <4>1, <4>2
        <3>2. /\ q[1] = B /\ q[2] = R /\ q[3] = Token("data", 1)
              /\ q[4] = Token("data", n) /\ q[5] = Token("sum", 149 + n)
            BY <2>3, <3>1
        <3>3. q = Encode(n)
            BY <3>1, <3>2, SameAsFrame, Zenon
        <3> QED BY <1>7, <3>3
    <2>6. CASE Len(b) # 0
        <3>1. Begun(b, 1)
            <4>1. r[4].kind = "data"
                BY <2>3, TokenFacts
            <4>2. /\ 1 \in 1 .. Len(b) /\ Len(b) - 1 <= 3
                  /\ 1 + 1 <= Len(b) => 2 \in 1 .. Len(b)
                  /\ 1 + 2 <= Len(b) => 3 \in 1 .. Len(b)
                  /\ 1 + 3 <= Len(b) => 4 \in 1 .. Len(b)
                <5>1. \A x \in Nat : x <= 4 /\ x # 0 =>
                        /\ 1 \in 1 .. x /\ x - 1 <= 3
                        /\ 1 + 1 <= x => 2 \in 1 .. x
                        /\ 1 + 2 <= x => 3 \in 1 .. x
                        /\ 1 + 3 <= x => 4 \in 1 .. x
                    OBVIOUS
                <5> QED BY <2>4, <2>6, <5>1, Zenon
            <4> QED BY <2>1, <2>3, <4>1, <4>2 DEF Begun
        <3>2. Ends(s, b)
            BY <3>1 DEF Ending
        <3> DEFINE i == Len(s) - Len(b) + 1
        <3>3. i \in Nat /\ i >= 1 /\ i = Len(t) - 4 /\ i > Len(s) - 4 /\ i <= Len(s)
            <4>1. Len(b) <= Len(s) /\ Len(b) \in Nat /\ Len(b) >= 1 /\ Len(b) <= 4
                BY <2>4, <2>6, <3>2 DEF Ends
            <4> QED BY <1>12, <2>4, <4>1
        <3>4. ASSUME NEW k \in 1 .. 5 PROVE t[i - 1 + k] = r[k]
            <4>1. CASE k <= Len(b)
                <5>1. k \in 1 .. Len(b) /\ Len(s) - Len(b) + k = i - 1 + k /\ i - 1 + k \in 1 .. Len(s)
                    BY <1>12, <2>4, <3>3, <4>1
                <5>2. s[Len(s) - Len(b) + k] = b[k]
                    BY <3>2, <5>1 DEF Ends
                <5> QED BY <1>3, <2>1, <5>1, <5>2
            <4>2. CASE ~(k <= Len(b))
                <5>1. /\ k - Len(b) \in 1 .. Len(q) /\ Len(b) + (k - Len(b)) = k
                      /\ Len(s) + (k - Len(b)) = i - 1 + k
                    BY <1>12, <2>4, <4>2
                <5> QED BY <1>3, <2>1, <5>1, ZenonT(30)
            <4> QED BY <4>1, <4>2
        <3> HIDE DEF i
        <3>5. /\ t[i] = r[1] /\ t[i + 1] = r[2] /\ t[i + 2] = r[3] /\ t[i + 3] = r[4] /\ t[i + 4] = r[5]
            <4>1. /\ i - 1 + 1 = i /\ i - 1 + 2 = i + 1 /\ i - 1 + 3 = i + 2
                  /\ i - 1 + 4 = i + 3 /\ i - 1 + 5 = i + 4
                BY <3>3
            <4>2. /\ r[1] = t[i - 1 + 1] /\ r[2] = t[i - 1 + 2] /\ r[3] = t[i - 1 + 3]
                  /\ r[4] = t[i - 1 + 4] /\ r[5] = t[i - 1 + 5]
                BY <3>4, 1 \in 1 .. 5, 2 \in 1 .. 5, 3 \in 1 .. 5, 4 \in 1 .. 5, 5 \in 1 .. 5, Zenon
            <4> QED BY <4>1, <4>2
        <3>6. FrameAt(t, i) /\ t[i + 3].value = n
            BY <1>6, <2>3, <3>3, <3>5
        <3> QED BY <3>3, <3>6
    <2> QED BY <2>5, <2>6
<1>9. Ends(t, q)
    <2>1. Len(q) <= Len(t) /\ Len(t) - Len(q) = Len(s)
        BY <1>1, <1>3
    <2> QED BY <1>3, <2>1 DEF Ends
<1>10. ASSUME NEW i \in Nat, Begun(t, i)
       PROVE  Len(q) = Len(t) - i + 1
    <2>1. i \in 1 .. Len(t) /\ t[i] = B
        BY <1>10 DEF Begun
    <2>2. CASE i > Len(s)
        <3>1. i - Len(s) \in 1 .. Len(q) /\ Len(s) + (i - Len(s)) = i
            BY <1>1, <1>3, <2>1, <2>2
        <3>2. q[i - Len(s)] = B
            BY <1>3, <2>1, <3>1
        <3>3. i - Len(s) = 1
            BY <1>1, <3>1, <3>2
        <3> QED BY <1>1, <1>3, <2>1, <3>3
    <2>3. CASE ~(i > Len(s))
        <3>1. Len(s) + 1 \in i + 1 .. Len(t) /\ Len(t) \in i + 1 .. Len(t) /\ Len(s) + Len(q) = Len(t)
              /\ 1 \in 1 .. Len(q) /\ Len(q) \in 1 .. Len(q)
            BY <1>12, <2>1, <2>3
        <3>2. t[Len(s) + 1] # B /\ t[Len(t)].kind # "sum"
            BY <1>3, <1>10, <3>1, BegunFacts
        <3>3. t[Len(s) + 1] = q[1] /\ t[Len(t)] = q[Len(q)]
            BY <1>3, <3>1
        <3> QED BY <1>1, <3>2, <3>3
    <2> QED BY <2>2, <2>3
<1>11. Ending(t, q)
    BY <1>9, <1>10 DEF Ending
<1> QED BY <1>2, <1>4, <1>5, <1>7, <1>8, <1>11 DEF Completed

LEMMA FedFrames ==
    ASSUME NEW s \in Seq(Tokens), NEW b \in Seq(Tokens), Ending(s, b), NEW c \in Pieces
    PROVE  /\ s \o c.tokens \in Seq(Tokens) /\ Len(s \o c.tokens) = Len(s) + Len(c.tokens)
           /\ Len(c.tokens) >= 1 /\ Len(c.tokens) <= 5 /\ Len(c.tokens) \in Nat
           /\ c.tokens \in Seq(Tokens) /\ c.of \in Nat
           /\ \A i \in 1 .. Len(s) : (s \o c.tokens)[i] = s[i]
           /\ Completed(s, b, c.tokens, c.of, s \o c.tokens)
           /\ Ending(s \o c.tokens, c.tokens)
<1> DEFINE q == c.tokens
           n == c.of
           t == s \o q
<1>1. /\ q \in Seq(Tokens) /\ n \in Nat /\ Len(q) >= 1 /\ Len(q) <= 5
      /\ \A i \in 2 .. Len(q) : q[i] # B
      /\ \A i \in 1 .. Len(q) : q[i].kind = "sum" => i = Len(q) /\ q[i] = Token("sum", 149 + n)
      /\ q[1] = B \/ q[Len(q)].kind = "sum"
    BY DEF Pieces
<1> HIDE DEF q, n
<1>2. /\ t \in Seq(Tokens) /\ Len(t) = Len(s) + Len(q) /\ Len(q) \in Nat
      /\ \A i \in 1 .. Len(s) : t[i] = s[i]
      /\ \A i \in 1 .. Len(q) : t[Len(s) + i] = q[i]
    BY <1>1, JoinedFacts
<1> HIDE DEF t
<1>3. Completed(s, b, q, n, t) /\ Ending(t, q)
    BY <1>1, <1>2, FedTokens, ZenonT(30)
<1> QED BY <1>1, <1>2, <1>3 DEF q, n, t

\* The frame that the chunk completed waits behind the others.
LEMMA WaitingFed ==
    ASSUME NEW s \in Seq(Tokens), NEW b, NEW q, NEW n \in Nat, NEW t \in Seq(Tokens),
           Completed(s, b, q, n, t), NEW d \in Seq(Nat), NEW w \in Seq(Nat), Waiting(s, d, w)
    PROVE  Waiting(t, d, IF Encode(n) \in {q, b \o q} THEN Append(w, n) ELSE w)
<1> DEFINE J == Len(d) + 1 .. Len(w)
           Done == Encode(n) \in {q, b \o q}
<1>1. /\ \A i \in Nat : i <= Len(s) - 4 =>
            (FrameAt(t, i) <=> FrameAt(s, i)) /\ (FrameAt(s, i) => t[i + 3] = s[i + 3])
      /\ \A i \in Nat : FrameAt(t, i) /\ ~(i <= Len(s) - 4) => i = Len(t) - 4 /\ Done
      /\ Done => /\ Len(t) - 4 \in Nat /\ Len(t) - 4 > Len(s) - 4
                 /\ FrameAt(t, Len(t) - 4) /\ t[(Len(t) - 4) + 3].value = n
    BY DEF Completed
<1> HIDE DEF Done
<1>2. PICK at \in [J -> Nat] :
        /\ \A j \in J : FrameAt(s, at[j]) /\ s[at[j] + 3].value = w[j]
        /\ \A j, k \in J : j < k => at[j] < at[k]
        /\ \A i \in Nat : FrameAt(s, i) => \E j \in J : at[j] = i
    BY DEF Waiting
<1>3. Len(d) \in Nat /\ Len(w) \in Nat /\ Len(s) \in Nat /\ Len(d) <= Len(w)
    BY DEF Waiting
<1>4. \A j \in 1 .. Len(d) : w[j] = d[j]
    BY DEF Waiting
<1>5. ASSUME NEW i \in Nat, FrameAt(s, i)
      PROVE  i <= Len(s) - 4 /\ FrameAt(t, i) /\ t[i + 3] = s[i + 3]
    <2>1. i <= Len(s) - 4
        BY <1>3, <1>5 DEF FrameAt
    <2> QED BY <1>1, <1>5, <2>1
<1>6. ASSUME NEW j \in J
      PROVE  at[j] \in Nat /\ at[j] <= Len(s) - 4 /\ FrameAt(t, at[j]) /\ t[at[j] + 3].value = w[j]
    <2>1. at[j] \in Nat /\ FrameAt(s, at[j]) /\ s[at[j] + 3].value = w[j]
        BY <1>2
    <2> QED BY <1>5, <2>1
<1>7. CASE ~Done
    <2>1. ASSUME NEW i \in Nat, FrameAt(t, i) PROVE \E j \in J : at[j] = i
        <3>1. FrameAt(s, i)
            BY <1>1, <1>7, <2>1
        <3> QED BY <1>2, <3>1
    <2>2. Waiting(t, d, w)
        BY <1>2, <1>3, <1>4, <1>6, <2>1 DEF Waiting
    <2> QED BY <1>7, <2>2 DEF Done
<1>8. CASE Done
    <2> DEFINE v == Append(w, n)
               K == Len(d) + 1 .. Len(v)
               z == Len(t) - 4
               new == Len(w) + 1
               to == [j \in K |-> IF j = new THEN z ELSE at[j]]
    <2>1. /\ v \in Seq(Nat) /\ Len(v) = new /\ v[new] = n /\ \A j \in 1 .. Len(w) : v[j] = w[j]
        BY Appended
    <2>2. z \in Nat /\ z > Len(s) - 4 /\ FrameAt(t, z) /\ t[z + 3].value = n
        BY <1>1, <1>8
    <2> HIDE DEF v, z
    <2>3. /\ new \in K /\ \A j \in K : j # new => j \in J /\ j \in 1 .. Len(w) /\ j < new
          /\ \A j \in J : j \in K /\ j # new
        BY <1>3, <2>1, SMTT(30)
    <2>4. \A j \in K : at[j] \in Nat \/ j = new
        BY <1>6, <2>3
    <2> HIDE DEF K, J, new
    <2>5. to \in [K -> Nat] /\ to[new] = z /\ \A j \in K : j # new => to[j] = at[j]
        BY <2>2, <2>3, <2>4
    <2> HIDE DEF to
    <2>6. ASSUME NEW j \in K PROVE FrameAt(t, to[j]) /\ t[to[j] + 3].value = v[j]
        <3>1. CASE j = new
            BY <2>1, <2>2, <2>5, <3>1
        <3>2. CASE j # new
            BY <1>6, <2>1, <2>3, <2>5, <3>2
        <3> QED BY <3>1, <3>2
    <2>7. ASSUME NEW j \in K, NEW k \in K, j < k PROVE to[j] < to[k]
        <3>1. j \in Nat /\ k \in Nat /\ new \in Nat
            BY <1>3 DEF K, new
        <3>2. j # new /\ j \in J
            <4>1. k = new \/ k < new
                BY <2>3
            <4>2. j # new
                BY <2>7, <3>1, <4>1
            <4> QED BY <2>3, <4>2
        <3>3. to[j] = at[j] /\ at[j] \in Nat /\ at[j] <= Len(s) - 4
            BY <1>6, <2>5, <3>2
        <3>4. CASE k = new
            BY <1>3, <2>2, <2>5, <3>3, <3>4
        <3>5. CASE k # new
            <4>1. k \in J /\ to[k] = at[k]
                BY <2>3, <2>5, <3>5
            <4> QED BY <1>2, <2>7, <3>2, <3>3, <4>1
        <3> QED BY <3>4, <3>5
    <2>8. ASSUME NEW i \in Nat, FrameAt(t, i) PROVE \E j \in K : to[j] = i
        <3>1. CASE i <= Len(s) - 4
            <4>1. FrameAt(s, i)
                BY <1>1, <2>8, <3>1
            <4>2. PICK j \in J : at[j] = i
                BY <1>2, <4>1
            <4> QED BY <2>3, <2>5, <4>2
        <3>2. CASE ~(i <= Len(s) - 4)
            <4>1. i = z
                BY <1>1, <2>8, <3>2 DEF z
            <4> QED BY <2>3, <2>5, <4>1
        <3> QED BY <3>1, <3>2
    <2>9. Len(d) <= Len(v) /\ \A j \in 1 .. Len(d) : v[j] = d[j]
        <3>1. \A j \in 1 .. Len(d) : j \in 1 .. Len(w)
            BY <1>3
        <3> QED BY <1>3, <1>4, <2>1, <3>1 DEF new
    <2>10. Waiting(t, d, v)
        BY <2>5, <2>6, <2>7, <2>8, <2>9 DEF Waiting, K
    <2> QED BY <1>8, <2>10 DEF Done, v
<1> QED BY <1>7, <1>8

\* Nor does the loop cut off the beginning of a frame.
LEMMA EndingBehind ==
    ASSUME NEW s, NEW n, NEW t, Behind(s, n, t), NEW b \in Seq(Tokens), Ending(s, b),
           Begun(b, 1) => Len(b) <= Len(t)
    PROVE  Ending(t, b)
<1>1. /\ n \in Nat /\ Len(s) \in Nat /\ Len(t) \in Nat /\ Len(b) \in Nat
      /\ Len(t) = Len(s) - n /\ \A j \in 1 .. Len(t) : t[j] = s[n + j]
    BY DEF Behind
<1>2. ASSUME Ends(s, b), Len(b) <= Len(t) PROVE Ends(t, b)
    <2> SUFFICES ASSUME NEW k \in 1 .. Len(b) PROVE t[Len(t) - Len(b) + k] = b[k]
        BY <1>2 DEF Ends
    <2>1. /\ Len(t) - Len(b) + k \in 1 .. Len(t)
          /\ n + (Len(t) - Len(b) + k) = Len(s) - Len(b) + k
        BY <1>1, <1>2
    <2> QED BY <1>1, <1>2, <2>1 DEF Ends
<1>3. ASSUME NEW i \in Nat, Begun(t, i)
      PROVE  Len(b) = Len(t) - i + 1 /\ Ends(t, b)
    <2>1. i \in 1 .. Len(t) /\ Len(t) - i <= 3
        BY <1>3 DEF Begun
    <2>2. /\ n + i \in Nat /\ n + i \in 1 .. Len(s) /\ Len(s) - (n + i) <= 3
          /\ n + (i + 1) = (n + i) + 1 /\ n + (i + 2) = (n + i) + 2 /\ n + (i + 3) = (n + i) + 3
          /\ (n + i) + 1 <= Len(s) => i + 1 <= Len(t) /\ i + 1 \in 1 .. Len(t)
          /\ (n + i) + 2 <= Len(s) => i + 2 <= Len(t) /\ i + 2 \in 1 .. Len(t)
          /\ (n + i) + 3 <= Len(s) => i + 3 <= Len(t) /\ i + 3 \in 1 .. Len(t)
        BY <1>1, <2>1
    <2>3. Begun(s, n + i)
        BY <1>1, <1>3, <2>1, <2>2 DEF Begun
    <2>4. Len(b) = Len(s) - (n + i) + 1 /\ Ends(s, b)
        BY <2>2, <2>3 DEF Ending
    <2>5. Len(b) = Len(t) - i + 1 /\ Len(b) <= Len(t)
        BY <1>1, <2>1, <2>4
    <2> QED BY <1>2, <2>4, <2>5
<1>4. Begun(b, 1) => Ends(t, b)
    BY <1>2 DEF Ending
<1> QED BY <1>3, <1>4 DEF Ending

LEMMA SmallestMarker ==
    ASSUME NEW S \in SUBSET Nat, S # {}
    PROVE  Min(S) \in S /\ \A j \in S : Min(S) <= j
<1> DEFINE less == OpToRel(<, Nat)
<1>1. IsWellFoundedOn(less, Nat)
    BY NatLessThanWellFounded
<1>2. \A x, y \in Nat : x < y => <<x, y>> \in less
    BY DEF OpToRel
<1> HIDE DEF less
<1>3. PICK x \in S : \A y \in S : ~(<<y, x>> \in less)
    BY <1>1, WFMin
<1>4. ASSUME NEW y \in S PROVE x <= y
    <2>1. x \in Nat /\ y \in Nat /\ ~(y < x)
        BY <1>2, <1>3
    <2> QED BY <2>1
<1> QED BY <1>3, <1>4 DEF Min

\* Where the stream stands.  Between two chunks it holds less than a frame of the longest
\* kind, and with nothing pending not even a header; what is pending is at its head.  The
\* chunk that was fed last is still there if a frame begins with it.
FramesInv ==
    /\ buf \in Seq(Tokens) /\ before \in Seq(Tokens)
    /\ delivered \in Seq(Nat) /\ whole \in Seq(Nat)
    /\ ~parsing => Len(buf) <= MaxLength + 3
    /\ ~parsing /\ pending = "none" => Len(buf) <= 2
    /\ pending # "none" => /\ Len(buf) >= 3 /\ buf[1] = B /\ buf[2] = R
                           /\ buf[3].value <= MaxLength
    /\ parsing /\ pending # "none" => Len(buf) >= Len(before) + 3
    /\ Ending(buf, before)
    /\ Waiting(buf, delivered, whole)

\* A frame that is returned is one that was sent.  The checksum is a sum: two frames of
\* which half is missing may pass for one, if enough pings were lost between them, and
\* what is returned then was never sent.
Genuine == TakeFrame => \E n \in Nat : SubSeq(buf, 1, FrameSize) = Encode(n)

LEMMA Parameters ==
    /\ MaxLength \in Nat /\ MaxLength >= 1
    /\ MaxBuffer \in Nat /\ MaxBuffer >= MaxLength + 9 /\ Header = 3
BY SonarAssumption DEF Header

\* The chunk that was fed last, where a frame begins with it.
LEMMA BeforeInBuf ==
    ASSUME FramesInv, Begun(before, 1), NEW p, p = Len(buf) - Len(before) + 1
    PROVE  /\ p \in Nat /\ p >= 1 /\ p <= Len(buf)
           /\ Len(before) \in Nat /\ Len(before) >= 1 /\ Len(before) <= 4
           /\ buf[p] = B
           /\ Len(before) >= 2 => p + 1 <= Len(buf) /\ buf[p + 1] = R
           /\ Len(before) >= 3 => buf[p + 2] = Token("data", 1)
<1>1. /\ Len(buf) \in Nat /\ Len(before) \in Nat /\ Ends(buf, before)
    BY DEF FramesInv, Ending
<1>2. Len(before) >= 1 /\ Len(before) <= 4
    BY <1>1 DEF Begun
<1>3. /\ before[1] = B
      /\ 1 + 1 <= Len(before) => before[1 + 1] = R
      /\ 1 + 2 <= Len(before) => before[1 + 2] = Token("data", 1)
    BY DEF Begun
<1>4. \A k \in 1 .. Len(before) : buf[Len(buf) - Len(before) + k] = before[k]
    BY <1>1 DEF Ends
<1>5. p \in Nat /\ p >= 1 /\ p <= Len(buf)
    BY <1>1, <1>2 DEF Ends
<1>6. buf[p] = B
    BY <1>1, <1>2, <1>3, <1>4
<1>7. ASSUME Len(before) >= 2
      PROVE  p + 1 <= Len(buf) /\ buf[p + 1] = R
    <2>1. 2 \in 1 .. Len(before) /\ Len(buf) - Len(before) + 2 = p + 1 /\ p + 1 <= Len(buf)
        BY <1>1, <1>7
    <2>2. buf[Len(buf) - Len(before) + 2] = before[2]
        BY <1>4, <2>1
    <2> QED BY <1>1, <1>3, <1>7, <2>1, <2>2
<1>8. ASSUME Len(before) >= 3
      PROVE  buf[p + 2] = Token("data", 1)
    <2>1. 3 \in 1 .. Len(before) /\ Len(buf) - Len(before) + 3 = p + 2
        BY <1>1, <1>8
    <2>2. buf[Len(buf) - Len(before) + 3] = before[3]
        BY <1>4, <2>1
    <2> QED BY <1>1, <1>3, <1>8, <2>1, <2>2
<1> QED BY <1>1, <1>2, <1>5, <1>6, <1>7, <1>8

\* What every turn that discards n tokens has to show.
LEMMA DiscardKeeps ==
    ASSUME FramesInv, NEW n \in Nat, n <= Len(buf), buf' = SubSeq(buf, n + 1, Len(buf)),
           \A i \in 1 .. n : ~FrameAt(buf, i),
           Begun(before, 1) => Len(before) <= Len(buf) - n,
           UNCHANGED <<before, delivered, whole>>
    PROVE  /\ buf' \in Seq(Tokens) /\ Len(buf') = Len(buf) - n
           /\ Ending(buf', before') /\ Waiting(buf', delivered', whole')
<1>1. /\ buf \in Seq(Tokens) /\ before \in Seq(Tokens) /\ Len(buf) \in Nat
      /\ delivered \in Seq(Nat) /\ whole \in Seq(Nat)
    BY DEF FramesInv
<1>2. Behind(buf, n, buf') /\ Len(buf') = Len(buf) - n /\ buf' \in Seq(Tokens)
    <2>1. /\ n + 1 \in 1 .. Len(buf) + 1 /\ Len(buf) \in (n + 1) - 1 .. Len(buf)
          /\ Len(buf) - (n + 1) + 1 = Len(buf) - n /\ n \in 0 .. Len(buf)
        BY <1>1
    <2> DEFINE t == SubSeq(buf, n + 1, Len(buf))
    <2>2. /\ t \in Seq(Tokens) /\ Len(t) = Len(buf) - (n + 1) + 1
          /\ \A i \in 1 .. Len(buf) - (n + 1) + 1 : t[i] = buf[(n + 1) - 1 + i]
        BY <1>1, <2>1, CutFacts
    <2> HIDE DEF t
    <2>3. \A i \in Nat : (n + 1) - 1 + i = n + i
        OBVIOUS
    <2>4. ASSUME NEW i \in 1 .. Len(t) PROVE t[i] = buf[n + i]
        <3>1. i \in 1 .. Len(buf) - (n + 1) + 1 /\ i \in Nat
            BY <1>1, <2>2
        <3>2. t[i] = buf[(n + 1) - 1 + i] /\ (n + 1) - 1 + i = n + i
            BY <2>2, <2>3, <3>1, Zenon
        <3> QED BY <3>2, Zenon
    <2>5. Behind(buf, n, t) /\ Len(t) = Len(buf) - n
        BY <1>1, <2>1, <2>2, <2>4 DEF Behind
    <2> QED BY <2>2, <2>5 DEF t
<1>3. Ending(buf', before)
    <2>1. Begun(before, 1) => Len(before) <= Len(buf')
        BY <1>2
    <2>2. Ending(buf, before)
        BY DEF FramesInv
    <2> QED BY <1>1, <1>2, <2>1, <2>2, EndingBehind
<1>4. Waiting(buf', delivered, whole)
    BY <1>1, <1>2, WaitingBehind DEF FramesInv
<1> QED BY <1>2, <1>3, <1>4

\* No marker is left: only a B at the end may begin a frame.
LEMMA NoMarkerKeeps ==
    ASSUME FramesInv, NoMarker, UNCHANGED <<before, whole>>
    PROVE  FramesInv'
<1>1. buf \in Seq(Tokens) /\ Len(buf) \in Nat
    BY DEF FramesInv
<1> DEFINE k == IF buf # <<>> /\ Last(buf) = B THEN 1 ELSE 0
           n == Len(buf) - k
<1>2. /\ \A i \in 1 .. Len(buf) - 1 : ~(buf[i] = B /\ buf[i + 1] = R)
      /\ buf' = SubSeq(buf, n + 1, Len(buf)) /\ parsing' = FALSE
      /\ UNCHANGED <<pending, delivered>>
    BY DEF NoMarker, MarkedAt, Discard, accounting
<1>3. k \in {0, 1} /\ n \in Nat /\ n <= Len(buf) /\ Len(buf) - n = k
    <2>1. buf # <<>> => Len(buf) >= 1
        BY <1>1
    <2> QED BY <1>1, <2>1
<1>4. \A i \in 1 .. n : ~FrameAt(buf, i)
    <2> SUFFICES ASSUME NEW i \in Nat, FrameAt(buf, i) PROVE FALSE
        OBVIOUS
    <2>1. i \in 1 .. Len(buf) - 1
        BY <1>1 DEF FrameAt
    <2> QED BY <1>2, <2>1 DEF FrameAt
<1>5. ASSUME Begun(before, 1) PROVE Len(before) <= Len(buf) - n
    <2> DEFINE p == Len(buf) - Len(before) + 1
    <2>1. /\ p \in Nat /\ p >= 1 /\ p <= Len(buf)
          /\ Len(before) \in Nat /\ Len(before) >= 1
          /\ buf[p] = B
          /\ Len(before) >= 2 => p + 1 <= Len(buf) /\ buf[p + 1] = R
        BY <1>5, BeforeInBuf
    <2>2. ~(Len(before) >= 2)
        <3> SUFFICES ASSUME Len(before) >= 2 PROVE FALSE
            OBVIOUS
        <3> HIDE DEF p
        <3>1. p \in 1 .. Len(buf) - 1
            BY <1>1, <2>1
        <3> QED BY <1>2, <2>1, <3>1
    <2>3. Len(before) = 1 /\ p = Len(buf)
        <3>1. \A x \in Nat : x >= 1 /\ ~(x >= 2) => x = 1
            OBVIOUS
        <3>2. Len(before) = 1
            BY <2>1, <2>2, <3>1, Zenon
        <3> QED BY <1>1, <3>2
    <2>4. buf # <<>> /\ Last(buf) = B
        BY <1>1, <2>1, <2>3 DEF Last
    <2> QED BY <1>3, <2>3, <2>4
<1>6. pending = "none"
    <2> SUFFICES ASSUME pending # "none" PROVE FALSE
        OBVIOUS
    <2>1. Len(buf) >= 3 /\ buf[1] = B /\ buf[1 + 1] = R
        BY DEF FramesInv
    <2>2. 1 \in 1 .. Len(buf) - 1
        BY <1>1, <2>1
    <2> QED BY <1>2, <2>1, <2>2
<1> HIDE DEF k, n
<1>7. /\ buf' \in Seq(Tokens) /\ Len(buf') = Len(buf) - n
      /\ Ending(buf', before') /\ Waiting(buf', delivered', whole')
    BY <1>2, <1>3, <1>4, <1>5, DiscardKeeps
<1>8. Len(buf') <= 2 /\ Len(buf') <= MaxLength + 3
    BY <1>3, <1>7, Parameters
<1> QED BY <1>2, <1>6, <1>7, <1>8 DEF FramesInv

\* Nothing has begun before the first marker but what follows it.
LEMMA SkipKeeps ==
    ASSUME FramesInv, SkipToMarker, UNCHANGED <<before, whole>>
    PROVE  FramesInv'
<1>1. buf \in Seq(Tokens) /\ Len(buf) \in Nat
    BY DEF FramesInv
<1> DEFINE m == Min(MarkedAt)
           n == m - 1
<1>2. /\ parsing /\ MarkedAt # {} /\ 1 \notin MarkedAt
      /\ buf' = SubSeq(buf, n + 1, Len(buf))
      /\ UNCHANGED <<parsing, pending, delivered>>
    BY DEF SkipToMarker, AtMarker, Discard, accounting
<1>3. MarkedAt \in SUBSET Nat
    BY <1>1 DEF MarkedAt
<1>4. m \in MarkedAt /\ \A j \in MarkedAt : m <= j
    BY <1>2, <1>3, SmallestMarker
<1>5. m \in Nat /\ m >= 1 /\ m <= Len(buf) - 1
    BY <1>1, <1>4 DEF MarkedAt
<1> HIDE DEF m
<1>6. n \in Nat /\ n <= Len(buf)
    BY <1>1, <1>5
<1>7. \A i \in 1 .. n : ~FrameAt(buf, i)
    <2> SUFFICES ASSUME NEW i \in 1 .. n, FrameAt(buf, i) PROVE FALSE
        OBVIOUS
    <2>1. i \in 1 .. Len(buf) - 1 /\ i < m
        BY <1>1, <1>5 DEF FrameAt
    <2>2. i \in MarkedAt
        BY <2>1 DEF FrameAt, MarkedAt
    <2> QED BY <1>4, <1>5, <2>1, <2>2
<1>8. ASSUME Begun(before, 1) PROVE Len(before) <= Len(buf) - n
    <2> DEFINE p == Len(buf) - Len(before) + 1
    <2>1. /\ p \in Nat /\ p >= 1 /\ p <= Len(buf)
          /\ Len(before) \in Nat /\ Len(before) >= 1
          /\ buf[p] = B
          /\ Len(before) >= 2 => p + 1 <= Len(buf) /\ buf[p + 1] = R
        BY <1>8, BeforeInBuf
    <2>2. p = Len(buf) - Len(before) + 1
        OBVIOUS
    <2> HIDE DEF p
    <2>3. CASE Len(before) >= 2
        <3>1. p \in 1 .. Len(buf) - 1
            BY <1>1, <2>1, <2>3
        <3>2. p \in MarkedAt
            BY <2>1, <2>3, <3>1 DEF MarkedAt
        <3>3. m <= p
            BY <1>4, <3>2
        <3> QED BY <1>1, <1>5, <2>1, <2>2, <3>3
    <2>4. CASE ~(Len(before) >= 2)
        BY <1>1, <1>5, <2>1, <2>4
    <2> QED BY <2>3, <2>4
<1>9. pending = "none"
    <2> SUFFICES ASSUME pending # "none" PROVE FALSE
        OBVIOUS
    <2>1. Len(buf) >= 3 /\ buf[1] = B /\ buf[1 + 1] = R
        BY DEF FramesInv
    <2>2. 1 \in 1 .. Len(buf) - 1
        BY <1>1, <2>1
    <2> QED BY <1>2, <2>1, <2>2 DEF MarkedAt
<1> HIDE DEF n
<1>10. /\ buf' \in Seq(Tokens) /\ Len(buf') = Len(buf) - n
       /\ Ending(buf', before') /\ Waiting(buf', delivered', whole')
    BY <1>2, <1>6, <1>7, <1>8, DiscardKeeps
<1> QED BY <1>2, <1>9, <1>10 DEF FramesInv

\* The marker at the head is that of no frame that is whole, and of none that has just
\* begun: two tokens may go.
LEMMA ResyncKeeps ==
    ASSUME FramesInv, Complete, Resync, ~FrameAt(buf, 1),
           Begun(before, 1) => Len(before) # Len(buf),
           parsing', pending' = "none", UNCHANGED <<before, whole, delivered>>
    PROVE  FramesInv'
<1>1. /\ buf \in Seq(Tokens) /\ Len(buf) \in Nat /\ Len(buf) >= 3
      /\ buf[1] = B /\ buf[2] = R
    BY Parameters DEF FramesInv, Complete, AtMarker, MarkedAt
<1>2. buf' = SubSeq(buf, 2 + 1, Len(buf))
    BY DEF Resync, Discard
<1>3. buf[2] # B
    BY <1>1, TokenFacts
<1>4. \A i \in 1 .. 2 : ~FrameAt(buf, i)
    <2>1. ~FrameAt(buf, 2)
        BY <1>3 DEF FrameAt
    <2>2. \A i \in 1 .. 2 : i = 1 \/ i = 2
        OBVIOUS
    <2> QED BY <2>1, <2>2
<1>5. ASSUME Begun(before, 1) PROVE Len(before) <= Len(buf) - 2
    <2> DEFINE p == Len(buf) - Len(before) + 1
    <2>1. p \in Nat /\ p >= 1 /\ p <= Len(buf) /\ Len(before) \in Nat /\ buf[p] = B
        BY <1>5, BeforeInBuf
    <2>2. p # 2
        BY <1>3, <2>1
    <2>3. p # 1
        BY <1>1, <1>5, <2>1
    <2> QED BY <1>1, <2>1, <2>2, <2>3
<1>6. 2 \in Nat /\ 2 <= Len(buf)
    BY <1>1
<1>7. /\ buf' \in Seq(Tokens)
      /\ Ending(buf', before') /\ Waiting(buf', delivered', whole')
    BY <1>2, <1>4, <1>5, <1>6, DiscardKeeps
<1>8. delivered' \in Seq(Nat) /\ whole' \in Seq(Nat) /\ before' \in Seq(Tokens)
    BY DEF FramesInv
<1> QED BY <1>7, <1>8 DEF FramesInv

\* The frame at the head of the stream has the length, and the checksum, of a ping.
LEMMA FrameAtHead ==
    ASSUME FramesInv, FrameAt(buf, 1)
    PROVE  /\ Length = 1 /\ FrameSize = 5 /\ Len(buf) >= 5
           /\ Sum(Body) = buf[5]
<1>1. buf \in Seq(Tokens) /\ Len(buf) \in Nat
    BY DEF FramesInv
<1> DEFINE n == buf[4].value
<1>2. /\ 1 \in 1 .. Len(buf) - 4
      /\ buf[1] = B /\ buf[2] = R /\ buf[3] = Token("data", 1)
      /\ buf[4] = Token("data", n) /\ buf[5] = Token("sum", 149 + n)
    BY DEF FrameAt
<1>3. Len(buf) >= 5
    BY <1>1, <1>2
<1>4. Length = 1 /\ FrameSize = 5
    <2>1. buf[3].value = 1
        BY <1>2, TokenFacts
    <2> QED BY <2>1, Parameters DEF Length, FrameSize
<1>5. n \in Nat
    <2>1. buf[4] \in Tokens
        BY <1>1, <1>3
    <2> QED BY <2>1, TokenFacts
<1>6. Body = <<B, R, Token("data", 1), Token("data", n)>>
    <2> DEFINE h == SubSeq(buf, 1, 4)
               ping == <<B, R, Token("data", 1), Token("data", n)>>
    <2>1. Body = h
        BY <1>4 DEF Body
    <2>2. 1 \in 1 .. Len(buf) + 1 /\ 4 \in 1 - 1 .. Len(buf)
        BY <1>1, <1>3
    <2>3. /\ h \in Seq(Tokens) /\ Len(h) = 4 - 1 + 1
          /\ \A i \in 1 .. 4 - 1 + 1 : h[i] = buf[1 - 1 + i]
        BY <1>1, <2>2, CutFacts
    <2> HIDE DEF h
    <2>4. Len(h) = 4 /\ h[1] = buf[1] /\ h[2] = buf[2] /\ h[3] = buf[3] /\ h[4] = buf[4]
        BY <2>3
    <2>5. ping \in Seq(Tokens) /\ Len(ping) = 4
        BY <1>5, TokenFacts
    <2>6. /\ ping[1] = h[1] /\ ping[2] = h[2] /\ ping[3] = h[3] /\ ping[4] = h[4]
        BY <1>2, <2>4
    <2> HIDE DEF ping
    <2>7. \A i \in 1 .. 4 : ping[i] = h[i]
        BY <2>6
    <2>8. ping = h
        BY <2>3, <2>4, <2>5, <2>7
    <2> QED BY <2>1, <2>8 DEF ping
<1>7. Sum(Body) = Token("sum", 149 + n)
    BY <1>5, <1>6, SumOfPing
<1> QED BY <1>2, <1>3, <1>4, <1>7

\* A chunk with which a frame begins is not all that the stream holds when a frame could
\* be complete: it is too short, unless its length says otherwise, and that is 1.
LEMMA BegunIsShort ==
    ASSUME FramesInv, Complete, Begun(before, 1), Len(before) = Len(buf)
    PROVE  Length = 1 /\ Len(buf) < FrameSize
<1>1. Len(buf) \in Nat /\ Len(buf) >= 3
    BY Parameters DEF FramesInv, Complete
<1> DEFINE p == Len(buf) - Len(before) + 1
<1>2. /\ Len(before) \in Nat /\ Len(before) <= 4
      /\ Len(before) >= 3 => buf[p + 2] = Token("data", 1)
    BY BeforeInBuf
<1>3. p + 2 = 3
    BY <1>1
<1>4. buf[3].value = 1
    BY <1>1, <1>2, <1>3, TokenFacts
<1>5. Length = 1 /\ FrameSize = 5
    BY <1>4, Parameters DEF Length, FrameSize
<1> QED BY <1>1, <1>2, <1>5

LEMMA LengthType ==
    ASSUME FramesInv, Complete
    PROVE  /\ Length \in Nat /\ FrameSize \in Nat /\ FrameSize = Length + 4 /\ Length = buf[3].value
           /\ Len(buf) \in Nat /\ Len(buf) >= 3 /\ buf[1] = B /\ buf[2] = R
<1>1. buf \in Seq(Tokens) /\ Len(buf) \in Nat /\ Len(buf) >= 3
    BY Parameters DEF FramesInv, Complete
<1>2. buf[3] \in Tokens
    BY <1>1
<1>3. Length \in Nat /\ Length = buf[3].value
    BY <1>2, TokenFacts, Parameters DEF Length
<1>4. buf[1] = B /\ buf[2] = R
    BY DEF Complete, AtMarker, MarkedAt
<1> QED BY <1>1, <1>3, <1>4, Parameters DEF FrameSize

\* One lemma for each turn of the loop that the marker at the head decides.
LEMMA TooLongKeeps ==
    ASSUME FramesInv, TooLong, UNCHANGED <<before, whole>>
    PROVE  FramesInv'
<1>1. /\ Complete /\ Length > MaxLength /\ Resync
      /\ UNCHANGED <<parsing, pending, delivered>> /\ parsing
    BY DEF TooLong, accounting, Complete, AtMarker
<1>2. Length \in Nat /\ Length = buf[3].value
    BY <1>1, LengthType
<1>3. pending = "none"
    <2>1. pending # "none" => buf[3].value <= MaxLength
        BY DEF FramesInv
    <2> QED BY <1>1, <1>2, <2>1, Parameters
<1>4. Length # 1
    BY <1>1, <1>2, Parameters
<1>5. ~FrameAt(buf, 1)
    BY <1>4, FrameAtHead
<1>6. Begun(before, 1) => Len(before) # Len(buf)
    BY <1>1, <1>4, BegunIsShort
<1> QED BY <1>1, <1>3, <1>5, <1>6, ResyncKeeps

LEMMA StalledKeeps ==
    ASSUME FramesInv, Stalled, UNCHANGED <<before, whole>>
    PROVE  FramesInv'
<1>1. /\ Complete /\ Len(buf) < FrameSize /\ pending = "stalled" /\ Resync
      /\ pending' = "none" /\ UNCHANGED <<parsing, delivered>> /\ parsing
    BY DEF Stalled, accounting, Complete, AtMarker
<1>2. ~FrameAt(buf, 1)
    <2>1. Len(buf) \in Nat
        BY <1>1, LengthType
    <2>2. FrameAt(buf, 1) => FrameSize = 5 /\ Len(buf) >= 5
        BY FrameAtHead
    <2> QED BY <1>1, <2>1, <2>2
<1>3. Len(before) # Len(buf)
    <2>1. Len(buf) >= Len(before) + 3 /\ Len(buf) \in Nat /\ Len(before) \in Nat
        BY <1>1 DEF FramesInv
    <2> QED BY <2>1
<1> QED BY <1>1, <1>2, <1>3, ResyncKeeps

LEMMA BadSumKeeps ==
    ASSUME FramesInv, BadSum, UNCHANGED <<before, whole>>
    PROVE  FramesInv'
<1>1. /\ Complete /\ Len(buf) >= FrameSize /\ buf[FrameSize] # Sum(Body) /\ Resync
      /\ pending' = "none" /\ UNCHANGED <<parsing, delivered>> /\ parsing
    BY DEF BadSum, accounting, Complete, AtMarker
<1>2. ~FrameAt(buf, 1)
    BY <1>1, FrameAtHead
<1>3. Begun(before, 1) => Len(before) # Len(buf)
    <2>1. Len(buf) \in Nat /\ FrameSize \in Nat
        BY <1>1, LengthType
    <2> QED BY <1>1, <2>1, BegunIsShort
<1> QED BY <1>1, <1>2, <1>3, ResyncKeeps

\* What waits for the rest of its frame is shorter than the longest.
LEMMA IncompleteKeeps ==
    ASSUME FramesInv, Incomplete, UNCHANGED <<before, whole>>
    PROVE  FramesInv'
<1>1. /\ Complete /\ Length <= MaxLength /\ Len(buf) < FrameSize
      /\ pending' = "young" /\ parsing' = FALSE /\ UNCHANGED <<buf, delivered>>
    BY DEF Incomplete, accounting
<1>2. /\ Length \in Nat /\ FrameSize = Length + 4 /\ Length = buf[3].value
      /\ Len(buf) \in Nat /\ Len(buf) >= 3 /\ buf[1] = B /\ buf[2] = R
    BY <1>1, LengthType
<1>3. Len(buf) <= MaxLength + 3
    BY <1>1, <1>2, Parameters
<1> QED BY <1>1, <1>2, <1>3 DEF FramesInv

LEMMA ShortHeaderKeeps ==
    ASSUME FramesInv, ShortHeader, UNCHANGED <<before, whole>>
    PROVE  FramesInv'
<1>1. Len(buf) < 3 /\ parsing' = FALSE /\ UNCHANGED <<buf, pending, delivered>>
    BY Parameters DEF ShortHeader, accounting
<1>2. Len(buf) \in Nat
    BY DEF FramesInv
<1>3. pending = "none"
    <2>1. pending # "none" => Len(buf) >= 3
        BY DEF FramesInv
    <2> QED BY <1>1, <1>2, <2>1
<1>4. Len(buf) <= 2 /\ Len(buf) <= MaxLength + 3
    BY <1>1, <1>2, Parameters
<1> QED BY <1>1, <1>3, <1>4 DEF FramesInv

\* The frame that is returned is the first of those that wait.
LEMMA TakeKeeps ==
    ASSUME FramesInv, TakeFrame, Genuine, UNCHANGED <<before, whole>>
    PROVE  FramesInv'
<1>1. /\ Complete /\ Len(buf) >= FrameSize
      /\ buf' = SubSeq(buf, FrameSize + 1, Len(buf)) /\ pending' = "none"
      /\ IF Length > 0 THEN Account(buf[Header + 1].value) ELSE UNCHANGED accounting
      /\ UNCHANGED parsing /\ parsing
    BY DEF TakeFrame, Complete, AtMarker
<1>2. PICK n \in Nat : SubSeq(buf, 1, FrameSize) = Encode(n)
    BY DEF Genuine
<1>3. /\ buf \in Seq(Tokens) /\ Len(buf) \in Nat /\ before \in Seq(Tokens)
      /\ delivered \in Seq(Nat) /\ whole \in Seq(Nat)
      /\ FrameSize \in Nat /\ FrameSize = Length + 4 /\ Length \in Nat
    BY <1>1, LengthType DEF FramesInv
<1>4. /\ FrameSize = 5
      /\ buf[1] = B /\ buf[2] = R /\ buf[3] = Token("data", 1)
      /\ buf[4] = Token("data", n) /\ buf[5] = Token("sum", 149 + n)
    <2> DEFINE h == SubSeq(buf, 1, FrameSize)
    <2>1. 1 \in 1 .. Len(buf) + 1 /\ FrameSize \in 1 - 1 .. Len(buf)
        BY <1>1, <1>3
    <2>2. /\ Len(h) = FrameSize - 1 + 1
          /\ \A i \in 1 .. FrameSize - 1 + 1 : h[i] = buf[1 - 1 + i]
        BY <1>3, <2>1, CutFacts
    <2>3. h = Encode(n)
        BY <1>2
    <2> HIDE DEF h
    <2>4. FrameSize = 5
        <3>1. FrameSize - 1 + 1 = 5
            BY <2>2, <2>3, EncodeFacts
        <3> QED BY <1>3, <3>1
    <2>5. h[1] = buf[1] /\ h[2] = buf[2] /\ h[3] = buf[3] /\ h[4] = buf[4] /\ h[5] = buf[5]
        BY <2>2, <2>4
    <2> QED BY <2>3, <2>4, <2>5, EncodeFacts
<1>5. buf[4].value = n
    BY <1>4, TokenFacts
<1>6. FrameAt(buf, 1)
    <2>1. 1 \in 1 .. Len(buf) - 4
        BY <1>1, <1>3, <1>4
    <2> QED BY <1>4, <1>5, <2>1 DEF FrameAt
<1>7. delivered' = Append(delivered, n)
    <2>1. Length > 0 /\ Header + 1 = 4
        BY <1>3, <1>4, Parameters
    <2> QED BY <1>1, <1>5, <2>1 DEF Account
<1>8. Behind(buf, 5, buf') /\ Len(buf') = Len(buf) - 5 /\ buf' \in Seq(Tokens)
    <2> DEFINE t == SubSeq(buf, 6, Len(buf))
    <2>1. 6 \in 1 .. Len(buf) + 1 /\ Len(buf) \in 6 - 1 .. Len(buf) /\ Len(buf) - 6 + 1 = Len(buf) - 5
        BY <1>1, <1>3, <1>4
    <2>2. /\ t \in Seq(Tokens) /\ Len(t) = Len(buf) - 6 + 1
          /\ \A i \in 1 .. Len(buf) - 6 + 1 : t[i] = buf[6 - 1 + i]
        BY <1>3, <2>1, CutFacts
    <2>3. buf' = t
        BY <1>1, <1>4
    <2> HIDE DEF t
    <2>4. 5 \in 0 .. Len(buf) /\ \A i \in 1 .. Len(t) : t[i] = buf[5 + i]
        BY <1>1, <1>3, <1>4, <2>1, <2>2
    <2> QED BY <1>3, <2>1, <2>2, <2>3, <2>4 DEF Behind
<1>9. ASSUME Begun(before, 1) PROVE Len(before) <= Len(buf')
    <2> DEFINE p == Len(buf) - Len(before) + 1
    <2>1. /\ p \in Nat /\ p >= 1 /\ p <= Len(buf) /\ buf[p] = B
          /\ Len(before) \in Nat /\ Len(before) <= 4
        BY <1>9, BeforeInBuf
    <2>2. buf[2] # B /\ buf[3] # B /\ buf[4] # B /\ buf[5] # B
        BY <1>4, TokenFacts
    <2>3. p # 2 /\ p # 3 /\ p # 4 /\ p # 5
        BY <2>1, <2>2
    <2>4. p # 1
        BY <1>1, <1>3, <1>4, <2>1
    <2>5. p >= 6
        BY <2>1, <2>3, <2>4
    <2> QED BY <1>3, <1>8, <2>1, <2>5
<1>10. Ending(buf', before)
    <2>1. Ending(buf, before)
        BY DEF FramesInv
    <2> QED BY <1>3, <1>8, <1>9, <2>1, EndingBehind
<1>11. Waiting(buf', delivered', whole)
    <2>1. Waiting(buf, delivered, whole)
        BY DEF FramesInv
    <2> QED BY <1>3, <1>5, <1>6, <1>7, <1>8, <2>1, WaitingTaken
<1>12. delivered' \in Seq(Nat)
    BY <1>3, <1>7
<1> QED BY <1>1, <1>3, <1>8, <1>10, <1>11, <1>12 DEF FramesInv

LEMMA ParserKeepsFrames ==
    ASSUME FramesInv, ParserStep, Genuine, UNCHANGED <<before, whole>>
    PROVE  FramesInv'
BY NoMarkerKeeps, SkipKeeps, ShortHeaderKeeps, TooLongKeeps, IncompleteKeeps, StalledKeeps,
   BadSumKeeps, TakeKeeps DEF ParserStep

\* A chunk is fed: the buffer is never cut, and holds one frame more if the chunk
\* completes one.
LEMMA FeedKeepsFrames ==
    ASSUME FramesInv, NEW c \in Pieces, Feed(c.tokens), before' = c.tokens,
           whole' = IF Encode(c.of) \in {c.tokens, before \o c.tokens}
                    THEN Append(whole, c.of) ELSE whole
    PROVE  FramesInv'
<1> DEFINE q == c.tokens
           n == c.of
           t == buf \o q
<1>1. /\ buf \in Seq(Tokens) /\ before \in Seq(Tokens) /\ Len(buf) \in Nat
      /\ delivered \in Seq(Nat) /\ whole \in Seq(Nat)
      /\ Ending(buf, before) /\ Waiting(buf, delivered, whole)
    BY DEF FramesInv
<1>2. /\ t \in Seq(Tokens) /\ Len(t) = Len(buf) + Len(q) /\ q \in Seq(Tokens) /\ n \in Nat
      /\ Len(q) \in Nat /\ Len(q) >= 1 /\ Len(q) <= 5
      /\ \A i \in 1 .. Len(buf) : t[i] = buf[i]
      /\ Completed(buf, before, q, n, t) /\ Ending(t, q)
    BY <1>1, FedFrames
<1>3. ~parsing /\ parsing' /\ UNCHANGED <<pending, delivered>>
    BY DEF Feed, accounting
<1>4. buf' = SubSeq(t, (IF Len(t) > MaxBuffer THEN Len(t) - MaxBuffer ELSE 0) + 1, Len(t))
    BY DEF Feed
<1>5. before' = q /\ whole' = IF Encode(n) \in {q, before \o q} THEN Append(whole, n) ELSE whole
    OBVIOUS
<1> HIDE DEF q, n, t
<1>6. buf' = t
    <2>1. Len(buf) <= MaxLength + 3
        BY <1>3 DEF FramesInv
    <2>2. ~(Len(t) > MaxBuffer) /\ Len(t) \in Nat
        BY <1>1, <1>2, <2>1, Parameters
    <2>3. buf' = SubSeq(t, 1, Len(t))
        BY <1>4, <2>2
    <2> QED BY <1>2, <2>3
<1>7. Waiting(t, delivered, whole')
    <2>1. Waiting(t, delivered, IF Encode(n) \in {q, before \o q} THEN Append(whole, n) ELSE whole)
        BY <1>1, <1>2, WaitingFed
    <2> QED BY <1>5, <2>1
<1>8. whole' \in Seq(Nat)
    BY <1>1, <1>2, <1>5
<1>9. ASSUME pending # "none"
      PROVE  /\ Len(t) >= Len(q) + 3 /\ Len(t) >= 3
             /\ t[1] = B /\ t[2] = R /\ t[3].value <= MaxLength
    <2>1. Len(buf) >= 3 /\ buf[1] = B /\ buf[2] = R /\ buf[3].value <= MaxLength
        BY <1>9 DEF FramesInv
    <2>2. 1 \in 1 .. Len(buf) /\ 2 \in 1 .. Len(buf) /\ 3 \in 1 .. Len(buf)
        BY <1>1, <2>1
    <2>3. t[1] = buf[1] /\ t[2] = buf[2] /\ t[3] = buf[3]
        BY <1>2, <2>2
    <2>4. Len(t) >= Len(q) + 3 /\ Len(t) >= 3
        BY <1>1, <1>2, <2>1
    <2> QED BY <2>1, <2>3, <2>4
<1> QED BY <1>1, <1>2, <1>3, <1>5, <1>6, <1>7, <1>8, <1>9 DEF FramesInv

\* What is on its way is made of pieces of frames.
Chunks ==
    number \in Nat /\ net \in Seq(Pieces) /\ hand \in Seq(Pieces) /\ queue \in Seq(Pieces)

StreamInv == Chunks /\ FramesInv

frames == <<buf, before, delivered, whole, parsing, pending>>

LEMMA FramesStay ==
    ASSUME FramesInv, UNCHANGED frames
    PROVE  FramesInv'
BY DEF FramesInv, frames

LEMMA TailPieces ==
    ASSUME NEW s \in Seq(Pieces), s # <<>>
    PROVE  Tail(s) \in Seq(Pieces) /\ Head(s) \in Pieces
OBVIOUS

\* The sonar and the network.
LEMMA DeviceKeepsChunks ==
    ASSUME Chunks, Ping \/ Lose \/ Overtake \/ PowerOff \/ PowerOn
    PROVE  Chunks' /\ UNCHANGED frames
<1>1. UNCHANGED frames
    <2>1. CASE Ping \/ Lose \/ Overtake
        BY <2>1 DEF Ping, Lose, Overtake, Aside, parserVars, framing, accounting, feedVars, frames
    <2>2. CASE PowerOff \/ PowerOn
        BY <2>2 DEF PowerOff, PowerOn, Aside, parserVars, framing, accounting, feedVars, frames
    <2> QED BY <2>1, <2>2
<1>2. hand' = hand /\ queue' = queue
    <2>1. CASE Ping \/ Lose \/ Overtake
        BY <2>1 DEF Ping, Lose, Overtake, readerVars
    <2>2. CASE PowerOff \/ PowerOn
        BY <2>2 DEF PowerOff, PowerOn, readerVars
    <2> QED BY <2>1, <2>2
<1>3. number' \in Nat /\ net' \in Seq(Pieces)
    <2>1. CASE Ping
        <3>1. PICK s \in Sendings(number) : net' = s
            BY <2>1 DEF Ping
        <3>2. number' = number + 1 /\ number \in Nat
            BY <2>1 DEF Ping, Chunks
        <3>3. s \in Seq(Pieces)
            BY <3>2, SendingsArePieces
        <3> QED BY <3>1, <3>2, <3>3
    <2>2. CASE Lose
        <3>1. net # <<>> /\ net' = Tail(net) /\ number' = number
            BY <2>2 DEF Lose
        <3> QED BY <3>1, TailPieces DEF Chunks
    <2>3. CASE Overtake
        <3> DEFINE c == Chunk(Encode(number), number, "whole")
        <3>1. net' = <<c, net[1]>> /\ number' = number + 1 /\ Len(net) = 1
            BY <2>3 DEF Overtake
        <3>2. number \in Nat /\ net \in Seq(Pieces) /\ net[1] \in Pieces
            BY <3>1 DEF Chunks
        <3>3. <<c>> \in Sendings(number)
            BY DEF Sendings
        <3>4. <<c>> \in Seq(Pieces)
            BY <3>2, <3>3, SendingsArePieces
        <3> HIDE DEF c
        <3>5. c \in Pieces
            BY <3>4
        <3> QED BY <3>1, <3>2, <3>5
    <2>4. CASE PowerOff
        BY <2>4 DEF PowerOff, Chunks
    <2>5. CASE PowerOn
        BY <2>5 DEF PowerOn, Chunks
    <2> QED BY <2>1, <2>2, <2>3, <2>4, <2>5
<1> QED BY <1>1, <1>2, <1>3 DEF Chunks

\* The reader thread, and the node but for its parser.
LEMMA ReaderKeepsChunks ==
    ASSUME Chunks, Receive \/ DropOldest \/ PutNewest
    PROVE  Chunks' /\ UNCHANGED frames
<1>1. UNCHANGED frames /\ UNCHANGED number
    BY DEF Receive, DropOldest, PutNewest, Aside, parserVars, framing, accounting, feedVars,
           deviceVars, frames
<1>2. CASE Receive
    <2>1. /\ net # <<>> /\ net' = Tail(net)
          /\ \/ queue' = Append(queue, Head(net)) /\ hand' = hand
             \/ hand' = <<Head(net)>> /\ queue' = queue
        BY <1>2 DEF Receive
    <2>2. /\ number \in Nat /\ hand \in Seq(Pieces) /\ queue \in Seq(Pieces)
          /\ Tail(net) \in Seq(Pieces) /\ Head(net) \in Pieces
        BY <2>1, TailPieces DEF Chunks
    <2> DEFINE c == Head(net)
    <2> HIDE DEF c
    <2>3. /\ c \in Pieces
          /\ \/ queue' = Append(queue, c) /\ hand' = hand
             \/ hand' = <<c>> /\ queue' = queue
        BY <2>1, <2>2 DEF c
    <2>4. Append(queue, c) \in Seq(Pieces) /\ <<c>> \in Seq(Pieces)
        BY <2>2, <2>3
    <2>5. hand' \in Seq(Pieces) /\ queue' \in Seq(Pieces)
        BY <2>2, <2>3, <2>4
    <2> QED BY <1>1, <2>1, <2>2, <2>5 DEF Chunks
<1>3. CASE DropOldest
    <2>1. /\ net' = net
          /\ \/ queue' = queue /\ hand' = <<>>
             \/ queue # <<>> /\ queue' = Tail(queue) /\ hand' = hand
        BY <1>3 DEF DropOldest, deviceVars
    <2>2. queue # <<>> => Tail(queue) \in Seq(Pieces)
        BY TailPieces DEF Chunks
    <2>3. <<>> \in Seq(Pieces)
        OBVIOUS
    <2> QED BY <1>1, <2>1, <2>2, <2>3 DEF Chunks
<1>4. CASE PutNewest
    <2>1. net' = net /\ queue' = queue \o hand /\ hand' = <<>>
        BY <1>4 DEF PutNewest, deviceVars
    <2> QED BY <1>1, <2>1 DEF Chunks
<1> QED BY <1>1, <1>2, <1>3, <1>4

LEMMA OthersKeepChunks ==
    ASSUME \/ Connect \/ Disconnect \/ WakeUp \/ RxTimeout \/ Configure \/ ConfigureFails
           \/ \E s \in Settings : SetParameters(s)
           \/ \E on \in BOOLEAN : SetPinging(on)
           \/ UNCHANGED sonarVars
    PROVE  UNCHANGED <<number, net, hand, queue>> /\ UNCHANGED frames
<1>1. CASE Connect \/ Disconnect \/ WakeUp \/ RxTimeout
    BY <1>1 DEF Connect, Disconnect, WakeUp, RxTimeout, Aside, parserVars, framing, accounting,
                feedVars, deviceVars, readerVars, frames
<1>2. CASE Configure \/ ConfigureFails
    BY <1>2 DEF Configure, ConfigureFails, Aside, parserVars, framing, accounting, feedVars,
                deviceVars, readerVars, frames
<1>3. CASE \E s \in Settings : SetParameters(s)
    BY <1>3 DEF SetParameters, Aside, parserVars, framing, accounting, feedVars, readerVars, frames
<1>4. CASE \E on \in BOOLEAN : SetPinging(on)
    BY <1>4 DEF SetPinging, Aside, parserVars, framing, accounting, feedVars, readerVars, frames
<1>5. CASE UNCHANGED sonarVars
    BY <1>5 DEF sonarVars, parserVars, framing, accounting, feedVars, deviceVars, readerVars, frames
<1> QED BY <1>1, <1>2, <1>3, <1>4, <1>5

LEMMA StreamNext == StreamInv /\ [SonarNext]_sonarVars /\ Genuine => StreamInv'
<1> SUFFICES ASSUME StreamInv, [SonarNext]_sonarVars, Genuine PROVE StreamInv'
    OBVIOUS
<1>1. Chunks /\ FramesInv
    BY DEF StreamInv
<1>2. CASE Ping \/ Lose \/ Overtake \/ PowerOff \/ PowerOn
    BY <1>1, <1>2, DeviceKeepsChunks, FramesStay DEF StreamInv
<1>3. CASE Receive \/ DropOldest \/ PutNewest
    BY <1>1, <1>3, ReaderKeepsChunks, FramesStay DEF StreamInv
<1>4. CASE \/ Connect \/ Disconnect \/ WakeUp \/ RxTimeout \/ Configure \/ ConfigureFails
           \/ \E s \in Settings : SetParameters(s)
           \/ \E on \in BOOLEAN : SetPinging(on)
           \/ UNCHANGED sonarVars
    <2>1. UNCHANGED <<number, net, hand, queue>> /\ UNCHANGED frames
        BY <1>4, OthersKeepChunks
    <2> QED BY <1>1, <2>1, FramesStay DEF StreamInv, Chunks
<1>5. CASE Drain
    <2> DEFINE c == Head(queue)
    <2>1. /\ queue # <<>> /\ Feed(c.tokens) /\ queue' = Tail(queue) /\ before' = c.tokens
          /\ whole' = IF Encode(c.of) \in {c.tokens, before \o c.tokens}
                      THEN Append(whole, c.of) ELSE whole
          /\ UNCHANGED <<number, net, hand>>
        BY <1>5 DEF Drain, deviceVars, readerVars
    <2>2. Tail(queue) \in Seq(Pieces) /\ c \in Pieces
        BY <1>1, <2>1, TailPieces DEF Chunks
    <2> HIDE DEF c
    <2>3. FramesInv'
        BY <1>1, <2>1, <2>2, FeedKeepsFrames
    <2> QED BY <1>1, <2>1, <2>2, <2>3 DEF StreamInv, Chunks
<1>6. CASE Parse
    <2>1. ParserStep /\ UNCHANGED <<number, net, hand, queue, before, whole>>
        BY <1>6 DEF Parse, deviceVars, readerVars, feedVars
    <2> QED BY <1>1, <2>1, ParserKeepsFrames DEF StreamInv, Chunks
<1>7. CASE StallTimeout
    <2>1. /\ ~parsing /\ pending = "young" /\ pending' = "stalled"
          /\ UNCHANGED <<buf, parsing, before, whole, delivered, number, net, hand, queue>>
        BY <1>7 DEF StallTimeout, Stall, accounting, deviceVars, readerVars, feedVars
    <2>2. FramesInv'
        BY <1>1, <2>1 DEF FramesInv
    <2> QED BY <1>1, <2>1, <2>2 DEF StreamInv, Chunks
<1> QED BY <1>2, <1>3, <1>4, <1>5, <1>6, <1>7 DEF SonarNext

LEMMA StreamInit == SonarInit => StreamInv
<1> SUFFICES ASSUME SonarInit PROVE StreamInv
    OBVIOUS
<1>1. /\ number \in Nat /\ net = <<>> /\ hand = <<>> /\ queue = <<>>
      /\ buf = <<>> /\ ~parsing /\ pending = "none" /\ delivered = <<>>
      /\ whole = <<>> /\ before = <<>>
    BY SonarAssumption DEF SonarInit, ParserInit
<1>2. \A i \in Nat : ~FrameAt(<<>>, i) /\ ~Begun(<<>>, i)
    BY DEF FrameAt, Begun
<1>3. Ending(<<>>, <<>>)
    BY <1>2 DEF Ending
<1>4. Waiting(<<>>, <<>>, <<>>)
    <2> DEFINE at == [j \in {} |-> 0]
    <2>1. Len(<<>>) + 1 .. Len(<<>>) = {}
        OBVIOUS
    <2>2. at \in [Len(<<>>) + 1 .. Len(<<>>) -> Nat]
        BY <2>1
    <2>3. \A j \in Len(<<>>) + 1 .. Len(<<>>) : FALSE
        BY <2>1
    <2>4. Len(<<>>) <= Len(<<>>) /\ \A j \in 1 .. Len(<<>>) : FALSE
        OBVIOUS
    <2> QED BY <1>2, <2>2, <2>3, <2>4, Zenon DEF Waiting
<1> QED BY <1>1, <1>3, <1>4, Parameters DEF StreamInv, Chunks, FramesInv

\* Between two chunks, with nothing pending, the buffer has no room for a frame.
LEMMA StreamIsDrained == StreamInv => IntactFramesGetThrough
<1> SUFFICES ASSUME FramesInv, ~parsing, pending = "none" PROVE delivered = whole
    BY DEF StreamInv, IntactFramesGetThrough
<1>1. /\ Len(buf) <= 2 /\ Len(buf) \in Nat /\ Waiting(buf, delivered, whole)
      /\ delivered \in Seq(Nat) /\ whole \in Seq(Nat)
    BY DEF FramesInv
<1> DEFINE J == Len(delivered) + 1 .. Len(whole)
<1>2. PICK at \in [J -> Nat] : \A j \in J : FrameAt(buf, at[j])
    BY <1>1 DEF Waiting
<1>3. J = {}
    <2> SUFFICES ASSUME NEW j \in J PROVE FALSE
        OBVIOUS
    <2>1. at[j] \in 1 .. Len(buf) - 4
        BY <1>2 DEF FrameAt
    <2> QED BY <1>1, <2>1
<1>4. Len(whole) = Len(delivered)
    <2>1. Len(delivered) <= Len(whole) /\ Len(delivered) \in Nat /\ Len(whole) \in Nat
        BY <1>1 DEF Waiting
    <2>2. ~(Len(delivered) < Len(whole))
        <3> SUFFICES ASSUME Len(delivered) < Len(whole) PROVE FALSE
            OBVIOUS
        <3>1. Len(whole) \in J
            BY <2>1
        <3> QED BY <1>3, <3>1
    <2> QED BY <2>1, <2>2
<1>5. \A j \in 1 .. Len(delivered) : whole[j] = delivered[j]
    BY <1>1 DEF Waiting
<1> HIDE DEF J
<1>6. \A d, w \in Seq(Nat) : Len(w) = Len(d) /\ (\A j \in 1 .. Len(d) : w[j] = d[j]) => d = w
    OBVIOUS
<1> QED BY <1>1, <1>4, <1>5, <1>6, Zenon

\* However the stream is cut, whatever is lost, damaged or left over in it, the parser
\* returns the frames that reached it unbroken, each once and in their order, as long as
\* no remains of two frames add up to one that was never sent (feed and _next_frame).
THEOREM IntactFramesAreReturned ==
    SonarSpec /\ [][Genuine]_sonarVars => []IntactFramesGetThrough
<1>1. StreamInv /\ [SonarNext]_sonarVars /\ [Genuine]_sonarVars => StreamInv'
    <2>1. CASE Genuine
        BY <2>1, StreamNext
    <2>2. CASE UNCHANGED sonarVars
        <3>1. UNCHANGED <<number, net, hand, queue>> /\ UNCHANGED frames
            BY <2>2, OthersKeepChunks
        <3> QED BY <3>1, FramesStay DEF StreamInv, Chunks
    <2> QED BY <2>1, <2>2
<1> QED BY <1>1, StreamInit, StreamIsDrained, PTL DEF SonarSpec
=============================================================================
