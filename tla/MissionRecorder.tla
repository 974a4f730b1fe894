--------------------------- MODULE MissionRecorder ---------------------------
(***************************************************************************)
(* The recorder (mission.py, mission_recorder_node.py) and the export of   *)
(* its directories (export.py), under failed writes, a full disk, a killed *)
(* process and a power cut.                                                *)
(*                                                                         *)
(* The node runs one callback at a time, so that start and stop are not    *)
(* interleaved with anything but the loss of the process or the power:     *)
(* `doing` is how far they have come.  All that a mission records is one   *)
(* count of units: a unit is accepted by write, then in Python's buffer,   *)
(* then in the kernel's cache (data), then on the disk (durable).  The     *)
(* records of the start, of a full disk and of the stop are units as well. *)
(* The optional live log and the content of the records are left out.      *)
(***************************************************************************)
EXTENDS Naturals, FiniteSetsExt

CONSTANTS
    Missions,   \* the directories that may be made: a name and a second
    None,       \* no directory
    Disk,       \* units that fit the disk
    Reserve,    \* min_free_bytes
    PerTick,    \* units that arrive within one period of the timer
    Buffer,     \* units that Python holds before it flushes by itself
    MaxData,    \* bound: units in one mission, those of its end not counted
    MaxFaults   \* bound: failed writes, crashes and power cuts

ASSUME RecorderAssumption ==
    /\ None \notin Missions
    /\ Disk \in Nat /\ Reserve \in Nat /\ PerTick \in Nat \ {0} /\ Buffer \in Nat
    /\ PerTick + Buffer + 2 <= Reserve /\ Reserve < Disk
    /\ MaxData \in Nat /\ MaxFaults \in Nat

VARIABLES
    state,      \* status.state
    doing,      \* how far start or stop has come, or "nothing"
    dir,        \* _dir
    open,       \* _files is not empty
    buffered,   \* units accepted and not flushed
    counted,    \* status.sonar_bytes and its like
    since,      \* units since the last tick
    disk,       \* the directories
    copy,       \* what the drive holds of each, and what the export said of it
    faults,
    hurt        \* history: the missions a flush failed for

vars == <<state, doing, dir, open, buffered, counted, since, disk, copy, faults, hurt>>

-----------------------------------------------------------------------------
(* The disk                                                                *)

\* lost is history: units that were counted and that no file took, see WriteStopped
NoDir == [made |-> FALSE, data |-> 0, durable |-> 0, lost |-> 0, manifest |-> "none",
          kept |-> "none", claims |-> 0, sums |-> "none", hashed |-> 0]
NoCopy == [there |-> FALSE, data |-> 0, sums |-> "none", said |-> "nothing"]

Used == MapThenSumSet(LAMBDA m : disk[m].data, Missions)

\* disk_free_bytes: what Python still buffers is not in use yet
Free == Disk - Used

Full == Free <= Reserve

\* flush, of a handle that takes it
Flushed == [disk EXCEPT ![dir].data = @ + buffered]

\* A unit that the files d take with b in the buffer; Python may flush by itself.
Take(d, b) ==
    \/ b < Buffer /\ buffered' = b + 1 /\ disk' = d
    \/ disk' = [d EXCEPT ![dir].data = @ + b + 1] /\ buffered' = 0

Fault == faults < MaxFaults /\ faults' = faults + 1

-----------------------------------------------------------------------------
(* Starting                                                                *)

\* _fail
Fail == state' = "ERROR"

Recording == state = "RECORDING"

\* Mutant: a directory of that name is taken again.
MakeDirectoryAgain(m) ==
    /\ doing = "nothing" /\ ~Recording
    /\ ~Full
    /\ LET closed == IF open THEN Flushed ELSE disk
       IN disk' = [closed EXCEPT ![m] = [NoDir EXCEPT !.made = TRUE]]
    /\ dir' = m /\ open' = TRUE /\ buffered' = 0
    /\ doing' = "starting"
    /\ UNCHANGED <<state, counted, since, copy, faults, hurt>>

\* mkdir, and the four files; the handles of a mission that ended in an error
\* are dropped here, which closes and so flushes them
MakeDirectory(m) ==
    /\ doing = "nothing" /\ ~Recording
    /\ ~Full
    /\ ~disk[m].made
    /\ LET closed == IF open THEN Flushed ELSE disk
       IN disk' = [closed EXCEPT ![m] = [NoDir EXCEPT !.made = TRUE]]
    /\ dir' = m /\ open' = TRUE /\ buffered' = 0
    /\ doing' = "starting"
    /\ UNCHANGED <<state, counted, since, copy, faults, hurt>>

\* every early return of start but the first, which changes nothing
StartFails(m) ==
    /\ doing = "nothing" /\ ~Recording
    /\ \/ /\ Full \/ disk[m].made
          /\ UNCHANGED <<disk, dir, faults>>
       \/ /\ Fault
          /\ ~Full /\ ~disk[m].made
          /\ \/ UNCHANGED <<disk, dir>>
             \/ disk' = [disk EXCEPT ![m] = [NoDir EXCEPT !.made = TRUE]] /\ dir' = m
    /\ dir' # dir => ~open      \* what was open before is not followed any further
    /\ Fail
    /\ UNCHANGED <<doing, open, buffered, counted, since, copy, hurt>>

\* _write_manifest: renamed, and not flushed
Manifest(what, n) == [disk EXCEPT ![dir].manifest = what, ![dir].claims = n]

\* The manifest of the start, written or not: RECORDING is set either way.  Then the
\* mission_started event, whose failure is an ERROR.
FinishStart ==
    /\ doing = "starting"
    /\ doing' = "nothing"
    /\ counted' = 1 /\ since' = 0
    /\ \/ state' = "RECORDING" /\ Take(Manifest("open", 0), buffered) /\ UNCHANGED faults
       \/ Fault /\ state' = "RECORDING" /\ Take(disk, buffered)
       \/ Fault /\ Fail /\ disk' = Manifest("open", 0) /\ UNCHANGED buffered
    /\ UNCHANGED <<dir, open, copy, hurt>>

-----------------------------------------------------------------------------
(* Recording                                                               *)

\* write_sonar and _write_line
WriteUnit ==
    /\ doing = "nothing" /\ Recording
    /\ since < PerTick /\ counted < MaxData
    /\ counted' = counted + 1 /\ since' = since + 1
    /\ Take(disk, buffered)
    /\ UNCHANGED <<state, doing, dir, open, copy, faults, hurt>>

\* OSError: nothing more is written, and nothing is closed; a line that failed is
\* counted all the same
WriteFails ==
    /\ doing = "nothing" /\ Recording
    /\ Fault /\ Fail
    /\ counted' \in {counted, counted + 1}
    /\ UNCHANGED <<doing, dir, open, buffered, since, disk, copy, hurt>>

\* What the flush of a tick leaves in the buffer: its failure is passed over.
Unflushed == {0} \cup (IF faults < MaxFaults THEN {buffered} ELSE {})

AfterFlush(left) == IF left = 0 THEN Flushed ELSE disk

\* tick: the flush, and what the disk was found to be before it.  The disk_full event
\* is a write like any other: if it fails the mission is not stopped.
Tick ==
    /\ doing = "nothing" /\ Recording
    /\ since' = 0
    /\ \E left \in Unflushed :
         \/ /\ ~Full
            /\ disk' = AfterFlush(left) /\ buffered' = left
            /\ UNCHANGED <<doing, state, counted, faults>>
         \/ /\ Full
            /\ counted' = counted + 1
            /\ \/ doing' = "ending full" /\ state' = "STOPPING"
                  /\ Take(AfterFlush(left), left) /\ UNCHANGED faults
               \/ Fault /\ Fail /\ UNCHANGED doing
                  /\ disk' = AfterFlush(left) /\ buffered' = left
    /\ UNCHANGED <<dir, open, copy, hurt>>

-----------------------------------------------------------------------------
(* Stopping                                                                *)

\* _on_stop, with its last trajectory record, and destroy_node: only a recorder
\* that records is stopped
Stop ==
    /\ doing = "nothing" /\ Recording
    /\ doing' = "ending" /\ state' = "STOPPING"
    /\ UNCHANGED <<dir, open, buffered, counted, since, disk, copy, faults, hurt>>

Ending == doing \in {"ending", "ending full"}

\* The mission_stopped event.  One that fails is counted all the same, may take with
\* it what was in the buffer, and does not keep stop from going on.
WriteStopped ==
    /\ Ending
    /\ counted' = counted + 1
    /\ doing' = IF doing = "ending" THEN "stopping" ELSE "stopping full"
    /\ \/ Take(disk, buffered) /\ UNCHANGED <<state, faults>>
       \/ /\ Fault /\ Fail
          /\ buffered' \in 0..buffered
          /\ disk' = [disk EXCEPT ![dir].lost = 1 + buffered - buffered']
    /\ UNCHANGED <<dir, open, since, copy, hurt>>

\* Mutant: the files are flushed and not synced.
CloseFlushed ==
    [disk EXCEPT ![dir].data = @ + buffered]

\* flush, fsync and close
Closed == [Flushed EXCEPT ![dir].durable = disk[dir].data + buffered]

Stopping == doing \in {"stopping", "stopping full"}

\* The handles, one after the other; one that fails is passed over, and what was
\* in its buffer is lost.
CloseFiles ==
    /\ Stopping /\ open
    /\ open' = FALSE /\ buffered' = 0
    /\ \/ disk' = Closed /\ UNCHANGED <<hurt, faults>>
       \/ Fault /\ hurt' = hurt \cup {dir} /\ UNCHANGED disk
    /\ UNCHANGED <<state, doing, dir, counted, since, copy>>

\* complete is claimed once the files are closed
CanComplete == Stopping /\ ~open

\* the second manifest; if it cannot be written the state says so until the end of
\* stop
CompleteManifest ==
    /\ CanComplete /\ disk[dir].manifest # "complete" /\ disk[dir].sums = "none"
    /\ \/ disk' = Manifest("complete", counted) /\ UNCHANGED <<state, faults, doing>>
       \/ Fault /\ Fail /\ UNCHANGED disk
          /\ doing' = IF doing = "stopping" THEN "sums" ELSE "sums full"
    /\ UNCHANGED <<dir, open, buffered, counted, since, copy, hurt>>

\* Mutant: a stop that was asked for leaves the state as it is.
ChecksumsLeave ==
    /\ \/ Stopping /\ ~open /\ disk[dir].manifest = "complete"
       \/ doing \in {"sums", "sums full"}
    /\ state' = IF doing \in {"stopping full", "sums full"} THEN "ERROR" ELSE state
    /\ doing' = "nothing" /\ dir' = None
    /\ disk' = [disk EXCEPT ![dir].sums = "whole", ![dir].hashed = disk[dir].data]
    /\ UNCHANGED <<faults, open, buffered, counted, since, copy, hurt>>

\* write_checksums, in place, and the state that start looks at
Checksums ==
    /\ \/ Stopping /\ ~open /\ disk[dir].manifest = "complete"
       \/ doing \in {"sums", "sums full"}
    /\ state' = IF doing \in {"stopping full", "sums full"} THEN "ERROR" ELSE "IDLE"
    /\ doing' = "nothing" /\ dir' = None
    /\ \/ disk' = [disk EXCEPT ![dir].sums = "whole", ![dir].hashed = disk[dir].data]
          /\ UNCHANGED faults
       \/ Fault /\ UNCHANGED disk
    /\ UNCHANGED <<open, buffered, counted, since, copy, hurt>>

-----------------------------------------------------------------------------
(* The kernel, the process and the power                                   *)

\* What is in the cache reaches the disk sooner or later.
WriteBack ==
    /\ disk' = [m \in Missions |-> [disk[m] EXCEPT !.durable = disk[m].data,
                                                   !.kept = disk[m].manifest]]
    /\ disk' # disk
    /\ UNCHANGED <<state, doing, dir, open, buffered, counted, since, copy, faults, hurt>>

Forget ==
    /\ state' = "IDLE" /\ doing' = "nothing" /\ dir' = None /\ open' = FALSE
    /\ buffered' = 0 /\ counted' = 0 /\ since' = 0

Killed ==
    /\ Fault /\ Forget
    /\ UNCHANGED <<disk, copy, hurt>>

\* destroy_node when nothing is recording: a mission that ended in an error is left
\* as it is, its files closed by the interpreter
Shutdown ==
    /\ doing = "nothing" /\ ~Recording
    /\ state # "IDLE"
    /\ disk' = IF open THEN Flushed ELSE disk
    /\ Forget
    /\ UNCHANGED <<copy, faults, hurt>>

\* What is left of the manifest and of the checksums when the power comes back.
ManifestsLeft(d) ==
    IF d.kept = d.manifest THEN {d.manifest} ELSE {d.kept, d.manifest, "unreadable"}

SumsLeft(d) ==
    IF d.sums = "whole" /\ d.kept # "complete" THEN {"none", "part", "whole"} ELSE {d.sums}

Left(d, n, man, s) ==
    [d EXCEPT !.data = n, !.durable = n, !.manifest = man, !.kept = man, !.sums = s]

\* What a directory may be: less data, an older or an unreadable manifest, and
\* checksums that were not written or not all of them.
AfterPowerCut(d) ==
    {Left(d, n, man, s) :
        n \in d.durable..d.data, man \in ManifestsLeft(d), s \in SumsLeft(d)}

PowerCut ==
    /\ Fault /\ Forget
    /\ disk' \in {f \in [Missions -> UNION {AfterPowerCut(disk[m]) : m \in Missions}] :
                    \A m \in Missions : f[m] \in AfterPowerCut(disk[m])}
    /\ UNCHANGED <<copy, hurt>>

-----------------------------------------------------------------------------
(* Export and deletion                                                     *)

\* Mutant: a copy whose checksums are missing counts as verified.
VerdictLenient(d, data) ==
    IF d.sums = "none" \/ d.sums = "part" \/ data = d.hashed THEN "verified" ELSE "mismatch"

\* verify_mission on the copy: a file the list does not name is not looked at
Verdict(d, data) ==
    IF d.sums = "none" THEN "not_checked"
    ELSE IF d.sums = "part" \/ data = d.hashed THEN "verified" ELSE "mismatch"

\* export_mission: refused while recording, and never over an earlier copy
ExportMission(m) ==
    /\ doing = "nothing" /\ ~Recording
    /\ disk[m].made
    /\ \A n \in Missions : ~copy[n].there      \* bound: the drive has room for one
    /\ \/ \E data \in {disk[m].data, disk[m].data - 1} \cap Nat :   \* copied well or badly
            copy' = [copy EXCEPT ![m] = [there |-> TRUE, data |-> data,
                        sums |-> disk[m].sums, said |-> Verdict(disk[m], data)]]
       \/ copy' = [copy EXCEPT ![m] = [there |-> TRUE, data |-> 0, sums |-> "none",
                                       said |-> "copy failed"]]
    /\ UNCHANGED <<state, doing, dir, open, buffered, counted, since, disk, faults, hurt>>

\* delete_mission, and the copy is taken off the drive
DeleteMission(m) ==
    /\ doing = "nothing"
    /\ disk[m].made /\ ~(Recording /\ dir = m)
    /\ dir # m \/ ~open         \* an unfinished one is not followed any further
    /\ disk' = [disk EXCEPT ![m] = NoDir]
    /\ copy' = [copy EXCEPT ![m] = NoCopy]
    /\ hurt' = hurt \ {m}
    /\ UNCHANGED <<state, doing, dir, open, buffered, counted, since, faults>>

-----------------------------------------------------------------------------
Init ==
    /\ state = "IDLE" /\ doing = "nothing" /\ dir = None /\ open = FALSE
    /\ buffered = 0 /\ counted = 0 /\ since = 0
    /\ disk = [m \in Missions |-> NoDir]
    /\ copy = [m \in Missions |-> NoCopy]
    /\ faults = 0 /\ hurt = {}

Next ==
    \/ \E m \in Missions : \/ MakeDirectory(m) \/ StartFails(m)
                           \/ ExportMission(m) \/ DeleteMission(m)
    \/ FinishStart
    \/ WriteUnit \/ WriteFails \/ Tick
    \/ Stop \/ WriteStopped \/ CloseFiles \/ CompleteManifest \/ Checksums
    \/ WriteBack \/ Killed \/ Shutdown \/ PowerCut

\* A callback runs to its end, and the timer of the node is served.
Spec ==
    /\ Init /\ [][Next]_vars
    /\ WF_vars(FinishStart \/ WriteStopped \/ CloseFiles \/ CompleteManifest \/ Checksums)
    /\ WF_vars(Tick)

-----------------------------------------------------------------------------
(* Properties                                                              *)

Names == {"nothing", "starting", "ending", "ending full", "stopping", "stopping full",
          "sums", "sums full"}

TypeOK ==
    /\ state \in {"IDLE", "RECORDING", "STOPPING", "ERROR"}
    /\ doing \in Names
    /\ dir \in Missions \cup {None}
    /\ open \in BOOLEAN
    /\ buffered \in 0..Buffer /\ counted \in Nat /\ since \in 0..PerTick
    /\ disk \in [Missions ->
                    [made : BOOLEAN, data : Nat, durable : Nat, lost : 0..Buffer + 1,
                     manifest : {"none", "open", "complete", "unreadable"},
                     kept : {"none", "open", "complete", "unreadable"},
                     claims : Nat, sums : {"none", "part", "whole"}, hashed : Nat]]
    /\ copy \in [Missions -> [there : BOOLEAN, data : Nat,
                               sums : {"none", "part", "whole"},
                               said : {"nothing", "copy failed", "not_checked",
                                       "verified", "mismatch"}]]
    /\ faults \in 0..MaxFaults
    /\ hurt \subseteq Missions

\* A directory whose manifest says complete holds on the disk every unit its counts
\* claim, also after a kill or a power cut at any moment of the stop, unless a file
\* could not be flushed and synced.  If the stop's own record could not be written,
\* that record is missing, though counted, and at most what was in the buffer with it:
\* nothing that was flushed before (stop, and the comment of flush_interval_s).
CompleteIsDurable ==
    \A m \in Missions \ hurt :
        disk[m].manifest = "complete" =>
            /\ disk[m].durable = disk[m].data
            /\ disk[m].data + disk[m].lost = disk[m].claims
            /\ disk[m].lost <= Buffer + 1

\* "Every file matches its checksum": a copy that was called verified against a
\* whole list has all that the recorder counted and that a file took, so that the
\* original may be deleted (export_mission).
VerifiedIsWhole ==
    \A m \in Missions \ hurt :
        copy[m].said = "verified" /\ copy[m].sums # "part"
        /\ disk[m].manifest = "complete"
            => copy[m].data + disk[m].lost = disk[m].claims

Kind(m) ==
    IF ~disk[m].made THEN "none"
    ELSE IF disk[m].manifest = "complete" THEN "whole"
    ELSE IF dir = m /\ (Recording \/ doing = "starting" \/ Ending \/ Stopping)
    THEN "recording"
    ELSE "broken"

D == INSTANCE MissionDirectories WITH is <- [m \in Missions |-> Kind(m)]

\* The recorder keeps its directories: one is recorded at a time, and one that was
\* broken off by a failed write, a kill or a power cut is never called whole later.
KeepsDirectories == D!Spec

\* A stop that was begun ends, also the one the full disk causes and the one that
\* failed on its way, and leaves the recorder ready to start.
StopEnds == Ending \/ Stopping ~> doing = "nothing" /\ state \in {"IDLE", "ERROR"}

=============================================================================
