------------------------ MODULE MissionRecorder_proofs ------------------------
(***************************************************************************)
(* What a manifest and a verified copy are worth, whenever the process or  *)
(* the power is lost, and that the recorder keeps its directories as       *)
(* MissionDirectories promises: for any missions, sizes and buffers.       *)
(***************************************************************************)
EXTENDS MissionRecorder, TLAPS

Directory == [made : BOOLEAN, data : Nat, durable : Nat, lost : 0..Buffer + 1,
              manifest : {"none", "open", "complete", "unreadable"},
              kept : {"none", "open", "complete", "unreadable"},
              claims : Nat, sums : {"none", "part", "whole"}, hashed : Nat]

Copied == [there : BOOLEAN, data : Nat, sums : {"none", "part", "whole"},
           said : {"nothing", "copy failed", "not_checked", "verified", "mismatch"}]

ScalarsOK ==
    /\ state \in {"IDLE", "RECORDING", "STOPPING", "ERROR"}
    /\ doing \in Names
    /\ dir \in Missions \cup {None}
    /\ open \in BOOLEAN
    /\ buffered \in 0..Buffer /\ counted \in Nat /\ since \in 0..PerTick
    /\ faults \in 0..MaxFaults
    /\ hurt \subseteq Missions

(* A directory d with its copy c: a manifest on the disk is not ahead of    *)
(* the one in the cache, a copy is of something that was made, and if no    *)
(* file was hurt, what is complete is durable, its list is of the files as  *)
(* they are, and so is a copy that was verified against it.                *)
Sound(d, c, isHurt) ==
    /\ d.kept = "complete" => d.manifest = "complete"
    /\ ~d.made => c = NoCopy
    /\ ~isHurt /\ d.manifest = "complete" =>
         /\ d.data + d.lost = d.claims /\ d.durable = d.data
         /\ d.sums = "whole" => d.hashed = d.data
         /\ c.said = "verified" /\ c.sums # "part" => c.data = d.data

(* A directory that is open has no list and is not complete.               *)
Unfinished(d) == d.made /\ d.manifest \in {"none", "open"} /\ d.sums = "none"

(* The directory under way: what was counted is in it or in the buffer     *)
(* while its files are open, but for what the record of the stop lost, and *)
(* on the disk once they are closed.                                       *)
UnderWay ==
    /\ open => dir \in Missions /\ Unfinished(disk[dir])
    /\ Recording \/ doing # "nothing" => dir \in Missions /\ disk[dir].made /\ copy[dir] = NoCopy
    /\ Recording => open /\ doing = "nothing"
    /\ doing = "starting" => open /\ buffered = 0 /\ disk[dir].data = 0 /\ disk[dir].lost = 0
    /\ Ending => open
    /\ doing \in {"sums", "sums full"} => ~open
    /\ Recording \/ Ending => disk[dir].lost = 0 /\ disk[dir].data + buffered = counted
    /\ Stopping /\ open => disk[dir].data + buffered + disk[dir].lost = counted
    /\ Stopping /\ ~open /\ dir \notin hurt =>
           disk[dir].data + disk[dir].lost = counted /\ disk[dir].durable = disk[dir].data

IInv ==
    /\ ScalarsOK
    /\ disk \in [Missions -> Directory]
    /\ copy \in [Missions -> Copied]
    /\ \A m \in Missions : Sound(disk[m], copy[m], m \in hurt)
    /\ UnderWay

---------------------------------------------------------------------------
(* The type invariant in its parts.                                        *)
LEMMA Types ==
    TypeOK <=> /\ ScalarsOK
               /\ disk \in [Missions -> Directory]
               /\ copy \in [Missions -> Copied]
  BY DEF TypeOK, ScalarsOK, Directory, Copied

(* Counters of nothing, and the numbers that a directory holds.            *)
LEMMA Numbers ==
    /\ 0 \in Nat /\ 0 \in 0..Buffer /\ 0 \in 0..PerTick /\ 0 \in 0..MaxFaults
    /\ 0 \in 0..Buffer + 1 /\ 1 \in Nat
    /\ \A d \in Directory : d.data \in Nat /\ d.lost \in Nat
    /\ \A n \in 0..Buffer : n \in Nat
  BY RecorderAssumption DEF Directory

(* A change of one directory is one of that directory.                     *)
LEMMA OneDirectory ==
    ASSUME IInv, NEW m \in Missions, NEW d \in Directory,
           disk' = [disk EXCEPT ![m] = d],
           \A n \in Missions \ {m} : copy'[n] = copy[n] /\ (n \in hurt => n \in hurt'),
           Sound(d, copy'[m], m \in hurt')
    PROVE  /\ disk' \in [Missions -> Directory]
           /\ disk'[m] = d
           /\ \A n \in Missions \ {m} : disk'[n] = disk[n]
           /\ \A n \in Missions : Sound(disk'[n], copy'[n], (n \in hurt)')
<1>1. /\ disk' \in [Missions -> Directory]
      /\ disk'[m] = d
      /\ \A n \in Missions \ {m} : disk'[n] = disk[n]
  BY DEF IInv
<1>2. ASSUME NEW n \in Missions, n # m
      PROVE  Sound(disk'[n], copy'[n], (n \in hurt)')
  <2>1. Sound(disk[n], copy[n], n \in hurt)
    BY DEF IInv
  <2>2. disk'[n] = disk[n] /\ copy'[n] = copy[n] /\ (n \in hurt => n \in hurt')
    BY <1>1, <1>2
  <2> QED BY <2>1, <2>2 DEF Sound
<1> QED BY <1>1, <1>2

(* What is not touched stays sound.                                        *)
LEMMA NoDirectory ==
    ASSUME IInv, disk' = disk, copy' = copy, hurt \subseteq hurt'
    PROVE  /\ disk' \in [Missions -> Directory] /\ copy' \in [Missions -> Copied]
           /\ \A n \in Missions : Sound(disk'[n], copy'[n], (n \in hurt)')
<1>1. ASSUME NEW n \in Missions PROVE Sound(disk'[n], copy'[n], (n \in hurt)')
  <2>1. Sound(disk[n], copy[n], n \in hurt)
    BY DEF IInv
  <2>2. n \in hurt => n \in hurt'
    OBVIOUS
  <2> QED BY <2>1, <2>2 DEF Sound
<1> QED BY <1>1 DEF IInv

(* A fault that is counted.                                                *)
LEMMA Counted == ASSUME IInv, Fault PROVE faults' \in 0..MaxFaults
  BY RecorderAssumption DEF IInv, ScalarsOK, Fault

(* What an open directory becomes while it is not complete is sound.       *)
LEMMA StaysOpen ==
    ASSUME IInv, open, NEW e \in Directory, disk' = [disk EXCEPT ![dir] = e],
           Unfinished(e), e.kept = disk[dir].kept, copy' = copy, hurt \subseteq hurt'
    PROVE  /\ disk' \in [Missions -> Directory] /\ copy' \in [Missions -> Copied]
           /\ disk'[dir] = e
           /\ \A n \in Missions : Sound(disk'[n], copy'[n], (n \in hurt)')
<1>1. dir \in Missions /\ disk[dir].kept # "complete"
  BY DEF IInv, UnderWay, Unfinished, Sound
<1>2. Sound(e, copy'[dir], dir \in hurt')
  BY <1>1 DEF Sound, Unfinished
<1>3. copy' \in [Missions -> Copied] /\ \A n \in Missions \ {dir} : copy'[n] = copy[n]
  BY DEF IInv
<1> QED BY <1>1, <1>2, <1>3, OneDirectory

(* What a write of the files does to a directory.                          *)
LEMMA Written ==
    ASSUME NEW d \in Directory, NEW n \in Nat
    PROVE  LET w == [d EXCEPT !.data = n]
           IN  /\ w \in Directory
               /\ w.data = n /\ w.made = d.made /\ w.manifest = d.manifest
               /\ w.kept = d.kept /\ w.sums = d.sums /\ w.lost = d.lost
  BY DEF Directory

(* A unit that is taken is in the file of the mission or in the buffer.     *)
LEMMA Taken ==
    ASSUME NEW f \in [Missions -> Directory], NEW b \in 0..Buffer,
           dir \in Missions, Take(f, b)
    PROVE  /\ buffered' \in 0..Buffer
           /\ \E e \in Directory :
                 /\ disk' = [f EXCEPT ![dir] = e]
                 /\ e.data + buffered' = f[dir].data + b + 1
                 /\ e.made = f[dir].made /\ e.manifest = f[dir].manifest
                 /\ e.kept = f[dir].kept /\ e.sums = f[dir].sums /\ e.lost = f[dir].lost
<1> DEFINE d == f[dir]
           e == [d EXCEPT !.data = d.data + b + 1]
<1>1. d \in Directory /\ d.data \in Nat /\ b \in Nat
  BY Numbers
<1>2. CASE b < Buffer /\ buffered' = b + 1 /\ disk' = f
  <2>1. b + 1 \in 0..Buffer /\ d.data + (b + 1) = d.data + b + 1
    BY <1>1, <1>2, RecorderAssumption
  <2>2. disk' = [f EXCEPT ![dir] = d]
    BY <1>2
  <2> QED BY <1>1, <1>2, <2>1, <2>2
<1>3. CASE disk' = [f EXCEPT ![dir].data = @ + b + 1] /\ buffered' = 0
  <2>1. d.data + b + 1 \in Nat /\ d.data + b + 1 + 0 = d.data + b + 1
    BY <1>1
  <2>2. disk' = [f EXCEPT ![dir] = e]
    BY <1>1, <1>3
  <2> HIDE DEF d
  <2>3. /\ e \in Directory /\ e.data = d.data + b + 1 /\ e.made = d.made
        /\ e.manifest = d.manifest /\ e.kept = d.kept /\ e.sums = d.sums /\ e.lost = d.lost
    BY <1>1, <2>1, Written
  <2> HIDE DEF e
  <2> QED BY <1>3, <2>1, <2>2, <2>3, Numbers DEF d
<1> QED BY <1>2, <1>3 DEF Take

(* The directory that is open takes a unit as it is.                       *)
LEMMA TakenOpen ==
    ASSUME IInv, open, Take(disk, buffered)
    PROVE  /\ buffered' \in 0..Buffer
           /\ \E e \in Directory :
                 /\ disk' = [disk EXCEPT ![dir] = e]
                 /\ e.data + buffered' = disk[dir].data + buffered + 1
                 /\ Unfinished(e) /\ e.kept = disk[dir].kept /\ e.lost = disk[dir].lost
<1>1. /\ dir \in Missions /\ Unfinished(disk[dir]) /\ disk \in [Missions -> Directory]
      /\ buffered \in 0..Buffer
  BY DEF IInv, UnderWay, ScalarsOK
<1> QED BY <1>1, Taken DEF Unfinished

(* Or as it has just become.                                               *)
LEMMA TakenThen ==
    ASSUME IInv, open, NEW d \in Directory, NEW b \in 0..Buffer,
           Take([disk EXCEPT ![dir] = d], b), Unfinished(d)
    PROVE  /\ buffered' \in 0..Buffer
           /\ \E e \in Directory :
                 /\ disk' = [disk EXCEPT ![dir] = e]
                 /\ e.data + buffered' = d.data + b + 1
                 /\ Unfinished(e) /\ e.kept = d.kept /\ e.lost = d.lost
<1> DEFINE f == [disk EXCEPT ![dir] = d]
<1>1. /\ dir \in Missions /\ disk \in [Missions -> Directory] /\ f[dir] = d
      /\ f \in [Missions -> Directory] /\ Take(f, b)
      /\ \A e : [f EXCEPT ![dir] = e] = [disk EXCEPT ![dir] = e]
  BY DEF IInv, UnderWay
<1> HIDE DEF f
<1>2. /\ buffered' \in 0..Buffer
      /\ \E e \in Directory :
                 /\ disk' = [f EXCEPT ![dir] = e]
                 /\ e.data + buffered' = f[dir].data + b + 1
                 /\ e.made = f[dir].made /\ e.manifest = f[dir].manifest
                 /\ e.kept = f[dir].kept /\ e.sums = f[dir].sums /\ e.lost = f[dir].lost
  BY <1>1, Taken
<1>3. PICK e \in Directory :
         /\ disk' = [f EXCEPT ![dir] = e]
         /\ e.data + buffered' = d.data + b + 1
         /\ e.made = d.made /\ e.manifest = d.manifest
         /\ e.kept = d.kept /\ e.sums = d.sums /\ e.lost = d.lost
  BY <1>1, <1>2
<1>4. disk' = [disk EXCEPT ![dir] = e] /\ Unfinished(e)
  BY <1>1, <1>3 DEF Unfinished
<1> QED BY <1>2, <1>3, <1>4

(* A record that is written: to the buffer, or with the buffer to the file. *)
LEMMA WriteUnitKeeps == ASSUME IInv, WriteUnit PROVE IInv'
<1>1. /\ dir \in Missions /\ open /\ copy[dir] = NoCopy /\ disk[dir].lost = 0
      /\ disk[dir].data + buffered = counted /\ doing = "nothing" /\ Recording
  BY DEF IInv, UnderWay, WriteUnit, Recording
<1>2. PICK e \in Directory :
          /\ disk' = [disk EXCEPT ![dir] = e] /\ e.data + buffered' = counted + 1
          /\ Unfinished(e) /\ e.kept = disk[dir].kept /\ e.lost = 0
  BY <1>1, TakenOpen DEF WriteUnit
<1>3. ScalarsOK'
  <2>1. buffered' \in 0..Buffer
    BY <1>1, TakenOpen DEF WriteUnit
  <2> QED BY <2>1, RecorderAssumption DEF IInv, ScalarsOK, WriteUnit
<1>4. /\ Recording' /\ ~Stopping' /\ ~Ending' /\ doing' = "nothing" /\ open' /\ open' = open
      /\ dir' = dir /\ copy' = copy /\ hurt' = hurt /\ counted' = counted + 1
  BY <1>1 DEF WriteUnit, Recording, Stopping, Ending
<1>5. /\ disk' \in [Missions -> Directory] /\ copy' \in [Missions -> Copied]
      /\ disk'[dir] = e
      /\ \A n \in Missions : Sound(disk'[n], copy'[n], (n \in hurt)')
  BY <1>1, <1>2, <1>4, StaysOpen
<1>6. UnderWay'
  <2>1. disk'[dir'] = e /\ copy'[dir'] = NoCopy
    BY <1>1, <1>4, <1>5
  <2>2. Unfinished(disk[dir])'
    BY <1>2, <2>1 DEF Unfinished
  <2> QED BY <1>1, <1>2, <1>4, <2>1, <2>2 DEF UnderWay, Unfinished
<1> QED BY <1>3, <1>5, <1>6 DEF IInv

(* A record that cannot be written: nothing is closed.                     *)
LEMMA WriteFailsKeeps == ASSUME IInv, WriteFails PROVE IInv'
<1>1. ScalarsOK'
  <2>1. counted' \in Nat
    BY DEF IInv, ScalarsOK, WriteFails
  <2>2. faults' \in 0..MaxFaults
    BY Counted DEF WriteFails
  <2> QED BY <2>1, <2>2 DEF IInv, ScalarsOK, WriteFails, Fail
<1>2. disk' = disk /\ copy' = copy /\ hurt \subseteq hurt'
  BY DEF WriteFails
<1>3. ~Recording' /\ ~Stopping' /\ ~Ending' /\ doing' = "nothing"
  BY DEF WriteFails, Fail, Recording, Stopping, Ending
<1>4. UnderWay'
  BY <1>3 DEF IInv, UnderWay, Unfinished, WriteFails
<1> QED BY <1>1, <1>2, <1>4, NoDirectory DEF IInv

(* The stop that is begun: the files are open still.                       *)
LEMMA StopKeeps == ASSUME IInv, Stop PROVE IInv'
<1>1. ScalarsOK'
  BY DEF IInv, ScalarsOK, Stop, Names
<1>2. disk' = disk /\ copy' = copy /\ hurt \subseteq hurt'
  BY DEF Stop
<1>3. UnderWay'
  BY DEF IInv, UnderWay, Unfinished, Stop, Recording, Stopping, Ending
<1> QED BY <1>1, <1>2, <1>3, NoDirectory DEF IInv

(* The loss of the process.                                                *)
LEMMA Forgotten ==
    ASSUME IInv, Forget, hurt' = hurt, faults' \in 0..MaxFaults
    PROVE  ScalarsOK' /\ UnderWay'
<1>1. ScalarsOK'
  BY Numbers DEF IInv, ScalarsOK, Forget, Names
<1>2. UnderWay'
  BY DEF UnderWay, Forget, Recording, Stopping, Ending
<1> QED BY <1>1, <1>2

(* The process is killed: the files keep what was flushed.                 *)
LEMMA KilledKeeps == ASSUME IInv, Killed PROVE IInv'
<1>1. ScalarsOK' /\ UnderWay'
  BY Forgotten, Counted DEF Killed
<1>2. disk' = disk /\ copy' = copy /\ hurt \subseteq hurt'
  BY DEF Killed
<1> QED BY <1>1, <1>2, NoDirectory DEF IInv

(* Files that are closed by the interpreter.                               *)
LEMMA FlushedFile ==
    ASSUME IInv, open
    PROVE  /\ [disk[dir] EXCEPT !.data = @ + buffered] \in Directory
           /\ Flushed = [disk EXCEPT ![dir] = [disk[dir] EXCEPT !.data = @ + buffered]]
           /\ LET d == [disk[dir] EXCEPT !.data = @ + buffered]
              IN  /\ d.data = disk[dir].data + buffered /\ d.made /\ d.sums = "none"
                  /\ d.manifest \in {"none", "open"} /\ d.kept = disk[dir].kept
                  /\ d.lost = disk[dir].lost
<1>1. /\ dir \in Missions /\ disk[dir] \in Directory /\ Unfinished(disk[dir])
      /\ disk[dir].data \in Nat /\ buffered \in Nat
  <2>1. dir \in Missions /\ disk[dir] \in Directory /\ Unfinished(disk[dir])
    BY DEF IInv, UnderWay
  <2>2. buffered \in Nat
    BY Numbers DEF IInv, ScalarsOK
  <2> QED BY <2>1, <2>2, Numbers
<1>2. disk[dir].data + buffered \in Nat
  BY <1>1
<1>3. Flushed = [disk EXCEPT ![dir] = [disk[dir] EXCEPT !.data = @ + buffered]]
  BY <1>1 DEF Flushed, IInv
<1> QED BY <1>1, <1>2, <1>3, Written DEF Unfinished

(* What is closed so is not complete, whoever copied it.                   *)
LEMMA FlushedSound ==
    ASSUME IInv, open, NEW c, NEW h
    PROVE  Sound([disk[dir] EXCEPT !.data = @ + buffered], c, h)
<1> DEFINE d == [disk[dir] EXCEPT !.data = @ + buffered]
<1>1. d.made /\ d.manifest \in {"none", "open"} /\ d.kept = disk[dir].kept
  BY FlushedFile
<1>2. disk[dir].kept # "complete"
  BY DEF IInv, UnderWay, Unfinished, Sound
<1> HIDE DEF d
<1>3. Sound(d, c, h)
  BY <1>1, <1>2 DEF Sound
<1> QED BY <1>3 DEF d

(* The node goes down with a mission that ended in an error.               *)
LEMMA ShutdownKeeps == ASSUME IInv, Shutdown PROVE IInv'
<1>1. ScalarsOK' /\ UnderWay'
  <2>1. Forget /\ hurt' = hurt /\ faults' \in 0..MaxFaults
    BY DEF Shutdown, IInv, ScalarsOK
  <2> QED BY <2>1, Forgotten
<1>2. copy' = copy /\ hurt' = hurt
  BY DEF Shutdown
<1>3. CASE ~open
  BY <1>1, <1>2, <1>3, NoDirectory DEF Shutdown, IInv
<1>4. CASE open
  <2> DEFINE d == [disk[dir] EXCEPT !.data = @ + buffered]
  <2>1. d \in Directory /\ disk' = [disk EXCEPT ![dir] = d] /\ dir \in Missions
    BY <1>4, FlushedFile DEF Shutdown, IInv, UnderWay
  <2>2. Sound(d, copy'[dir], dir \in hurt')
    BY <1>4, FlushedSound
  <2> HIDE DEF d
  <2>3. /\ disk' \in [Missions -> Directory]
        /\ \A n \in Missions : Sound(disk'[n], copy'[n], (n \in hurt)')
    BY <1>2, <2>1, <2>2, OneDirectory
  <2> QED BY <1>1, <1>2, <2>3 DEF IInv
<1> QED BY <1>3, <1>4

(* The record of the stop: it is in the file or in the buffer, or it and    *)
(* at most the buffer are lost.                                            *)
LEMMA WriteStoppedKeeps == ASSUME IInv, WriteStopped PROVE IInv'
<1>1. /\ open /\ dir \in Missions /\ copy[dir] = NoCopy /\ Unfinished(disk[dir])
      /\ disk[dir].data + buffered = counted /\ disk[dir].lost = 0 /\ ~Recording
      /\ disk[dir] \in Directory /\ disk[dir].data \in Nat /\ buffered \in 0..Buffer
  <2>1. /\ open /\ dir \in Missions /\ copy[dir] = NoCopy /\ Unfinished(disk[dir])
        /\ disk[dir].data + buffered = counted /\ disk[dir].lost = 0 /\ ~Recording
        /\ disk[dir] \in Directory
    BY DEF IInv, UnderWay, WriteStopped, Ending
  <2> QED BY <2>1, Numbers DEF IInv, ScalarsOK
<1>2. /\ doing' \in {"stopping", "stopping full"} /\ counted' = counted + 1 /\ open' = open
      /\ dir' = dir /\ copy' = copy /\ hurt' = hurt /\ ~Recording'
  BY <1>1 DEF WriteStopped, Recording, Fail
<1>3. ASSUME NEW e \in Directory, disk' = [disk EXCEPT ![dir] = e], Unfinished(e),
             e.kept = disk[dir].kept, e.data + buffered' + e.lost = counted',
             buffered' \in 0..Buffer
      PROVE  IInv'
  <2>1. ScalarsOK'
    <3>1. faults' \in 0..MaxFaults
      BY Counted DEF WriteStopped, IInv, ScalarsOK
    <3>2. counted' \in Nat
      <4>1. counted \in Nat /\ counted' = counted + 1
        BY <1>2 DEF IInv, ScalarsOK
      <4> QED BY <4>1
    <3>3. state' \in {"IDLE", "RECORDING", "STOPPING", "ERROR"}
      <4>1. state' = state \/ Fail
        BY DEF WriteStopped
      <4> QED BY <4>1 DEF Fail, IInv, ScalarsOK
    <3> QED BY <1>2, <1>3, <3>1, <3>2, <3>3 DEF WriteStopped, IInv, ScalarsOK, Names
  <2>2. /\ disk' \in [Missions -> Directory] /\ copy' \in [Missions -> Copied]
        /\ disk'[dir] = e
        /\ \A n \in Missions : Sound(disk'[n], copy'[n], (n \in hurt)')
    BY <1>1, <1>2, <1>3, StaysOpen
  <2>3. UnderWay'
    <3>1. disk'[dir'] = e /\ copy'[dir'] = NoCopy
      BY <1>1, <1>2, <2>2
    <3> QED BY <1>1, <1>2, <1>3, <3>1 DEF UnderWay, Unfinished, Ending
  <2> QED BY <2>1, <2>2, <2>3 DEF IInv
<1>4. CASE Take(disk, buffered)
  <2>1. /\ buffered' \in 0..Buffer
        /\ \E e \in Directory :
              /\ disk' = [disk EXCEPT ![dir] = e]
              /\ e.data + buffered' = disk[dir].data + buffered + 1
              /\ Unfinished(e) /\ e.kept = disk[dir].kept /\ e.lost = disk[dir].lost
    BY <1>1, <1>4, TakenOpen
  <2>2. PICK e \in Directory :
              /\ disk' = [disk EXCEPT ![dir] = e] /\ e.data + buffered' = counted'
              /\ Unfinished(e) /\ e.kept = disk[dir].kept /\ e.lost = 0
    BY <1>1, <1>2, <2>1
  <2>3. e.data + buffered' + e.lost = counted'
    BY <2>1, <2>2, Numbers
  <2> QED BY <1>3, <2>1, <2>2, <2>3
<1>5. CASE buffered' \in 0..buffered /\ disk' = [disk EXCEPT ![dir].lost = 1 + buffered - buffered']
  <2> DEFINE n == 1 + buffered - buffered'
             e == [disk[dir] EXCEPT !.lost = n]
  <2>1. n \in 0..Buffer + 1 /\ buffered' \in 0..Buffer
    BY <1>1, <1>5, RecorderAssumption
  <2>2. disk[dir].data + buffered' + n = counted'
    <3>1. disk[dir].data \in Nat /\ buffered \in Nat /\ buffered' \in Nat
      BY <1>1, <2>1, Numbers
    <3>2. disk[dir].data + buffered' + n = disk[dir].data + buffered + 1
      BY <3>1
    <3> QED BY <1>1, <1>2, <3>2
  <2>3. disk' = [disk EXCEPT ![dir] = e]
    BY <1>5
  <2> HIDE DEF n
  <2>4. /\ e \in Directory /\ e.lost = n /\ e.data = disk[dir].data /\ Unfinished(e)
        /\ e.kept = disk[dir].kept
    BY <1>1, <2>1 DEF Directory, Unfinished
  <2> HIDE DEF e
  <2> QED BY <1>3, <2>1, <2>2, <2>3, <2>4
<1> QED BY <1>4, <1>5 DEF WriteStopped

(* What the flush of a tick makes of the open directory.                   *)
LEMMA TickFlushes ==
    ASSUME IInv, open, NEW left \in Unflushed
    PROVE  /\ left \in 0..Buffer
           /\ \E d \in Directory :
                 /\ AfterFlush(left) = [disk EXCEPT ![dir] = d]
                 /\ d.data + left = disk[dir].data + buffered
                 /\ Unfinished(d) /\ d.kept = disk[dir].kept /\ d.lost = disk[dir].lost
<1>1. /\ dir \in Missions /\ Unfinished(disk[dir]) /\ disk \in [Missions -> Directory]
      /\ buffered \in 0..Buffer
  BY DEF IInv, UnderWay, ScalarsOK
<1>2. disk[dir] \in Directory /\ disk[dir].data \in Nat /\ buffered \in Nat
  BY <1>1, Numbers
<1>3. CASE left = 0
  <2> DEFINE d == [disk[dir] EXCEPT !.data = @ + buffered]
  <2>1. /\ d \in Directory /\ Flushed = [disk EXCEPT ![dir] = d]
        /\ d.data = disk[dir].data + buffered /\ d.made /\ d.sums = "none"
        /\ d.manifest \in {"none", "open"} /\ d.kept = disk[dir].kept
        /\ d.lost = disk[dir].lost
    BY FlushedFile
  <2> HIDE DEF d
  <2>2. AfterFlush(left) = [disk EXCEPT ![dir] = d] /\ d.data + left = disk[dir].data + buffered
    BY <1>2, <1>3, <2>1 DEF AfterFlush
  <2> QED BY <1>3, <2>1, <2>2, Numbers DEF Unfinished
<1>4. CASE left # 0
  <2>1. left = buffered /\ AfterFlush(left) = disk
    BY <1>4 DEF AfterFlush, Unflushed
  <2>2. disk = [disk EXCEPT ![dir] = disk[dir]]
    BY <1>1
  <2> QED BY <1>1, <1>2, <2>1, <2>2
<1> QED BY <1>3, <1>4

(* The timer: the flush, and the look at the disk.                         *)
LEMMA TickKeeps == ASSUME IInv, Tick PROVE IInv'
<1>1. /\ open /\ dir \in Missions /\ copy[dir] = NoCopy /\ disk[dir].lost = 0
      /\ disk[dir].data + buffered = counted /\ counted \in Nat /\ Recording
      /\ doing = "nothing"
  BY DEF IInv, UnderWay, ScalarsOK, Tick, Recording
<1>2. PICK left \in Unflushed :
         \/ /\ disk' = AfterFlush(left) /\ buffered' = left
            /\ UNCHANGED <<doing, state, counted, faults>>
         \/ /\ counted' = counted + 1 /\ doing' = "ending full" /\ state' = "STOPPING"
            /\ Take(AfterFlush(left), left) /\ UNCHANGED faults
         \/ /\ counted' = counted + 1 /\ Fault /\ Fail /\ UNCHANGED doing
            /\ disk' = AfterFlush(left) /\ buffered' = left
  BY DEF Tick
<1>3. open' = open /\ dir' = dir /\ copy' = copy /\ hurt' = hurt /\ since' = 0
  BY DEF Tick
<1>4. left \in 0..Buffer
  BY <1>1, TickFlushes
<1>5. PICK d \in Directory :
         /\ AfterFlush(left) = [disk EXCEPT ![dir] = d]
         /\ d.data + left = counted
         /\ Unfinished(d) /\ d.kept = disk[dir].kept /\ d.lost = 0
  BY <1>1, TickFlushes
<1>6. ASSUME NEW e \in Directory, disk' = [disk EXCEPT ![dir] = e], Unfinished(e),
             e.kept = disk[dir].kept, e.lost = 0, buffered' \in 0..Buffer,
             counted' \in Nat, faults' \in 0..MaxFaults,
             doing' \in {"nothing", "ending full"},
             state' \in {"RECORDING", "STOPPING", "ERROR"}, Recording' => doing' = "nothing",
             Recording' \/ doing' = "ending full" => e.data + buffered' = counted'
      PROVE  IInv'
  <2>1. ScalarsOK'
    BY <1>3, <1>6, Numbers DEF IInv, ScalarsOK, Names
  <2>2. /\ disk' \in [Missions -> Directory] /\ copy' \in [Missions -> Copied]
        /\ disk'[dir] = e
        /\ \A n \in Missions : Sound(disk'[n], copy'[n], (n \in hurt)')
    BY <1>1, <1>3, <1>6, StaysOpen
  <2>3. UnderWay'
    <3>1. disk'[dir'] = e /\ copy'[dir'] = NoCopy /\ ~Stopping'
      BY <1>1, <1>3, <1>6, <2>2 DEF Stopping
    <3>2. Ending' => doing' = "ending full"
      BY <1>6 DEF Ending
    <3> QED BY <1>1, <1>3, <1>6, <3>1, <3>2 DEF UnderWay, Unfinished
  <2> QED BY <2>1, <2>2, <2>3 DEF IInv
<1>7. faults' \in 0..MaxFaults
  BY <1>2, Counted DEF IInv, ScalarsOK
<1>8. CASE /\ disk' = AfterFlush(left) /\ buffered' = left
           /\ UNCHANGED <<doing, state, counted, faults>>
  BY <1>1, <1>4, <1>5, <1>6, <1>7, <1>8 DEF Recording
<1>9. CASE /\ disk' = AfterFlush(left) /\ buffered' = left
           /\ counted' = counted + 1 /\ Fail /\ UNCHANGED doing
  <2>1. ~Recording' /\ doing' = "nothing" /\ state' = "ERROR" /\ counted' \in Nat
    BY <1>1, <1>9 DEF Recording, Fail
  <2> QED BY <1>4, <1>5, <1>6, <1>7, <1>9, <2>1
<1>10. CASE /\ counted' = counted + 1 /\ doing' = "ending full" /\ state' = "STOPPING"
            /\ Take(AfterFlush(left), left)
  <2>1. Take([disk EXCEPT ![dir] = d], left)
    BY <1>5, <1>10
  <2>2. /\ buffered' \in 0..Buffer
        /\ \E e \in Directory :
               /\ disk' = [disk EXCEPT ![dir] = e] /\ e.data + buffered' = d.data + left + 1
               /\ Unfinished(e) /\ e.kept = d.kept /\ e.lost = d.lost
    BY <1>1, <1>4, <1>5, <2>1, TakenThen
  <2>3. PICK e \in Directory :
               /\ disk' = [disk EXCEPT ![dir] = e] /\ e.data + buffered' = counted'
               /\ Unfinished(e) /\ e.kept = disk[dir].kept /\ e.lost = 0
    BY <1>5, <1>10, <2>2
  <2>4. counted' \in Nat
    <3>1. counted \in Nat /\ counted' = counted + 1
      BY <1>1, <1>10
    <3> QED BY <3>1
  <2>5. ~Recording'
    BY <1>10 DEF Recording
  <2> QED BY <1>6, <1>7, <1>10, <2>2, <2>3, <2>4, <2>5
<1> QED BY <1>2, <1>8, <1>9, <1>10

(* A directory that has just been made, as start does or fails to.         *)
LEMMA Made ==
    LET d == [NoDir EXCEPT !.made = TRUE]
    IN  /\ d \in Directory /\ d.made /\ d.manifest = "none" /\ d.sums = "none"
        /\ d.data = 0 /\ d.lost = 0 /\ d.kept = "none" /\ \A c, h : Sound(d, c, h)
  BY Numbers DEF NoDir, Directory, Sound

(* A directory is made, and the files of an earlier error are closed.      *)
LEMMA MakeDirectoryKeeps == ASSUME IInv, NEW m \in Missions, MakeDirectory(m) PROVE IInv'
<1> DEFINE new == [NoDir EXCEPT !.made = TRUE]
           closed == IF open THEN Flushed ELSE disk
<1>1. /\ ~disk[m].made /\ ~Recording' /\ dir' = m /\ open' = TRUE /\ buffered' = 0
      /\ doing' = "starting" /\ copy' = copy /\ hurt' = hurt /\ state' = state
      /\ disk' = [closed EXCEPT ![m] = new]
  BY DEF MakeDirectory, Recording
<1>2. ScalarsOK'
  BY <1>1, Numbers DEF MakeDirectory, IInv, ScalarsOK, Names
<1>3. open => m # dir
  BY <1>1 DEF IInv, UnderWay, Unfinished
<1>4. /\ closed \in [Missions -> Directory]
      /\ \A n \in Missions :
           \/ closed[n] = disk[n]
           \/ open /\ n = dir /\ closed[n] = [disk[dir] EXCEPT !.data = @ + buffered]
  <2>1. CASE ~open
    <3>1. closed = disk
      BY <2>1
    <3> HIDE DEF closed
    <3> QED BY <3>1 DEF IInv
  <2>2. CASE open
    <3>1. Flushed = [disk EXCEPT ![dir] = [disk[dir] EXCEPT !.data = @ + buffered]]
          /\ [disk[dir] EXCEPT !.data = @ + buffered] \in Directory
      BY <2>2, FlushedFile
    <3>2. closed = [disk EXCEPT ![dir] = [disk[dir] EXCEPT !.data = @ + buffered]]
      BY <2>2, <3>1
    <3> HIDE DEF closed
    <3> QED BY <2>2, <3>1, <3>2 DEF IInv
  <2> QED BY <2>1, <2>2
<1> HIDE DEF closed
<1>5. new \in Directory /\ (\A c, h : Sound(new, c, h)) /\ new.made /\ new.manifest = "none"
      /\ new.sums = "none" /\ new.data = 0 /\ new.lost = 0
  BY Made
<1> HIDE DEF new
<1>6. /\ disk' \in [Missions -> Directory] /\ disk'[m] = new
      /\ \A n \in Missions \ {m} : disk'[n] = closed[n]
  BY <1>1, <1>4, <1>5
<1>7. ASSUME NEW n \in Missions PROVE Sound(disk'[n], copy'[n], (n \in hurt)')
  <2>1. CASE n = m
    BY <2>1, <1>5, <1>6
  <2>2. CASE n # m /\ closed[n] = disk[n]
    <3>1. disk'[n] = disk[n] /\ copy'[n] = copy[n] /\ hurt' = hurt
      BY <2>2, <1>1, <1>6
    <3> QED BY <3>1 DEF IInv
  <2>3. CASE n # m /\ open /\ closed[n] = [disk[dir] EXCEPT !.data = @ + buffered]
    <3>1. disk'[n] = [disk[dir] EXCEPT !.data = @ + buffered]
      BY <2>3, <1>6
    <3> QED BY <3>1, <2>3, FlushedSound
  <2> QED BY <2>1, <2>2, <2>3, <1>4
<1>8. Unfinished(disk[dir])' /\ disk'[dir'].data = 0 /\ disk'[dir'].lost = 0
  BY <1>1, <1>5, <1>6 DEF Unfinished
<1>9. copy[m] = NoCopy
  BY <1>1 DEF IInv, Sound
<1>10. UnderWay'
  BY <1>1, <1>5, <1>6, <1>8, <1>9 DEF UnderWay, Stopping, Ending, Unfinished
<1> QED BY <1>1, <1>2, <1>6, <1>7, <1>10 DEF IInv

(* A start that fails, with or without its directory.                      *)
LEMMA StartFailsKeeps == ASSUME IInv, NEW m \in Missions, StartFails(m) PROVE IInv'
<1> DEFINE new == [NoDir EXCEPT !.made = TRUE]
<1>1. /\ ~Recording' /\ doing = "nothing" /\ doing' = doing /\ open' = open /\ copy' = copy
      /\ hurt' = hurt /\ buffered' = buffered /\ counted' = counted /\ ~Stopping'
      /\ ~Ending' /\ (dir' # dir => ~open) /\ dir' \in {dir, m}
  BY DEF StartFails, Recording, Fail, Stopping, Ending
<1>2. ScalarsOK'
  <2>1. faults' \in 0..MaxFaults
    BY Counted DEF StartFails, IInv, ScalarsOK
  <2> QED BY <1>1, <2>1 DEF StartFails, Fail, IInv, ScalarsOK, Names
<1>3. CASE disk' = disk /\ dir' = dir
  <2>1. UnderWay'
    BY <1>1, <1>3 DEF IInv, UnderWay, Unfinished
  <2> QED BY <1>1, <1>2, <1>3, <2>1, NoDirectory DEF IInv
<1>4. CASE ~disk[m].made /\ disk' = [disk EXCEPT ![m] = new] /\ dir' = m
  <2>1. /\ disk' \in [Missions -> Directory]
        /\ \A n \in Missions : Sound(disk'[n], copy'[n], (n \in hurt)')
    <3>1. new \in Directory /\ Sound(new, copy'[m], m \in hurt')
      BY Made
    <3> HIDE DEF new
    <3> QED BY <3>1, <1>1, <1>4, OneDirectory
  <2>2. ~open
    BY <1>1, <1>4 DEF IInv, UnderWay, Unfinished
  <2>3. UnderWay'
    BY <1>1, <2>2 DEF UnderWay
  <2> QED BY <1>1, <1>2, <2>1, <2>3 DEF IInv
<1> QED BY <1>3, <1>4 DEF StartFails

(* The manifest of the start, and the record of it.                        *)
LEMMA FinishStartKeeps == ASSUME IInv, FinishStart PROVE IInv'
<1> DEFINE man == [disk[dir] EXCEPT !.manifest = "open", !.claims = 0]
<1>1. /\ open /\ dir \in Missions /\ disk[dir] \in Directory /\ copy[dir] = NoCopy
      /\ buffered = 0 /\ disk[dir].data = 0 /\ disk[dir].lost = 0 /\ Unfinished(disk[dir])
  BY DEF IInv, UnderWay, FinishStart
<1>2. /\ doing' = "nothing" /\ counted' = 1 /\ since' = 0 /\ open' = open /\ dir' = dir
      /\ copy' = copy /\ hurt' = hurt
  BY DEF FinishStart
<1>3. /\ man \in Directory /\ man.data = 0 /\ man.lost = 0 /\ Unfinished(man)
      /\ man.kept = disk[dir].kept
  <2>1. /\ man \in Directory /\ man.data = disk[dir].data /\ man.made = disk[dir].made
        /\ man.manifest = "open" /\ man.sums = disk[dir].sums /\ man.kept = disk[dir].kept
        /\ man.lost = disk[dir].lost
    BY <1>1, Numbers DEF Directory
  <2> HIDE DEF man
  <2> QED BY <1>1, <2>1 DEF Unfinished
<1>4. Manifest("open", 0) = [disk EXCEPT ![dir] = man] /\ disk = [disk EXCEPT ![dir] = disk[dir]]
  BY <1>1 DEF Manifest, IInv
<1> HIDE DEF man
<1>5. ASSUME NEW e \in Directory, disk' = [disk EXCEPT ![dir] = e], Unfinished(e),
             e.kept = disk[dir].kept, e.lost = 0, buffered' \in 0..Buffer,
             faults' \in 0..MaxFaults, state' \in {"RECORDING", "ERROR"},
             Recording' => e.data + buffered' = 1
      PROVE  IInv'
  <2>1. ScalarsOK'
    BY <1>2, <1>5, Numbers DEF IInv, ScalarsOK, Names
  <2>2. /\ disk' \in [Missions -> Directory] /\ copy' \in [Missions -> Copied]
        /\ disk'[dir] = e
        /\ \A n \in Missions : Sound(disk'[n], copy'[n], (n \in hurt)')
    BY <1>1, <1>2, <1>5, StaysOpen
  <2>3. UnderWay'
    <3>1. disk'[dir'] = e /\ copy'[dir'] = NoCopy /\ ~Stopping' /\ ~Ending'
      BY <1>1, <1>2, <2>2 DEF Stopping, Ending
    <3> QED BY <1>1, <1>2, <1>5, <3>1 DEF UnderWay, Unfinished
  <2> QED BY <2>1, <2>2, <2>3 DEF IInv
<1>6. faults' \in 0..MaxFaults
  BY Counted DEF FinishStart, IInv, ScalarsOK
<1>7. ASSUME NEW d \in Directory,
             Take([disk EXCEPT ![dir] = d], buffered), state' = "RECORDING",
             d.data = 0, d.lost = 0, Unfinished(d), d.kept = disk[dir].kept
      PROVE  IInv'
  <2>1. buffered \in 0..Buffer /\ 0 + 0 + 1 = 1
    BY <1>1, Numbers
  <2>2. /\ buffered' \in 0..Buffer
        /\ \E e \in Directory :
              /\ disk' = [disk EXCEPT ![dir] = e] /\ e.data + buffered' = d.data + buffered + 1
              /\ Unfinished(e) /\ e.kept = d.kept /\ e.lost = d.lost
    BY <1>1, <1>7, <2>1, TakenThen
  <2>3. PICK e \in Directory :
              /\ disk' = [disk EXCEPT ![dir] = e] /\ e.data + buffered' = 1
              /\ Unfinished(e) /\ e.kept = disk[dir].kept /\ e.lost = 0
    BY <1>1, <1>7, <2>1, <2>2
  <2> QED BY <1>5, <1>6, <1>7, <2>2, <2>3
<1>8. CASE Take(Manifest("open", 0), buffered) /\ state' = "RECORDING"
  BY <1>3, <1>4, <1>7, <1>8
<1>9. CASE Take(disk, buffered) /\ state' = "RECORDING"
  BY <1>1, <1>4, <1>7, <1>9
<1>10. CASE Fail /\ disk' = Manifest("open", 0) /\ buffered' = buffered
  <2>1. ~Recording' /\ state' = "ERROR" /\ buffered' \in 0..Buffer
    BY <1>1, <1>10, Numbers DEF Recording, Fail
  <2> QED BY <1>3, <1>4, <1>5, <1>6, <1>10, <2>1
<1> QED BY <1>8, <1>9, <1>10 DEF FinishStart

(* The files are closed: what was counted is on the disk, or one was hurt. *)
LEMMA CloseFilesKeeps == ASSUME IInv, CloseFiles PROVE IInv'
<1> DEFINE d == [disk[dir] EXCEPT !.data = @ + buffered, !.durable = disk[dir].data + buffered]
<1>1. /\ open /\ Stopping /\ dir \in Missions /\ disk[dir] \in Directory /\ copy[dir] = NoCopy
      /\ disk[dir].data + buffered + disk[dir].lost = counted /\ Unfinished(disk[dir])
      /\ ~Recording /\ disk[dir].data \in Nat /\ buffered \in Nat
  <2>1. /\ open /\ Stopping /\ dir \in Missions /\ disk[dir] \in Directory /\ copy[dir] = NoCopy
        /\ disk[dir].data + buffered + disk[dir].lost = counted /\ Unfinished(disk[dir])
        /\ ~Recording
    BY DEF IInv, UnderWay, CloseFiles, Stopping, Recording
  <2> QED BY <2>1, Numbers DEF IInv, ScalarsOK
<1>2. /\ doing' = doing /\ counted' = counted /\ ~open' /\ open' = FALSE /\ dir' = dir /\ copy' = copy
      /\ ~Recording' /\ doing \in {"stopping", "stopping full"} /\ ~Ending'
  BY <1>1 DEF CloseFiles, Stopping, Recording, Ending
<1>3. ScalarsOK'
  <2>1. faults' \in 0..MaxFaults /\ hurt' \subseteq Missions
    BY <1>1, Counted DEF CloseFiles, IInv, ScalarsOK
  <2> QED BY <1>2, <2>1, Numbers DEF CloseFiles, IInv, ScalarsOK
<1>4. CASE disk' = disk /\ hurt' = hurt \cup {dir}
  <2>1. UnderWay'
    BY <1>1, <1>2, <1>4 DEF UnderWay, Unfinished
  <2>2. hurt \subseteq hurt'
    BY <1>4
  <2> QED BY <1>2, <1>3, <1>4, <2>1, <2>2, NoDirectory DEF IInv
<1>5. CASE disk' = Closed /\ hurt' = hurt
  <2>1. disk' = [disk EXCEPT ![dir] = d]
    BY <1>1, <1>5, FlushedFile DEF Closed, IInv
  <2>2. /\ d \in Directory /\ d.durable = d.data /\ d.data + d.lost = counted /\ Unfinished(d)
        /\ d.kept = disk[dir].kept
    <3>1. disk[dir].data + buffered \in Nat
      BY <1>1
    <3> QED BY <1>1, <3>1 DEF Directory, Unfinished
  <2> HIDE DEF d
  <2>3. hurt \subseteq hurt'
    BY <1>5
  <2>4. /\ disk' \in [Missions -> Directory] /\ copy' \in [Missions -> Copied] /\ disk'[dir] = d
        /\ \A n \in Missions : Sound(disk'[n], copy'[n], (n \in hurt)')
    BY <1>1, <1>2, <2>1, <2>2, <2>3, StaysOpen
  <2>5. UnderWay'
    BY <1>1, <1>2, <2>2, <2>4 DEF UnderWay, Unfinished
  <2> QED BY <1>2, <1>3, <2>4, <2>5 DEF IInv
<1> QED BY <1>4, <1>5 DEF CloseFiles

(* The manifest that says complete.                                        *)
LEMMA CompleteManifestKeeps == ASSUME IInv, CompleteManifest PROVE IInv'
<1> DEFINE d == [disk[dir] EXCEPT !.manifest = "complete", !.claims = counted]
<1>1. /\ ~open /\ Stopping /\ dir \in Missions /\ disk[dir] \in Directory /\ copy[dir] = NoCopy
      /\ dir \notin hurt =>
           disk[dir].data + disk[dir].lost = counted /\ disk[dir].durable = disk[dir].data
      /\ disk[dir].made /\ disk[dir].sums = "none" /\ ~Recording /\ counted \in Nat
  BY DEF IInv, UnderWay, CompleteManifest, CanComplete, Stopping, Recording, ScalarsOK
<1>2. /\ counted' = counted /\ open' = open /\ dir' = dir /\ copy' = copy /\ hurt' = hurt
      /\ ~Recording' /\ doing' \in {"stopping", "stopping full", "sums", "sums full"} /\ ~Ending'
  <2>1. state' = state \/ Fail
    BY DEF CompleteManifest
  <2>2. /\ counted' = counted /\ open' = open /\ dir' = dir /\ copy' = copy /\ hurt' = hurt
        /\ doing' \in {doing, "sums", "sums full"}
    BY DEF CompleteManifest
  <2> QED BY <1>1, <2>1, <2>2 DEF Stopping, Recording, Fail, Ending
<1>3. ScalarsOK'
  <2>1. faults' \in 0..MaxFaults
    BY Counted DEF CompleteManifest, IInv, ScalarsOK
  <2>2. state' \in {"IDLE", "RECORDING", "STOPPING", "ERROR"}
    <3>1. state' = state \/ Fail
      BY DEF CompleteManifest
    <3> QED BY <3>1 DEF Fail, IInv, ScalarsOK
  <2>3. /\ dir' = dir /\ buffered' = buffered /\ since' = since /\ hurt' = hurt
    BY DEF CompleteManifest
  <2> QED BY <1>2, <2>1, <2>2, <2>3 DEF IInv, ScalarsOK, Names
<1>4. CASE disk' = disk
  <2>1. UnderWay'
    BY <1>1, <1>2, <1>4 DEF UnderWay
  <2> QED BY <1>2, <1>3, <1>4, <2>1, NoDirectory DEF IInv
<1>5. CASE disk' = [disk EXCEPT ![dir] = d]
  <2>1. /\ d \in Directory /\ d.data = disk[dir].data /\ d.durable = disk[dir].durable /\ d.made
        /\ d.manifest = "complete" /\ d.sums = "none" /\ d.claims = counted
        /\ d.lost = disk[dir].lost
    BY <1>1 DEF Directory
  <2> HIDE DEF d
  <2>2. copy'[dir].said = "nothing"
    <3>1. NoCopy.said = "nothing"
      BY DEF NoCopy
    <3>2. copy'[dir] = NoCopy
      BY <1>1, <1>2
    <3> QED BY <3>1, <3>2
  <2>3. Sound(d, copy'[dir], dir \in hurt')
    BY <1>1, <1>2, <2>1, <2>2 DEF Sound
  <2>4. /\ disk' \in [Missions -> Directory] /\ disk'[dir] = d
        /\ \A n \in Missions : Sound(disk'[n], copy'[n], (n \in hurt)')
    BY <1>1, <1>2, <1>5, <2>1, <2>3, OneDirectory
  <2>5. UnderWay'
    BY <1>1, <1>2, <2>1, <2>4 DEF UnderWay
  <2> QED BY <1>2, <1>3, <2>4, <2>5 DEF IInv
<1> QED BY <1>2, <1>4, <1>5 DEF CompleteManifest, Manifest

(* The list of checksums, and the end of the stop.                         *)
LEMMA ChecksumsKeeps == ASSUME IInv, Checksums PROVE IInv'
<1> DEFINE d == [disk[dir] EXCEPT !.sums = "whole", !.hashed = disk[dir].data]
<1>1. ~open /\ dir \in Missions /\ disk[dir] \in Directory /\ disk[dir].made
  BY DEF IInv, UnderWay, Checksums, Stopping
<1>2. /\ doing' = "nothing" /\ open' = open /\ copy' = copy /\ hurt' = hurt
      /\ ~Recording' /\ ~Stopping' /\ ~Ending'
  BY DEF Checksums, Stopping, Recording, Ending
<1>3. UnderWay'
  BY <1>1, <1>2 DEF UnderWay
<1>4. ScalarsOK'
  <2>1. faults' \in 0..MaxFaults
    BY Counted DEF Checksums, IInv, ScalarsOK
  <2>2. state' \in {"ERROR", "IDLE"}
    BY DEF Checksums
  <2> QED BY <2>1, <2>2 DEF Checksums, IInv, ScalarsOK, Names
<1>5. CASE disk' = disk
  BY <1>2, <1>3, <1>4, <1>5, NoDirectory DEF IInv
<1>6. CASE disk' = [disk EXCEPT ![dir] = d]
  <2>1. /\ d \in Directory /\ d.data = disk[dir].data /\ d.durable = disk[dir].durable
        /\ d.manifest = disk[dir].manifest /\ d.kept = disk[dir].kept /\ d.made
        /\ d.claims = disk[dir].claims /\ d.hashed = d.data /\ d.lost = disk[dir].lost
    BY <1>1 DEF Directory
  <2> HIDE DEF d
  <2>2. Sound(disk[dir], copy[dir], dir \in hurt)
    BY <1>1 DEF IInv
  <2>3. Sound(d, copy'[dir], dir \in hurt')
    BY <1>2, <2>1, <2>2 DEF Sound
  <2>4. /\ disk' \in [Missions -> Directory]
        /\ \A n \in Missions : Sound(disk'[n], copy'[n], (n \in hurt)')
    BY <1>1, <1>2, <1>6, <2>1, <2>3, OneDirectory
  <2> QED BY <1>2, <1>3, <1>4, <2>4 DEF IInv
<1> QED BY <1>5, <1>6 DEF Checksums

---------------------------------------------------------------------------
(* A copy, well or badly made.                                             *)
LEMMA ExportMissionKeeps == ASSUME IInv, NEW m \in Missions, ExportMission(m) PROVE IInv'
<1>1. /\ ~Recording /\ ~Recording' /\ doing = "nothing" /\ disk[m].made /\ disk' = disk /\ hurt' = hurt
      /\ doing' = doing /\ open' = open /\ dir' = dir /\ buffered' = buffered /\ ~Stopping'
      /\ ~Ending'
  BY DEF ExportMission, Recording, Stopping, Ending
<1>2. ScalarsOK'
  BY DEF ExportMission, IInv, ScalarsOK
<1>3. UnderWay'
  BY <1>1 DEF IInv, UnderWay, Unfinished
<1>4. PICK c \in Copied : /\ copy' = [copy EXCEPT ![m] = c]
                          /\ c.said = "verified" /\ c.sums # "part" =>
                               disk[m].sums = "whole" /\ c.data = disk[m].hashed
  <2>1. disk[m] \in Directory
    BY DEF IInv
  <2>2. CASE \E data \in {disk[m].data, disk[m].data - 1} \cap Nat :
               copy' = [copy EXCEPT ![m] = [there |-> TRUE, data |-> data,
                          sums |-> disk[m].sums, said |-> Verdict(disk[m], data)]]
    <3>1. PICK data \in {disk[m].data, disk[m].data - 1} \cap Nat :
               copy' = [copy EXCEPT ![m] = [there |-> TRUE, data |-> data,
                          sums |-> disk[m].sums, said |-> Verdict(disk[m], data)]]
      BY <2>2
    <3> DEFINE c == [there |-> TRUE, data |-> data,
                     sums |-> disk[m].sums, said |-> Verdict(disk[m], data)]
    <3>2. data \in Nat
      OBVIOUS
    <3>3. disk[m].sums \in {"none", "part", "whole"}
      BY <2>1 DEF Directory
    <3>4. /\ Verdict(disk[m], data) \in {"not_checked", "verified", "mismatch"}
          /\ Verdict(disk[m], data) = "verified" =>
               disk[m].sums # "none" /\ (disk[m].sums = "part" \/ data = disk[m].hashed)
      BY DEF Verdict
    <3>5. c \in Copied
      BY <3>2, <3>3, <3>4 DEF Copied
    <3>6. c.said = "verified" /\ c.sums # "part" => disk[m].sums = "whole" /\ c.data = disk[m].hashed
      BY <3>3, <3>4
    <3> QED BY <3>1, <3>5, <3>6
  <2>3. CASE copy' = [copy EXCEPT ![m] = [there |-> TRUE, data |-> 0, sums |-> "none",
                                          said |-> "copy failed"]]
    <3>1. [there |-> TRUE, data |-> 0, sums |-> "none", said |-> "copy failed"] \in Copied
      BY Numbers DEF Copied
    <3> QED BY <2>3, <3>1
  <2> QED BY <2>2, <2>3 DEF ExportMission
<1>5. copy' \in [Missions -> Copied] /\ copy'[m] = c /\ \A n \in Missions \ {m} : copy'[n] = copy[n]
  BY <1>4 DEF IInv
<1>6. ASSUME NEW n \in Missions PROVE Sound(disk'[n], copy'[n], (n \in hurt)')
  <2>1. Sound(disk[n], copy[n], n \in hurt)
    BY DEF IInv
  <2>2. CASE n = m
    BY <1>1, <1>4, <1>5, <2>1, <2>2 DEF Sound
  <2>3. CASE n # m
    BY <1>1, <1>5, <2>1, <2>3
  <2> QED BY <2>2, <2>3
<1> QED BY <1>1, <1>2, <1>3, <1>5, <1>6 DEF IInv

(* A mission is deleted, with its copy and what was known of it.           *)
LEMMA DeleteMissionKeeps == ASSUME IInv, NEW m \in Missions, DeleteMission(m) PROVE IInv'
<1>1. /\ doing = "nothing" /\ doing' = doing /\ open' = open /\ dir' = dir /\ buffered' = buffered
      /\ counted' = counted /\ (dir # m \/ ~open) /\ ~Stopping' /\ ~Ending' /\ (Recording' => Recording)
      /\ disk' = [disk EXCEPT ![m] = NoDir] /\ copy' = [copy EXCEPT ![m] = NoCopy]
      /\ hurt' = hurt \ {m}
  BY DEF DeleteMission, Recording, Stopping, Ending
<1>2. ScalarsOK'
  BY DEF DeleteMission, IInv, ScalarsOK
<1>3. NoDir \in Directory /\ NoCopy \in Copied
  BY Numbers DEF NoDir, NoCopy, Directory, Copied
<1>4. /\ copy' \in [Missions -> Copied] /\ copy'[m] = NoCopy
      /\ \A n \in Missions \ {m} : copy'[n] = copy[n] /\ (n \in hurt => n \in hurt')
  BY <1>1, <1>3 DEF IInv
<1>5. NoDir.kept = "none" /\ NoDir.manifest = "none"
  BY DEF NoDir
<1>6. Sound(NoDir, copy'[m], m \in hurt')
  BY <1>4, <1>5 DEF Sound
<1>7. /\ disk' \in [Missions -> Directory]
      /\ \A n \in Missions \ {m} : disk'[n] = disk[n]
      /\ \A n \in Missions : Sound(disk'[n], copy'[n], (n \in hurt)')
  BY <1>1, <1>3, <1>4, <1>6, OneDirectory
<1>8. UnderWay'
  <2>1. CASE open
    BY <1>1, <1>4, <1>7, <2>1 DEF IInv, UnderWay, Unfinished
  <2>2. CASE ~open
    BY <1>1, <2>2 DEF IInv, UnderWay
  <2> QED BY <2>1, <2>2 DEF IInv, ScalarsOK
<1> QED BY <1>2, <1>4, <1>7, <1>8 DEF IInv

---------------------------------------------------------------------------
(* What the disk may be after the kernel wrote it or the power went: each   *)
(* directory some other one of the same mission, and as sound.             *)
LEMMA EveryDirectory ==
    ASSUME IInv, disk' \in [Missions -> Directory], copy' = copy, hurt' = hurt,
           \A m \in Missions :
              LET d == disk[m] e == disk'[m]
              IN  /\ e.made = d.made /\ e.claims = d.claims /\ e.hashed = d.hashed /\ e.lost = d.lost
                  /\ e.sums = "whole" => d.sums = "whole"
                  /\ e.kept = "complete" => e.manifest = "complete"
                  /\ e.manifest = "complete" => d.manifest = "complete"
                  /\ d.data = d.durable => e.data = d.data /\ e.durable = d.data
    PROVE  \A m \in Missions : Sound(disk'[m], copy'[m], (m \in hurt)')
<1>1. ASSUME NEW m \in Missions PROVE Sound(disk'[m], copy'[m], m \in hurt')
  <2>1. Sound(disk[m], copy[m], m \in hurt)
    BY DEF IInv
  <2> QED BY <2>1 DEF Sound
<1> QED BY <1>1

(* The kernel writes back.                                                 *)
LEMMA WriteBackKeeps == ASSUME IInv, WriteBack PROVE IInv'
<1> DEFINE f(m) == [disk[m] EXCEPT !.durable = disk[m].data, !.kept = disk[m].manifest]
<1>1. /\ doing' = doing /\ open' = open /\ dir' = dir /\ buffered' = buffered
      /\ counted' = counted /\ copy' = copy /\ hurt' = hurt /\ state' = state
      /\ disk' = [m \in Missions |-> f(m)]
  BY DEF WriteBack
<1>2. ScalarsOK'
  BY <1>1 DEF WriteBack, IInv, ScalarsOK
<1>3. ASSUME NEW m \in Missions
      PROVE  /\ f(m) \in Directory /\ f(m).made = disk[m].made /\ f(m).claims = disk[m].claims
             /\ f(m).hashed = disk[m].hashed /\ f(m).lost = disk[m].lost /\ f(m).sums = disk[m].sums
             /\ f(m).manifest = disk[m].manifest /\ f(m).kept = disk[m].manifest
             /\ f(m).data = disk[m].data /\ f(m).durable = disk[m].data
  <2>1. disk[m] \in Directory
    BY DEF IInv
  <2> QED BY <2>1 DEF Directory
<1> HIDE DEF f
<1>4. disk' \in [Missions -> Directory] /\ \A m \in Missions : disk'[m] = f(m)
  BY <1>1, <1>3
<1>5. \A m \in Missions : Sound(disk'[m], copy'[m], (m \in hurt)')
  <2>1. \A m \in Missions :
              LET d == disk[m] e == disk'[m]
              IN  /\ e.made = d.made /\ e.claims = d.claims /\ e.hashed = d.hashed /\ e.lost = d.lost
                  /\ e.sums = "whole" => d.sums = "whole"
                  /\ e.kept = "complete" => e.manifest = "complete"
                  /\ e.manifest = "complete" => d.manifest = "complete"
                  /\ d.data = d.durable => e.data = d.data /\ e.durable = d.data
    BY <1>3, <1>4
  <2> QED BY <1>1, <1>4, <2>1, EveryDirectory
<1>6. UnderWay'
  <2>1. ASSUME NEW m \in Missions
        PROVE  /\ disk'[m].made = disk[m].made /\ disk'[m].sums = disk[m].sums
               /\ disk'[m].lost = disk[m].lost
               /\ disk'[m].manifest = disk[m].manifest /\ disk'[m].data = disk[m].data
               /\ disk'[m].durable = disk[m].data
    BY <1>3, <1>4
  <2>2. Recording' = Recording /\ Stopping' = Stopping /\ Ending' = Ending
    BY <1>1 DEF Recording, Stopping, Ending
  <2>3. UnderWay
    BY DEF IInv
  <2>4. Stopping \/ Ending => doing # "nothing"
    BY DEF Stopping, Ending
  <2> QED BY <1>1, <2>1, <2>2, <2>3, <2>4 DEF UnderWay, Unfinished
<1> QED BY <1>1, <1>2, <1>4, <1>5, <1>6 DEF IInv

(* What the power leaves of a directory: no more than there was of it.     *)
LEMMA CutDirectory ==
    ASSUME IInv, PowerCut, NEW m \in Missions
    PROVE  LET d == disk[m] e == disk'[m]
           IN  /\ e \in Directory
               /\ e.made = d.made /\ e.claims = d.claims /\ e.hashed = d.hashed /\ e.lost = d.lost
               /\ e.sums = "whole" => d.sums = "whole"
               /\ e.kept = "complete" => e.manifest = "complete"
               /\ e.manifest = "complete" => d.manifest = "complete"
               /\ d.data = d.durable => e.data = d.data /\ e.durable = d.data
<1> DEFINE d == disk[m]
<1>1. d \in Directory /\ (d.kept = "complete" => d.manifest = "complete")
  BY DEF IInv, Sound
<1>2. PICK n \in d.durable..d.data, man \in ManifestsLeft(d), s \in SumsLeft(d) :
             disk'[m] = Left(d, n, man, s)
  <2>1. disk'[m] \in AfterPowerCut(d)
    BY DEF PowerCut
  <2> HIDE DEF d
  <2> QED BY <2>1 DEF AfterPowerCut
<1>3. n \in Nat /\ (d.data = d.durable => n = d.data)
  BY <1>1, <1>2, RecorderAssumption DEF Directory
<1>4. man \in {"none", "open", "complete", "unreadable"} /\ (man = "complete" => d.manifest = "complete")
  BY <1>1, <1>2 DEF Directory, ManifestsLeft
<1>5. s \in {"none", "part", "whole"} /\ (s = "whole" => d.sums = "whole")
  BY <1>1, <1>2 DEF Directory, SumsLeft
<1> DEFINE e == Left(d, n, man, s)
<1>6. /\ e \in Directory /\ e.made = d.made /\ e.claims = d.claims /\ e.hashed = d.hashed /\ e.lost = d.lost
      /\ e.sums = s /\ e.kept = man /\ e.manifest = man /\ e.data = n /\ e.durable = n
  <2> HIDE DEF d
  <2> QED BY <1>1, <1>3, <1>4, <1>5 DEF Directory, Left
<1> HIDE DEF e
<1> QED BY <1>2, <1>3, <1>4, <1>5, <1>6 DEF e

(* The power goes.                                                         *)
LEMMA PowerCutKeeps == ASSUME IInv, PowerCut PROVE IInv'
<1>1. ScalarsOK' /\ UnderWay'
  BY Forgotten, Counted DEF PowerCut
<1>2. /\ copy' = copy /\ hurt' = hurt
      /\ disk' \in [Missions -> UNION {AfterPowerCut(disk[m]) : m \in Missions}]
      /\ \A m \in Missions : disk'[m] \in AfterPowerCut(disk[m])
  BY DEF PowerCut
<1>3. ASSUME NEW m \in Missions
      PROVE  LET d == disk[m] e == disk'[m]
             IN  /\ e \in Directory
                 /\ e.made = d.made /\ e.claims = d.claims /\ e.hashed = d.hashed /\ e.lost = d.lost
                 /\ e.sums = "whole" => d.sums = "whole"
                 /\ e.kept = "complete" => e.manifest = "complete"
                 /\ e.manifest = "complete" => d.manifest = "complete"
                 /\ d.data = d.durable => e.data = d.data /\ e.durable = d.data
  BY CutDirectory
<1>4. disk' \in [Missions -> Directory]
  BY <1>2, <1>3
<1>5. \A m \in Missions : Sound(disk'[m], copy'[m], (m \in hurt)')
  BY <1>2, <1>3, <1>4, EveryDirectory
<1> QED BY <1>1, <1>2, <1>4, <1>5 DEF IInv

---------------------------------------------------------------------------
(* The first state.                                                        *)
LEMMA Starts == ASSUME Init PROVE IInv
<1>1. NoDir \in Directory /\ NoCopy \in Copied /\ \A h : Sound(NoDir, NoCopy, h)
  BY Numbers DEF NoDir, NoCopy, Directory, Copied, Sound
<1>2. ScalarsOK
  BY Numbers DEF Init, ScalarsOK, Names
<1>3. UnderWay
  BY DEF Init, UnderWay, Recording, Stopping, Ending
<1> QED BY <1>1, <1>2, <1>3 DEF Init, IInv

(* Every step.                                                             *)
LEMMA Steps == ASSUME IInv, [Next]_vars PROVE IInv'
<1>1. ASSUME NEW m \in Missions,
             MakeDirectory(m) \/ StartFails(m) \/ ExportMission(m) \/ DeleteMission(m)
      PROVE  IInv'
  BY <1>1, MakeDirectoryKeeps, StartFailsKeeps, ExportMissionKeeps, DeleteMissionKeeps
<1>2. CASE FinishStart \/ WriteUnit \/ WriteFails \/ Tick \/ Stop
  BY <1>2, FinishStartKeeps, WriteUnitKeeps, WriteFailsKeeps, TickKeeps, StopKeeps
<1>3. CASE WriteStopped \/ CloseFiles \/ CompleteManifest \/ Checksums
  BY <1>3, WriteStoppedKeeps, CloseFilesKeeps, CompleteManifestKeeps, ChecksumsKeeps
<1>4. CASE WriteBack \/ Killed \/ Shutdown \/ PowerCut
  BY <1>4, WriteBackKeeps, KilledKeeps, ShutdownKeeps, PowerCutKeeps
<1>5. CASE UNCHANGED vars
  <2>1. ScalarsOK' /\ UnderWay'
    BY <1>5 DEF vars, IInv, ScalarsOK, UnderWay, Unfinished, Recording, Stopping, Ending
  <2>2. disk' = disk /\ copy' = copy /\ hurt \subseteq hurt'
    BY <1>5 DEF vars
  <2> QED BY <2>1, <2>2, NoDirectory DEF IInv
<1> QED BY <1>1, <1>2, <1>3, <1>4, <1>5 DEF Next

(* The inductive invariant, with what an open directory still is.          *)
THEOREM Invariant == Spec => []IInv
<1> QED BY Starts, Steps, PTL DEF Spec

(* The types.                                                              *)
THEOREM TypeCorrect == Spec => []TypeOK
<1>1. IInv => TypeOK
  BY Types DEF IInv
<1> QED BY <1>1, Invariant, PTL

(* A manifest that says complete belongs to files that hold what was       *)
(* counted, on the disk, wherever the process or the power was lost: all of *)
(* it, or all but a record of the stop that failed and one buffer.         *)
THEOREM CompleteDurable == Spec => []CompleteIsDurable
<1>1. IInv => CompleteIsDurable
  BY RecorderAssumption DEF IInv, Sound, CompleteIsDurable, Directory
<1> QED BY <1>1, Invariant, PTL

(* A copy that was verified against a whole list has what the files took   *)
(* of all that was counted.                                                *)
THEOREM VerifiedWhole == Spec => []VerifiedIsWhole
<1>1. IInv => VerifiedIsWhole
  BY DEF IInv, Sound, VerifiedIsWhole
<1> QED BY <1>1, Invariant, PTL

---------------------------------------------------------------------------
(* The recorder keeps its directories: what a step makes of each of them.  *)
Going == Recording \/ doing = "starting" \/ Ending \/ Stopping

Kinds == [m \in Missions |-> Kind(m)]

(* What tells one kind from another is the same of the directory.          *)
Alike(m) == disk'[m].made = disk[m].made /\ disk'[m].manifest = disk[m].manifest

(* A directory that is followed no more or no less than before.            *)
LEMMA SameKind ==
    ASSUME NEW m \in Missions, Alike(m), (dir = m /\ Going)' <=> (dir = m /\ Going)
    PROVE  Kind(m)' = Kind(m)
  BY DEF Kind, Going, Alike

(* Steps that at most break what was recorded or whole.                    *)
LEMMA Breaks ==
    ASSUME \A m \in Missions : Kind(m)' \in {Kind(m), "broken"}
    PROVE  [D!Next]_Kinds
<1> DEFINE S == {m \in Missions : Kind(m)' # Kind(m)}
<1>1. CASE S = {}
  BY <1>1 DEF Kinds
<1>2. CASE S # {}
  <2>1. Kinds' = [m \in Missions |-> IF m \in S THEN "broken" ELSE Kinds[m]]
    BY DEF Kinds
  <2>2. S \in SUBSET Missions
    OBVIOUS
  <2> HIDE DEF S
  <2>3. D!Break(S)
    BY <1>2, <2>1 DEF D!Break, Kinds
  <2> QED BY <2>2, <2>3 DEF D!Next
<1> QED BY <1>1, <1>2

(* Steps of one directory.                                                 *)
LEMMA Becomes ==
    ASSUME NEW m \in Missions, \A n \in Missions \ {m} : Kind(n)' = Kind(n)
    PROVE  Kinds' = [Kinds EXCEPT ![m] = Kind(m)']
  BY DEF Kinds

(* Files that are flushed are of the same kind.                            *)
LEMMA FlushedAlike ==
    ASSUME IInv, open, disk' = Flushed
    PROVE  \A m \in Missions : Alike(m)
<1>1. dir \in Missions /\ disk \in [Missions -> Directory]
  BY DEF IInv, UnderWay
<1> QED BY <1>1 DEF Flushed, Alike, Directory

---------------------------------------------------------------------------
(* start *)
LEMMA MakeDirectoryMaps ==
    ASSUME IInv, NEW m \in Missions, MakeDirectory(m) PROVE [D!Next]_Kinds
<1> DEFINE closed == IF open THEN Flushed ELSE disk
           new == [NoDir EXCEPT !.made = TRUE]
<1>1. /\ ~Going /\ Going' /\ dir' = m /\ ~disk[m].made
      /\ disk' = [closed EXCEPT ![m] = new]
  BY DEF MakeDirectory, Going, Recording, Ending, Stopping
<1>2. closed \in [Missions -> Directory]
      /\ \A n \in Missions : closed[n].made = disk[n].made /\ closed[n].manifest = disk[n].manifest
  <2>1. CASE open
    <3>1. dir \in Missions /\ disk \in [Missions -> Directory]
          /\ [disk[dir] EXCEPT !.data = @ + buffered] \in Directory
          /\ closed = [disk EXCEPT ![dir] = [disk[dir] EXCEPT !.data = @ + buffered]]
      BY <2>1, FlushedFile DEF IInv, UnderWay
    <3> HIDE DEF closed
    <3> QED BY <3>1 DEF Directory
  <2>2. CASE ~open
    BY <2>2 DEF IInv
  <2> QED BY <2>1, <2>2
<1> HIDE DEF closed
<1>3. new.made /\ new.manifest = "none"
  BY Made
<1> HIDE DEF new
<1>4. disk'[m] = new /\ \A n \in Missions \ {m} : disk'[n] = closed[n]
  BY <1>1, <1>2
<1>5. Kind(m) = "none" /\ Kind(m)' = "recording"
  BY <1>1, <1>3, <1>4 DEF Kind, Going
<1>6. ASSUME NEW n \in Missions \ {m} PROVE Kind(n)' = Kind(n)
  <2>1. Alike(n)
    BY <1>2, <1>4 DEF Alike
  <2> QED BY <1>1, <2>1, SameKind
<1>7. \A n \in Missions : Kind(n) # "recording"
  BY <1>1 DEF Kind, Going
<1>8. D!Begin(m)
  <2>1. Kinds' = [Kinds EXCEPT ![m] = "recording"]
    BY <1>5, <1>6, Becomes
  <2> QED BY <1>5, <1>7, <2>1 DEF D!Begin, Kinds
<1> QED BY <1>8 DEF D!Next

(* start that fails *)
LEMMA StartFailsMaps ==
    ASSUME IInv, NEW m \in Missions, StartFails(m) PROVE [D!Next]_Kinds
<1> DEFINE new == [NoDir EXCEPT !.made = TRUE]
<1>1. ~Going /\ ~Going'
  BY DEF StartFails, Going, Recording, Fail, Ending, Stopping
<1>2. ASSUME NEW n \in Missions PROVE Kind(n)' \in {Kind(n), "broken"}
  <2>1. CASE disk' = disk
    BY <1>1, <2>1 DEF Kind, Going
  <2>2. CASE disk' = [disk EXCEPT ![m] = new]
    <3>1. new.made /\ new.manifest = "none" /\ disk \in [Missions -> Directory]
      BY Made DEF IInv
    <3> HIDE DEF new
    <3>2. disk'[m] = new /\ (n # m => disk'[n] = disk[n])
      BY <2>2, <3>1
    <3> QED BY <1>1, <3>1, <3>2 DEF Kind, Going
  <2> QED BY <2>1, <2>2 DEF StartFails
<1> QED BY <1>2, Breaks

(* What a unit is taken by is of the same kind.                            *)
LEMMA TakenAlike ==
    ASSUME NEW f \in [Missions -> Directory], NEW b, dir \in Missions, Take(f, b),
           \A m \in Missions : f[m].made = disk[m].made /\ f[m].manifest = disk[m].manifest
    PROVE  \A m \in Missions : Alike(m)
  BY DEF Take, Alike, Directory

(* The manifest of the start is not the one that says complete.            *)
LEMMA FinishStartMaps == ASSUME IInv, FinishStart PROVE [D!Next]_Kinds
<1>1. /\ Going /\ dir' = dir /\ dir \in Missions /\ Unfinished(disk[dir])
      /\ disk \in [Missions -> Directory]
      /\ (Going' <=> state' = "RECORDING")
  BY DEF FinishStart, Going, Recording, Ending, Stopping, IInv, UnderWay
<1> DEFINE man == Manifest("open", 0)
<1>2. /\ man \in [Missions -> Directory] /\ man[dir].made /\ man[dir].manifest = "open"
      /\ \A n \in Missions \ {dir} : man[n] = disk[n]
  <2> DEFINE d == [disk[dir] EXCEPT !.manifest = "open", !.claims = 0]
  <2>1. /\ d \in Directory /\ d.made = disk[dir].made /\ d.manifest = "open"
        /\ man = [disk EXCEPT ![dir] = d]
    BY <1>1, Numbers DEF Manifest, Directory
  <2> HIDE DEF d, man
  <2> QED BY <1>1, <2>1 DEF Unfinished
<1>3. \/ Take(man, buffered) \/ Take(disk, buffered) \/ disk' = man
  BY DEF FinishStart
<1> HIDE DEF man
<1>4. \A n \in Missions \ {dir} : Alike(n)
  BY <1>1, <1>2, <1>3 DEF Take, Alike, Directory
<1>5. disk'[dir].made /\ disk'[dir].manifest # "complete"
  <2>1. CASE Take(man, buffered)
    BY <1>1, <1>2, <2>1 DEF Take, Directory
  <2>2. CASE Take(disk, buffered)
    BY <1>1, <2>2 DEF Take, Directory, Unfinished
  <2>3. CASE disk' = man
    BY <1>2, <2>3
  <2> QED BY <1>3, <2>1, <2>2, <2>3
<1>6. ASSUME NEW n \in Missions PROVE Kind(n)' \in {Kind(n), "broken"}
  <2>1. CASE n = dir
    BY <1>1, <1>5, <2>1 DEF Kind, Going, Unfinished
  <2>2. CASE n # dir
    BY <1>1, <1>4, <2>2 DEF Kind, Going, Alike
  <2> QED BY <2>1, <2>2
<1> QED BY <1>6, Breaks

---------------------------------------------------------------------------
(* write *)
LEMMA WriteUnitMaps == ASSUME IInv, WriteUnit PROVE [D!Next]_Kinds
<1>1. Going /\ Going' /\ dir' = dir /\ dir \in Missions /\ disk \in [Missions -> Directory]
  BY DEF WriteUnit, Going, Recording, IInv, UnderWay, Ending, Stopping
<1>2. ASSUME NEW n \in Missions PROVE Alike(n)
  BY <1>1, TakenAlike DEF WriteUnit
<1> QED BY <1>1, <1>2, SameKind, Breaks

(* A write that fails breaks the mission.                                  *)
LEMMA WriteFailsMaps == ASSUME IInv, WriteFails PROVE [D!Next]_Kinds
<1>1. ~Going' /\ dir' = dir /\ disk' = disk
  BY DEF WriteFails, Going, Recording, Fail, Ending, Stopping
<1> QED BY <1>1, Breaks DEF Kind, Going

(* The timer: the mission goes on, is stopped or breaks.                   *)
LEMMA TickMaps == ASSUME IInv, Tick PROVE [D!Next]_Kinds
<1>1. Going /\ open /\ dir' = dir /\ dir \in Missions /\ disk \in [Missions -> Directory]
  BY DEF Tick, Going, Recording, IInv, UnderWay
<1>2. PICK left \in Unflushed : disk' = AfterFlush(left) \/ Take(AfterFlush(left), left)
  BY DEF Tick
<1>3. /\ AfterFlush(left) \in [Missions -> Directory]
      /\ \A n \in Missions : /\ AfterFlush(left)[n].made = disk[n].made
                             /\ AfterFlush(left)[n].manifest = disk[n].manifest
  <2>1. PICK d \in Directory :
          AfterFlush(left) = [disk EXCEPT ![dir] = d] /\ Unfinished(d)
    BY <1>1, TickFlushes
  <2>2. CASE left = 0
    BY <1>1, <2>1, <2>2, FlushedFile DEF AfterFlush, Flushed, Directory
  <2>3. CASE left # 0
    BY <1>1, <2>3 DEF AfterFlush
  <2> QED BY <2>2, <2>3
<1>4. ASSUME NEW n \in Missions PROVE Alike(n)
  <2>1. CASE disk' = AfterFlush(left)
    BY <1>3, <2>1 DEF Alike
  <2>2. CASE Take(AfterFlush(left), left)
    BY <1>1, <1>3, <2>2, TakenAlike
  <2> QED BY <1>2, <2>1, <2>2
<1> QED BY <1>1, <1>4, Breaks DEF Kind, Going, Alike

(* stop is still recording until its manifest is written.                  *)
LEMMA StopMaps == ASSUME IInv, Stop PROVE [D!Next]_Kinds
<1>1. Going /\ Going' /\ dir' = dir /\ disk' = disk
  BY DEF Stop, Going, Recording, Ending, Stopping
<1> QED BY <1>1, Breaks DEF Kind, Going

(* Its record, written or lost, leaves the mission where it was.           *)
LEMMA WriteStoppedMaps == ASSUME IInv, WriteStopped PROVE [D!Next]_Kinds
<1>1. Going /\ Going' /\ dir' = dir /\ dir \in Missions /\ disk \in [Missions -> Directory]
  BY DEF WriteStopped, Going, Ending, Stopping, IInv, UnderWay
<1>2. ASSUME NEW n \in Missions PROVE Alike(n)
  <2>1. CASE Take(disk, buffered)
    BY <1>1, <2>1, TakenAlike
  <2>2. CASE disk' = [disk EXCEPT ![dir].lost = 1 + buffered - buffered']
    BY <1>1, <2>2 DEF Alike, Directory
  <2> QED BY <2>1, <2>2 DEF WriteStopped
<1> QED BY <1>1, <1>2, SameKind, Breaks

LEMMA CloseFilesMaps == ASSUME IInv, CloseFiles PROVE [D!Next]_Kinds
<1>1. Going /\ Going' /\ dir' = dir /\ dir \in Missions /\ disk \in [Missions -> Directory]
  BY DEF CloseFiles, Going, Stopping, IInv, UnderWay, Ending, Recording
<1>2. ASSUME NEW n \in Missions PROVE Alike(n)
  BY <1>1 DEF CloseFiles, Closed, Flushed, Alike, Directory
<1> QED BY <1>1, <1>2, SameKind, Breaks

(* The manifest that says complete, or the failure to write it.            *)
LEMMA CompleteManifestMaps == ASSUME IInv, CompleteManifest PROVE [D!Next]_Kinds
<1>1. /\ Going /\ dir' = dir /\ dir \in Missions /\ disk \in [Missions -> Directory]
      /\ disk[dir].made /\ disk[dir].manifest # "complete"
  BY DEF CompleteManifest, CanComplete, Going, Stopping, IInv, UnderWay, Ending, Recording
<1>2. CASE disk' = disk
  BY <1>1, <1>2, Breaks DEF Kind, Going
<1>3. CASE disk' = [disk EXCEPT ![dir].manifest = "complete", ![dir].claims = counted']
  <2>1. /\ disk'[dir].made /\ disk'[dir].manifest = "complete"
        /\ \A n \in Missions \ {dir} : disk'[n] = disk[n]
    BY <1>1, <1>3 DEF Directory
  <2>2. Kind(dir) = "recording" /\ Kind(dir)' = "whole"
    BY <1>1, <2>1 DEF Kind, Going
  <2>3. ASSUME NEW n \in Missions \ {dir} PROVE Kind(n)' = Kind(n)
    BY <1>1, <2>1 DEF Kind
  <2>4. Kinds' = [Kinds EXCEPT ![dir] = Kind(dir)']
    BY <1>1, <2>3, Becomes
  <2>5. D!Finish(dir)
    BY <1>1, <2>2, <2>4 DEF D!Finish, Kinds
  <2> QED BY <1>1, <2>5 DEF D!Next
<1> QED BY <1>2, <1>3 DEF CompleteManifest, Manifest

(* The list of checksums changes no manifest.                              *)
LEMMA ChecksumsMaps == ASSUME IInv, Checksums PROVE [D!Next]_Kinds
<1>1. /\ ~Going' /\ dir \in Missions /\ disk \in [Missions -> Directory]
      /\ Going => disk[dir].manifest = "complete"
  <2>1. doing' = "nothing" /\ state' \in {"ERROR", "IDLE"}
    BY DEF Checksums
  <2>2. Recording => doing = "nothing"
    BY DEF IInv, UnderWay
  <2> QED BY <2>1, <2>2 DEF Checksums, Going, Recording, Stopping, IInv, UnderWay, Ending
<1>2. ASSUME NEW n \in Missions PROVE Alike(n)
  <2>1. CASE disk' = disk
    BY <2>1 DEF Alike
  <2>2. CASE disk' = [disk EXCEPT ![dir].sums = "whole", ![dir].hashed = disk[dir].data]
    BY <1>1, <2>2 DEF Alike, Directory
  <2> QED BY <2>1, <2>2 DEF Checksums
<1> QED BY <1>1, <1>2, Breaks DEF Kind, Going, Alike

---------------------------------------------------------------------------
(* A copy is not a directory of the recorder.                              *)
LEMMA ExportMissionMaps ==
    ASSUME IInv, NEW m \in Missions, ExportMission(m) PROVE [D!Next]_Kinds
<1>1. disk' = disk /\ dir' = dir /\ Going' = Going
  BY DEF ExportMission, Going, Recording, Ending, Stopping
<1> QED BY <1>1, Breaks DEF Kind, Going

(* Only what is whole or broken is deleted.                                *)
LEMMA DeleteMissionMaps ==
    ASSUME IInv, NEW m \in Missions, DeleteMission(m) PROVE [D!Next]_Kinds
<1>1. /\ disk[m].made /\ ~(dir = m /\ Going) /\ dir' = dir /\ Going' = Going
      /\ disk' = [disk EXCEPT ![m] = NoDir] /\ disk \in [Missions -> Directory]
  BY DEF DeleteMission, Going, Recording, IInv, Ending, Stopping
<1>2. ~NoDir.made
  BY DEF NoDir
<1>3. Kind(m) \in {"whole", "broken"} /\ Kind(m)' = "none"
  BY <1>1, <1>2 DEF Kind, Going
<1>4. ASSUME NEW n \in Missions \ {m} PROVE Kind(n)' = Kind(n)
  BY <1>1 DEF Kind, Going
<1>5. Kinds' = [Kinds EXCEPT ![m] = "none"]
  BY <1>3, <1>4, Becomes
<1>6. D!Delete(m)
  BY <1>3, <1>5 DEF D!Delete, Kinds
<1> QED BY <1>6 DEF D!Next

---------------------------------------------------------------------------
(* The kernel, the process and the power.                                  *)
LEMMA WriteBackMaps == ASSUME IInv, WriteBack PROVE [D!Next]_Kinds
<1>1. dir' = dir /\ Going' = Going /\ disk \in [Missions -> Directory]
  BY DEF WriteBack, Going, Recording, IInv, Ending, Stopping
<1>2. ASSUME NEW n \in Missions PROVE Alike(n)
  <2>1. disk[n] \in Directory
        /\ disk'[n] = [disk[n] EXCEPT !.durable = disk[n].data, !.kept = disk[n].manifest]
    BY <1>1 DEF WriteBack
  <2> QED BY <2>1 DEF Alike, Directory
<1> QED BY <1>1, <1>2, SameKind, Breaks

(* Whoever loses the process follows no directory any more.                *)
LEMMA ForgottenMaps ==
    ASSUME IInv, Forget, \A n \in Missions : Alike(n)
    PROVE  [D!Next]_Kinds
<1>1. ~Going'
  BY DEF Forget, Going, Recording, Ending, Stopping
<1> QED BY <1>1, Breaks DEF Kind, Going, Alike

LEMMA ShutdownMaps == ASSUME IInv, Shutdown PROVE [D!Next]_Kinds
<1>1. \A n \in Missions : Alike(n)
  BY FlushedAlike DEF Shutdown, Alike
<1> QED BY <1>1, ForgottenMaps DEF Shutdown

(* A manifest never becomes complete by the power going.                   *)
LEMMA PowerCutMaps == ASSUME IInv, PowerCut PROVE [D!Next]_Kinds
<1>1. ~Going'
  BY DEF PowerCut, Forget, Going, Recording, Ending, Stopping
<1>2. ASSUME NEW n \in Missions
      PROVE  /\ disk'[n].made = disk[n].made
             /\ disk'[n].manifest = "complete" => disk[n].manifest = "complete"
  BY CutDirectory
<1> QED BY <1>1, <1>2, Breaks DEF Kind, Going

---------------------------------------------------------------------------
(* Every step is a step of MissionDirectories, or changes no directory.    *)
LEMMA StepMaps == ASSUME IInv, [Next]_vars PROVE [D!Next]_Kinds
<1>1. ASSUME NEW m \in Missions,
             MakeDirectory(m) \/ StartFails(m) \/ ExportMission(m) \/ DeleteMission(m)
      PROVE  [D!Next]_Kinds
  BY <1>1, MakeDirectoryMaps, StartFailsMaps, ExportMissionMaps, DeleteMissionMaps
<1>2. CASE FinishStart \/ WriteUnit \/ WriteFails \/ Tick \/ Stop
  BY <1>2, FinishStartMaps, WriteUnitMaps, WriteFailsMaps, TickMaps, StopMaps
<1>3. CASE WriteStopped \/ CloseFiles \/ CompleteManifest \/ Checksums
  BY <1>3, WriteStoppedMaps, CloseFilesMaps, CompleteManifestMaps, ChecksumsMaps
<1>4. CASE WriteBack \/ Shutdown \/ PowerCut
  BY <1>4, WriteBackMaps, ShutdownMaps, PowerCutMaps
<1>5. CASE Killed
  BY <1>5, ForgottenMaps DEF Killed, Alike
<1>6. CASE UNCHANGED vars
  BY <1>6 DEF vars, Kinds, Kind, Recording, Ending, Stopping
<1> QED BY <1>1, <1>2, <1>3, <1>4, <1>5, <1>6 DEF Next

(* The recorder implements MissionDirectories: for any missions, sizes and  *)
(* faults, one directory is recorded at a time, one is called whole only    *)
(* after it was recorded to its end, and never once it was broken off.     *)
THEOREM DirectoriesKept == Spec => KeepsDirectories
<1>1. Init => D!Init
  BY DEF Init, D!Init, Kind, NoDir
<1>2. IInv /\ [Next]_vars => [D!Next]_Kinds
  BY StepMaps
<1> QED BY <1>1, <1>2, Invariant, PTL DEF Spec, KeepsDirectories, D!Spec, Kinds
=============================================================================
