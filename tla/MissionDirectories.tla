------------------------- MODULE MissionDirectories -------------------------
(***************************************************************************)
(* What the recorder promises of the directories it leaves behind, without *)
(* files, buffers or errors: one mission is recorded at a time, what is    *)
(* whole was recorded to its end, and what was broken off is never called  *)
(* whole afterwards.                                                       *)
(***************************************************************************)
CONSTANT Missions

VARIABLE is     \* what each directory is: "none", "recording", "whole", "broken"

Init == is = [m \in Missions |-> "none"]

Begin(m) ==
    /\ is[m] = "none" /\ \A n \in Missions : is[n] # "recording"
    /\ is' = [is EXCEPT ![m] = "recording"]

Finish(m) == is[m] = "recording" /\ is' = [is EXCEPT ![m] = "whole"]

\* A write fails, the power goes, or the directory is made and cannot be used; a
\* manifest that was not on the disk yet is lost with the power, of several missions
\* at once.
Break(S) ==
    /\ S # {} /\ is' = [m \in Missions |-> IF m \in S THEN "broken" ELSE is[m]]

Delete(m) ==
    is[m] \in {"whole", "broken"} /\ is' = [is EXCEPT ![m] = "none"]

Next ==
    \/ \E m \in Missions : Begin(m) \/ Finish(m) \/ Delete(m)
    \/ \E S \in SUBSET Missions : Break(S)

Spec == Init /\ [][Next]_is
=============================================================================
