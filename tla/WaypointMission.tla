--------------------------- MODULE WaypointMission ---------------------------
(***************************************************************************)
(* What the mission manager promises of one mission after another, with no *)
(* word of Nav2, futures or bypasses: a mission is begun with a number of  *)
(* waypoints, its waypoints are reached one at a time while it runs, it    *)
(* succeeds only when the last one is reached, and it can be stopped at    *)
(* any moment (aborted, or failed), after which it makes no progress.      *)
(* A mission begun while answers to the one before are outstanding is      *)
(* "unpromised": nothing is said of it, and the next orderly one is again  *)
(* what this module says.                                                  *)
(***************************************************************************)
EXTENDS Naturals

VARIABLES phase, total, done

vars == <<phase, total, done>>

Init == phase = "idle" /\ total = 0 /\ done = 0

Begin ==
    /\ phase # "running"
    /\ phase' = "running"
    /\ total' \in Nat \ {0}
    /\ done' = 0

BeginUnpromised ==
    /\ phase # "running"
    /\ phase' = "unpromised"
    /\ total' = 0
    /\ done' = 0

ReachWaypoint ==
    /\ phase = "running"
    /\ done < total
    /\ done' = done + 1
    /\ UNCHANGED <<phase, total>>

Succeed ==
    /\ phase = "running"
    /\ done = total
    /\ phase' = "succeeded"
    /\ UNCHANGED <<total, done>>

Stop ==
    /\ phase = "running"
    /\ phase' = "stopped"
    /\ UNCHANGED <<total, done>>

Next == Begin \/ BeginUnpromised \/ ReachWaypoint \/ Succeed \/ Stop

Spec == Init /\ [][Next]_vars
=============================================================================
