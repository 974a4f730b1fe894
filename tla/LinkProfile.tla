---------------------------- MODULE LinkProfile ----------------------------
(***************************************************************************)
(* ProfileSelector (link_profile.py): which of the link profiles full,     *)
(* reduced and minimal the shore link gets, from what is measured of it,   *)
(* with hysteresis and a manual override.                                  *)
(*                                                                         *)
(* A profile is its place in PROFILE_ORDER, 0 for full: less is better.    *)
(* A measurement is the profile it calls for (_target).  Time is counted   *)
(* in units; d of them pass from one pass of the hub to the next, and 0    *)
(* stands for two passes within one unit.  Time held is capped at          *)
(* UpgradeHold, beyond which the code no longer tells times apart.         *)
(*                                                                         *)
(* side and streak are not in the code.  They record what the link did:    *)
(* how the latest measurement compares with the profile, and for how long  *)
(* every measurement has compared that way.                                *)
(***************************************************************************)
EXTENDS Naturals

CONSTANTS
    DowngradeHold,  \* downgrade_hold_s
    UpgradeHold,    \* upgrade_hold_s
    None            \* no candidate

ASSUME HoldAssumption ==
    /\ DowngradeHold \in Nat \ {0} /\ UpgradeHold \in Nat
    /\ DowngradeHold <= UpgradeHold

VARIABLES
    profile,
    manual,
    candidate,      \* _candidate
    held,           \* now_s - _candidate_since, 0 without a candidate
    side,
    streak

selector == <<profile, manual, candidate, held, side, streak>>

Profiles == 0..2
ASSUME NoneAssumption == None \notin Profiles

Sides == {"same", "better", "worse"}
Passed(time, d) == IF time + d < UpgradeHold THEN time + d ELSE UpgradeHold

-----------------------------------------------------------------------------
\* force: the operator pins a profile.  set_profile answers an unknown one with
\* an exception, which changes nothing.
ForceProfile(p) ==
    /\ profile' = p
    /\ manual' = TRUE
    /\ candidate' = None /\ held' = 0
    /\ side' = "same" /\ streak' = 0

Release ==
    /\ manual' = FALSE
    /\ candidate' = None /\ held' = 0
    /\ side' = "same" /\ streak' = 0
    /\ UNCHANGED profile

-----------------------------------------------------------------------------
SideOf(p) ==
    IF p < profile THEN "better" ELSE IF p > profile THEN "worse" ELSE "same"

\* What the link did, as long as the profile stays.
Record(target, d) ==
    /\ side' = SideOf(target)
    /\ streak' = IF side = SideOf(target) /\ side # "same" THEN Passed(streak, d) ELSE 0

Hold(p) == IF p > profile THEN DowngradeHold ELSE UpgradeHold

\* Mutant: a candidate on the other side of the profile lends its clock.
WanderingEitherWay(target) == candidate # None /\ candidate # target

\* improving: between two profiles that are both better than the present one,
\* the clock runs on, for the more cautious of the two.
Wandering(target) ==
    /\ candidate # None /\ candidate # target
    /\ candidate < profile /\ target < profile

Aim(target) ==
    IF Wandering(target) /\ candidate > target THEN candidate ELSE target

\* update, one action for each of its ways out.
Settle(target, d) ==
    /\ target = profile
    /\ candidate' = None /\ held' = 0
    /\ Record(target, d)
    /\ UNCHANGED <<profile, manual>>

\* Mutant: the same candidate again restarts the clock.
ConsiderAgain(target, d) ==
    /\ target # profile
    /\ ~Wandering(target)
    /\ candidate' = target /\ held' = 0
    /\ Record(target, d)
    /\ UNCHANGED <<profile, manual>>

Consider(target, d) ==
    /\ target # profile
    /\ candidate # target /\ ~Wandering(target)
    /\ candidate' = target /\ held' = 0
    /\ Record(target, d)
    /\ UNCHANGED <<profile, manual>>

Pursued(target) ==
    /\ target # profile
    /\ candidate = target \/ Wandering(target)

HoldOn(target, d) ==
    /\ Pursued(target)
    /\ Passed(held, d) < Hold(Aim(target))
    /\ candidate' = Aim(target) /\ held' = Passed(held, d)
    /\ Record(target, d)
    /\ UNCHANGED <<profile, manual>>

Switch(target, d) ==
    /\ Pursued(target)
    /\ Passed(held, d) >= Hold(Aim(target))
    /\ profile' = Aim(target)
    /\ candidate' = None /\ held' = 0
    /\ side' = "same" /\ streak' = 0
    /\ UNCHANGED manual

Update(target, d) ==
    /\ ~manual
    /\ \/ Settle(target, d)
       \/ Consider(target, d)
       \/ HoldOn(target, d)
       \/ Switch(target, d)

\* No measurement reaches the selector, or it is pinned; the clock runs.
Wait(d) ==
    /\ held' = IF candidate = None THEN 0 ELSE Passed(held, d)
    /\ streak' = IF side = "same" THEN 0 ELSE Passed(streak, d)
    /\ UNCHANGED <<profile, manual, candidate, side>>

-----------------------------------------------------------------------------
SelectorInit ==
    /\ profile = 0
    /\ manual = FALSE
    /\ candidate = None /\ held = 0
    /\ side = "same" /\ streak = 0

SelectorNext ==
    \/ \E p \in Profiles : ForceProfile(p)
    \/ Release
    \/ \E p \in Profiles, d \in 0..1 : Update(p, d)
    \/ \E d \in 0..1 : Wait(d)

SelectorSpec == SelectorInit /\ [][SelectorNext]_selector

-----------------------------------------------------------------------------
SelectorTypeOK ==
    /\ profile \in Profiles
    /\ manual \in BOOLEAN
    /\ candidate \in Profiles \cup {None}
    /\ held \in 0..UpgradeHold
    /\ side \in Sides
    /\ streak \in 0..UpgradeHold

\* "A link that has just come back has not yet proved anything": the profile
\* improves by itself only after every measurement of a full UpgradeHold was
\* better than it, and worsens only after DowngradeHold of worse ones.  The
\* last unit is the one the step itself lets pass.
ChangeIsEarned ==
    [][~manual /\ ~manual' =>
        /\ profile' < profile => side = "better" /\ streak + 1 >= UpgradeHold
        /\ profile' > profile => side = "worse" /\ streak + 1 >= DowngradeHold
      ]_selector

\* A link that wanders between profiles better than the present one does not
\* restart the clock, "never recovering at all".
RecoveryClockRuns ==
    side = "better" => candidate # None /\ candidate < profile /\ held = streak

=============================================================================
