------------------------- MODULE Broadcaster_proofs -------------------------
(***************************************************************************)
(* What holds of the profile selector for any times to hold, of the hub    *)
(* for any clients, streams and tables of rates, and of the delivery to a  *)
(* browser for any queue, track, levels of detail and readings.            *)
(*                                                                         *)
(* The selector's clock and what the link did are tied together by Honest: *)
(* a candidate is on the side the link has been on for at least as long as *)
(* the clock has run, and a better link is always a candidate, since just  *)
(* as long.  Every step of the hub is a step of the selector or leaves it  *)
(* alone, so that what is proved of the selector holds in the hub.         *)
(*                                                                         *)
(* The delivery shares no variable with the hub.  Its track is held        *)
(* together by Chain: from what the browser holds over the wire and the    *)
(* outbox to the cursor, every increment starts beyond whatever is ahead   *)
(* of it, or anew.  Dropping any of them leaves the rest in that order.    *)
(* A list without a hole has a number of at least k at its k-th place, so  *)
(* that one that does not reach beyond f and has an f-th place has f       *)
(* there: the increment from f is spliced where it belongs.                *)
(***************************************************************************)
EXTENDS Hub, Delivery, TLAPS

Honest ==
    /\ SelectorTypeOK
    /\ candidate # None => side = SideOf(candidate) /\ side # "same" /\ held <= streak
    /\ RecoveryClockRuns

\* The assumptions, for citing.
LEMMA Constants ==
    /\ DowngradeHold \in Nat /\ UpgradeHold \in Nat /\ DowngradeHold <= UpgradeHold
    /\ UpgradeHold > 0
    /\ None \notin 0..2
BY HoldAssumption, NoneAssumption DEF HoldAssumption, NoneAssumption, Profiles

\* A time that passes stays within its cap and never runs backwards.
LEMMA PassedRange ==
    ASSUME NEW t \in 0..UpgradeHold, NEW d \in 0..1
    PROVE  /\ Passed(t, d) \in 0..UpgradeHold
           /\ Passed(t, d) >= t
           /\ \A u \in 0..UpgradeHold : t <= u => Passed(t, d) <= Passed(u, d)
BY Constants DEF Passed

\* A measurement is written down as one of the sides.
LEMMA RecordRange ==
    ASSUME SelectorTypeOK, NEW p \in Profiles, NEW d \in 0..1, Record(p, d)
    PROVE  side' \in Sides /\ streak' \in 0..UpgradeHold
BY PassedRange, Constants DEF Record, SelectorTypeOK, SideOf, Sides, Profiles

\* What is aimed at is on the side of the measurement.
LEMMA AimSide ==
    ASSUME SelectorTypeOK, NEW p \in Profiles, Pursued(p)
    PROVE  /\ Aim(p) \in Profiles
           /\ SideOf(Aim(p)) = SideOf(p) /\ SideOf(p) # "same"
           /\ candidate # None /\ SideOf(candidate) = SideOf(p)
BY Constants
   DEF SelectorTypeOK, Pursued, Aim, Wandering, SideOf, Profiles

\* The initial state is honest.
LEMMA HonestInit == SelectorInit => Honest
<1> SUFFICES ASSUME SelectorInit PROVE Honest
  OBVIOUS
<1>1. manual \in BOOLEAN
  BY Zenon DEF SelectorInit
<1> QED BY <1>1, Constants
        DEF SelectorInit, Honest, SelectorTypeOK, RecoveryClockRuns, Profiles, Sides

\* Every step of the selector keeps the clock honest.
LEMMA HonestNext == Honest /\ [SelectorNext]_selector => Honest'
<1> SUFFICES ASSUME Honest, [SelectorNext]_selector PROVE Honest'
  OBVIOUS
<1>0. SelectorTypeOK /\ UpgradeHold \in Nat /\ None \notin Profiles
  BY Constants DEF Honest, Profiles
<1>1. ASSUME NEW p \in Profiles, ForceProfile(p) PROVE Honest'
  <2>1. manual' \in BOOLEAN
    BY <1>1, Zenon DEF ForceProfile
  <2> QED BY <1>0, <1>1, <2>1
          DEF Honest, ForceProfile, SelectorTypeOK, RecoveryClockRuns, Sides
<1>2. CASE Release
  <2>1. manual' \in BOOLEAN
    BY <1>2, Zenon DEF Release
  <2> QED BY <1>0, <1>2, <2>1
          DEF Honest, Release, SelectorTypeOK, RecoveryClockRuns, Sides
<1>3. ASSUME NEW p \in Profiles, NEW d \in 0..1, Settle(p, d) PROVE Honest'
  <2>1. SelectorTypeOK'
    BY <1>0, <1>3, RecordRange DEF Settle, SelectorTypeOK
  <2>2. side' = "same" /\ candidate' = None
    BY <1>0, <1>3 DEF Settle, Record, SideOf, SelectorTypeOK, Profiles
  <2> QED BY <2>1, <2>2 DEF Honest, RecoveryClockRuns
<1>4. ASSUME NEW p \in Profiles, NEW d \in 0..1, Consider(p, d) PROVE Honest'
  <2>1. SelectorTypeOK'
    BY <1>0, <1>4, RecordRange DEF Consider, SelectorTypeOK
  <2>2. /\ candidate' = p /\ profile' = profile /\ held' = 0
        /\ side' = SideOf(p) /\ side' # "same" /\ p # None
    BY <1>0, <1>4 DEF Consider, Record, SideOf, SelectorTypeOK, Profiles
  <2>3. side' = (SideOf(candidate))'
    BY <2>2 DEF SideOf
  <2>4. held' <= streak'
    BY <2>1, <2>2 DEF SelectorTypeOK
  <2>5. side' = "better" => p < profile /\ streak' = 0
    <3>1. SUFFICES ASSUME SideOf(p) = "better" PROVE p < profile /\ streak' = 0
      BY <2>2
    <3>2. p < profile
      BY <3>1, <1>0 DEF SideOf, SelectorTypeOK, Profiles
    <3>3. side # "better"
      BY <1>0, <1>4, <3>2 DEF Consider, Wandering, Honest, RecoveryClockRuns
    <3> QED BY <1>4, <3>1, <3>2, <3>3 DEF Consider, Record
  <2> QED BY <2>1, <2>2, <2>3, <2>4, <2>5 DEF Honest, RecoveryClockRuns
<1>5. ASSUME NEW p \in Profiles, NEW d \in 0..1, HoldOn(p, d) PROVE Honest'
  <2>1. /\ Aim(p) \in Profiles
        /\ SideOf(Aim(p)) = SideOf(p) /\ SideOf(p) # "same"
        /\ candidate # None /\ SideOf(candidate) = SideOf(p)
    BY <1>0, <1>5, AimSide DEF HoldOn
  <2>2. SelectorTypeOK'
    BY <1>0, <1>5, <2>1, RecordRange, PassedRange DEF HoldOn, SelectorTypeOK
  <2>3. side = SideOf(p) /\ held <= streak
    BY <2>1 DEF Honest
  <2>4. /\ side' = SideOf(p) /\ streak' = Passed(streak, d)
        /\ candidate' = Aim(p) /\ held' = Passed(held, d) /\ profile' = profile
    BY <1>5, <2>1, <2>3 DEF HoldOn, Record
  <2>5. held' <= streak'
    BY <1>0, <2>3, <2>4, PassedRange DEF SelectorTypeOK
  <2>6. side' = (SideOf(candidate))' /\ candidate' # None /\ side' # "same"
    BY <1>0, <2>1, <2>4 DEF SideOf
  <2>7. side' = "better" => candidate' < profile' /\ held' = streak'
    BY <1>0, <2>1, <2>3, <2>4 DEF Honest, RecoveryClockRuns, SideOf, SelectorTypeOK, Profiles
  <2> QED BY <2>2, <2>5, <2>6, <2>7 DEF Honest, RecoveryClockRuns
<1>6. ASSUME NEW p \in Profiles, NEW d \in 0..1, Switch(p, d) PROVE Honest'
  <2>1. Aim(p) \in Profiles
    BY <1>0, <1>6, AimSide DEF Switch
  <2> QED
    BY <1>0, <1>6, <2>1 DEF Honest, Switch, SelectorTypeOK, RecoveryClockRuns, Sides
<1>7. ASSUME NEW d \in 0..1, Wait(d) PROVE Honest'
  <2>1. SelectorTypeOK'
    BY <1>0, <1>7, PassedRange DEF Wait, SelectorTypeOK
  <2>2. candidate # None =>
            /\ side' = (SideOf(candidate))' /\ side' # "same" /\ held' <= streak'
    BY <1>0, <1>7, PassedRange DEF Wait, Honest, SideOf, SelectorTypeOK
  <2>3. side' = "better" => candidate' # None /\ candidate' < profile' /\ held' = streak'
    BY <1>0, <1>7 DEF Wait, Honest, RecoveryClockRuns
  <2> QED BY <1>7, <2>1, <2>2, <2>3 DEF Honest, RecoveryClockRuns, Wait
<1>8. CASE UNCHANGED selector
  BY <1>8 DEF selector, Honest, SelectorTypeOK, RecoveryClockRuns, SideOf
<1> QED BY <1>1, <1>2, <1>3, <1>4, <1>5, <1>6, <1>7, <1>8, Zenon DEF SelectorNext, Update

\* A profile changes by itself only at the end of a hold.
LEMMA EarnedStep ==
    ASSUME Honest, [SelectorNext]_selector, ~manual, ~manual'
    PROVE  /\ profile' < profile => side = "better" /\ streak + 1 >= UpgradeHold
           /\ profile' > profile => side = "worse" /\ streak + 1 >= DowngradeHold
<1>0. SelectorTypeOK /\ UpgradeHold \in Nat /\ DowngradeHold \in Nat
  BY Constants DEF Honest
<1>1. ASSUME NEW p \in Profiles, NEW d \in 0..1, Switch(p, d)
      PROVE  /\ profile' < profile => side = "better" /\ streak + 1 >= UpgradeHold
             /\ profile' > profile => side = "worse" /\ streak + 1 >= DowngradeHold
  <2>1. /\ Aim(p) \in Profiles
        /\ SideOf(Aim(p)) = SideOf(p)
        /\ candidate # None /\ SideOf(candidate) = SideOf(p)
    BY <1>0, <1>1, AimSide DEF Switch
  <2>2. side = SideOf(Aim(p)) /\ held <= streak
    BY <2>1 DEF Honest
  <2>3. profile' = Aim(p) /\ Passed(held, d) >= Hold(Aim(p))
    BY <1>1 DEF Switch
  <2>4. Passed(held, d) <= streak + 1
    BY <1>0, <2>2 DEF Passed, SelectorTypeOK
  <2>5. held \in Nat /\ streak \in Nat /\ profile \in Nat /\ Aim(p) \in Nat
        /\ Passed(held, d) \in Nat
    BY <1>0, <2>1 DEF SelectorTypeOK, Profiles, Passed
  <2>6. ASSUME profile' < profile PROVE side = "better" /\ streak + 1 >= UpgradeHold
    <3>1. Aim(p) < profile /\ ~(Aim(p) > profile)
      BY <2>3, <2>5, <2>6
    <3>2. Hold(Aim(p)) = UpgradeHold /\ SideOf(Aim(p)) = "better"
      BY <3>1 DEF Hold, SideOf
    <3> QED BY <1>0, <2>2, <2>3, <2>4, <2>5, <3>2
  <2>7. ASSUME profile' > profile PROVE side = "worse" /\ streak + 1 >= DowngradeHold
    <3>1. Aim(p) > profile /\ ~(Aim(p) < profile)
      BY <2>3, <2>5, <2>7
    <3>2. Hold(Aim(p)) = DowngradeHold /\ SideOf(Aim(p)) = "worse"
      BY <3>1 DEF Hold, SideOf
    <3> QED BY <1>0, <2>2, <2>3, <2>4, <2>5, <3>2
  <2> QED BY <2>6, <2>7
<1>2. ASSUME profile' = profile
      PROVE  /\ profile' < profile => side = "better" /\ streak + 1 >= UpgradeHold
             /\ profile' > profile => side = "worse" /\ streak + 1 >= DowngradeHold
  BY <1>0, <1>2 DEF SelectorTypeOK, Profiles
<1>3. ASSUME NEW p \in Profiles, ForceProfile(p) PROVE FALSE
  BY <1>3, Zenon DEF ForceProfile
<1>4. ASSUME NEW p \in Profiles, NEW d \in 0..1, Update(p, d)
      PROVE  Switch(p, d) \/ profile' = profile
  BY <1>4 DEF Update, Settle, Consider, HoldOn
<1>5. ASSUME NEW d \in 0..1, Wait(d) PROVE profile' = profile
  BY <1>5 DEF Wait
<1>6. CASE Release
  BY <1>2, <1>6 DEF Release
<1>7. CASE UNCHANGED selector
  BY <1>2, <1>7 DEF selector
<1> QED BY <1>1, <1>2, <1>3, <1>4, <1>5, <1>6, <1>7, Zenon DEF SelectorNext

-----------------------------------------------------------------------------
\* The selector keeps its clock honest, whatever is measured and whenever.
THEOREM SelectorHonest == SelectorSpec => []Honest
BY HonestInit, HonestNext, PTL DEF SelectorSpec

\* The best of the measured round trips is one of them.
LEMMA BestRange ==
    ASSUME TypeOK, NEW default, Known # {} PROVE Best(default) \in Profiles
<1>1. Known \subseteq Profiles
  BY DEF Known, TypeOK
<1>2. \E r \in Known : \A q \in Known : r <= q
  <2>1. CASE 0 \in Known
    BY <1>1, <2>1 DEF Profiles
  <2>2. CASE 0 \notin Known /\ 1 \in Known
    BY <1>1, <2>2 DEF Profiles
  <2>3. CASE 0 \notin Known /\ 1 \notin Known
    <3>1. \A q \in Known : q = 2
      BY <1>1, <2>3 DEF Profiles
    <3> QED BY <3>1
  <2> QED BY <2>1, <2>2, <2>3
<1> QED BY <1>1, <1>2 DEF Best

\* A measurement stands for a profile.
LEMMA TargetRange ==
    ASSUME TypeOK PROVE Target \in Profiles
<1>1. CASE Known = {}
  BY <1>1 DEF Target, Best, TypeOK, Profiles
<1>2. CASE Known # {}
  BY <1>2, BestRange DEF Target, Profiles
<1> QED BY <1>1, <1>2

Shaped ==
    /\ DOMAIN subs = Clients
    /\ \A c \in Clients : DOMAIN subs[c] = Streams

HubInv == TypeOK /\ Shaped /\ NothingIsForgotten

\* What one pass of the tick does to the selector.
LEMMA AutoSelectStep ==
    ASSUME TypeOK, NEW d \in 0..1, AutoSelect(d)
    PROVE  /\ SelectorNext
           /\ manual' = manual
           /\ manual => candidate' = candidate
<1>1. Target \in Profiles
  BY TargetRange
<1>2. CASE Wait(d)
  BY <1>2 DEF SelectorNext, Wait
<1>3. CASE Update(Target, d)
  <2>1. SelectorNext
    BY <1>1, <1>3, Zenon DEF SelectorNext
  <2>2. ~manual /\ manual' = manual
    BY <1>3, Zenon DEF Update, Settle, Consider, HoldOn, Switch
  <2> QED BY <2>1, <2>2
<1> QED BY <1>2, <1>3, Zenon DEF AutoSelect

\* Every step of the hub is a step of its selector or leaves it alone.
LEMMA StepOfSelector == TypeOK /\ [Next]_vars => [SelectorNext]_selector
<1> SUFFICES ASSUME TypeOK, [Next]_vars PROVE [SelectorNext]_selector
  OBVIOUS
<1>1. ASSUME NEW c \in Clients,
             \/ Connect(c) \/ Disconnect(c)
             \/ \E s \in Streams, want \in Rates \cup {None} : Subscribe(c, s, want)
             \/ \E s \in Streams : Unsubscribe(c, s)
             \/ \E r \in Profiles : Pong(c, r)
      PROVE  UNCHANGED selector
  BY <1>1, Zenon DEF Connect, Disconnect, Subscribe, Unsubscribe, Pong
<1>2. CASE SetProfile
  BY <1>2, Zenon DEF SetProfile, SelectorNext
<1>3. CASE TickAgain
  BY <1>3, AutoSelectStep DEF TickAgain
<1>4. CASE TickNext
  BY <1>4, AutoSelectStep DEF TickNext
<1>5. CASE ReadLink \/ FeedLink
  BY <1>5, Zenon DEF ReadLink, FeedLink
<1>6. CASE UNCHANGED vars
  BY <1>6, Zenon DEF vars
<1> QED BY <1>1, <1>2, <1>3, <1>4, <1>5, <1>6, Zenon DEF Next

\* A profile applied to every session keeps the subscriptions in step with it.
LEMMA ResubscribeStep ==
    ASSUME HubInv, Resubscribe(profile'), UNCHANGED clients
    PROVE  (Shaped /\ NothingIsForgotten)'
<1>1. Shaped'
  BY DEF HubInv, Shaped, Resubscribe
<1>2. ASSUME NEW c \in Clients, NEW s \in Streams, subs'[c][s] # None
      PROVE  /\ subs[c][s] # None
             /\ subs'[c][s] = Subscription(s, subs[c][s].want, profile')
  BY <1>2 DEF Resubscribe
<1>3. ASSUME NEW c \in Clients, NEW s \in Streams, subs'[c][s] # None
      PROVE  /\ c \in clients'
             /\ subs'[c][s].want \in Rates \cup {None}
             /\ subs'[c][s].gets = Resolve(s, subs'[c][s].want, profile')
  <2>0. subs'[c][s] = Subscription(s, subs[c][s].want, profile')
    BY <1>2, <1>3
  <2>1. /\ subs'[c][s].want = subs[c][s].want
        /\ subs'[c][s].gets = Resolve(s, subs[c][s].want, profile')
    BY <2>0 DEF Subscription
  <2>2. c \in clients /\ subs[c][s].want \in Rates \cup {None}
    BY <1>2, <1>3 DEF HubInv, NothingIsForgotten
  <2> QED BY <2>1, <2>2
<1> QED BY <1>1, <1>3 DEF NothingIsForgotten, Resolve, Least

\* The hub's part of the types, where the selector is left alone.
LEMMA SelectorLeftAlone ==
    ASSUME TypeOK, UNCHANGED selector
    PROVE  SelectorTypeOK' /\ (manual' => candidate' = None)
BY DEF TypeOK, SelectorTypeOK, selector

\* Every step of the hub keeps its types and forgets no request.
LEMMA HubNext == Honest /\ HubInv /\ [Next]_vars => HubInv'
<1> SUFFICES ASSUME Honest, HubInv, [Next]_vars PROVE HubInv'
  OBVIOUS
<1>0. TypeOK /\ Shaped /\ NothingIsForgotten /\ SelectorTypeOK'
  <2>1. TypeOK /\ Shaped /\ NothingIsForgotten
    BY DEF HubInv
  <2> QED BY <2>1, HonestNext, StepOfSelector DEF Honest
<1>1. ASSUME NEW c \in Clients, Connect(c) PROVE HubInv'
  <2>1. SelectorTypeOK' /\ (manual' => candidate' = None)
    BY <1>0, <1>1, SelectorLeftAlone DEF Connect
  <2>2. TypeOK'
    BY <1>0, <1>1, <2>1 DEF TypeOK, Connect, link
  <2>3. (Shaped /\ NothingIsForgotten)'
    BY <1>0, <1>1 DEF Connect, Shaped, NothingIsForgotten, selector
  <2> QED BY <2>2, <2>3 DEF HubInv
<1>2. ASSUME NEW c \in Clients, Disconnect(c) PROVE HubInv'
  <2>1. SelectorTypeOK' /\ (manual' => candidate' = None)
    BY <1>0, <1>2, SelectorLeftAlone DEF Disconnect
  <2>2. TypeOK'
    BY <1>0, <1>2, <2>1 DEF TypeOK, Disconnect, link
  <2>3. (Shaped /\ NothingIsForgotten)'
    BY <1>0, <1>2 DEF Disconnect, Shaped, NothingIsForgotten, selector
  <2> QED BY <2>2, <2>3 DEF HubInv
<1>3. ASSUME NEW c \in Clients, NEW s \in Streams, NEW want \in Rates \cup {None},
             Subscribe(c, s, want)
      PROVE  HubInv'
  <2>1. SelectorTypeOK' /\ (manual' => candidate' = None)
    BY <1>0, <1>3, SelectorLeftAlone DEF Subscribe
  <2>2. TypeOK'
    BY <1>0, <1>3, <2>1 DEF TypeOK, Subscribe, link
  <2>3. Shaped'
    BY <1>0, <1>3 DEF Subscribe, Shaped
  <2>4. ASSUME NEW b \in Clients, NEW t \in Streams
        PROVE  subs'[b][t] = IF b = c /\ t = s THEN Subscription(s, want, profile)
                                              ELSE subs[b][t]
    BY <1>0, <1>3 DEF Subscribe, Shaped
  <2>5. profile' = profile /\ clients' = clients /\ c \in clients
    BY <1>3 DEF Subscribe, selector
  <2>6. ASSUME NEW b \in Clients, NEW t \in Streams, subs'[b][t] # None
        PROVE  /\ b \in clients'
               /\ subs'[b][t].want \in Rates \cup {None}
               /\ subs'[b][t].gets = Resolve(t, subs'[b][t].want, profile')
    <3>1. CASE b = c /\ t = s
      BY <2>4, <2>5, <3>1 DEF Subscription
    <3>2. CASE ~(b = c /\ t = s)
      BY <1>0, <2>4, <2>5, <2>6, <3>2 DEF NothingIsForgotten
    <3> QED BY <3>1, <3>2
  <2> QED BY <2>2, <2>3, <2>6 DEF HubInv, NothingIsForgotten, Resolve, Least
<1>4. ASSUME NEW c \in Clients, NEW s \in Streams, Unsubscribe(c, s) PROVE HubInv'
  <2>1. SelectorTypeOK' /\ (manual' => candidate' = None)
    BY <1>0, <1>4, SelectorLeftAlone DEF Unsubscribe
  <2>2. TypeOK'
    BY <1>0, <1>4, <2>1 DEF TypeOK, Unsubscribe, link
  <2>3. (Shaped /\ NothingIsForgotten)'
    BY <1>0, <1>4 DEF Unsubscribe, Shaped, NothingIsForgotten, selector
  <2> QED BY <2>2, <2>3 DEF HubInv
<1>5. ASSUME NEW c \in Clients, NEW r \in Profiles, Pong(c, r) PROVE HubInv'
  <2>1. SelectorTypeOK' /\ (manual' => candidate' = None)
    BY <1>0, <1>5, SelectorLeftAlone DEF Pong
  <2>2. TypeOK'
    BY <1>0, <1>5, <2>1 DEF TypeOK, Pong, link
  <2>3. (Shaped /\ NothingIsForgotten)'
    BY <1>0, <1>5 DEF Pong, Shaped, NothingIsForgotten, selector
  <2> QED BY <2>2, <2>3 DEF HubInv
<1>6. CASE SetProfile
  <2>1. manual' => candidate' = None
    BY <1>6, Zenon DEF SetProfile, ForceProfile, Release
  <2>2. TypeOK'
    BY <1>0, <1>6, <2>1 DEF TypeOK, SetProfile, link
  <2> QED BY <1>6, <2>2, ResubscribeStep DEF SetProfile, HubInv
<1>7. ASSUME NEW d \in 0..1, AutoSelect(d), UNCHANGED <<clients, rtt>>,
             timer' \in {"due", "read", "done"},
             UNCHANGED <<reading, sample>>
      PROVE  HubInv'
  <2>1. manual' => candidate' = None
    BY <1>0, <1>7, AutoSelectStep DEF TypeOK
  <2>2. TypeOK'
    BY <1>0, <1>7, <2>1 DEF TypeOK
  <2>3. CASE UNCHANGED <<profile, subs>>
    <3>1. (Shaped /\ NothingIsForgotten)'
      BY <1>0, <1>7, <2>3 DEF Shaped, NothingIsForgotten, Resolve, Least
    <3> QED BY <2>2, <3>1 DEF HubInv
  <2>4. CASE Resubscribe(profile')
    <3>1. UNCHANGED clients
      BY <1>7
    <3>2. (Shaped /\ NothingIsForgotten)'
      BY <2>4, <3>1, ResubscribeStep
    <3> QED BY <2>2, <3>2 DEF HubInv
  <2>5. UNCHANGED <<profile, subs>> \/ Resubscribe(profile')
    BY <1>7 DEF AutoSelect, Wait
  <2> QED BY <2>2, <2>3, <2>4, <2>5 DEF HubInv
<1>8. CASE TickAgain
  <2>1. timer' \in {"due", "read", "done"}
    BY <1>0, <1>8 DEF TickAgain, TypeOK, link
  <2> QED BY <1>7, <1>8, <2>1 DEF TickAgain, link
<1>9. CASE TickNext
  BY <1>7, <1>9 DEF TickNext
<1>10. ASSUME ReadLink \/ FeedLink PROVE HubInv'
  <2>1. SelectorTypeOK' /\ (manual' => candidate' = None)
    BY <1>0, <1>10, SelectorLeftAlone DEF ReadLink, FeedLink
  <2>2. Best(0) \in Profiles
    <3>1. CASE Known = {}
      BY <3>1 DEF Best, Profiles
    <3>2. CASE Known # {}
      BY <1>0, <3>2, BestRange DEF Best
    <3> QED BY <3>1, <3>2
  <2>3. TypeOK'
    BY <1>0, <1>10, <2>1, <2>2 DEF TypeOK, ReadLink, FeedLink, sessions
  <2>4. (Shaped /\ NothingIsForgotten)'
    BY <1>0, <1>10
       DEF ReadLink, FeedLink, sessions, Shaped, NothingIsForgotten, selector
  <2> QED BY <2>3, <2>4 DEF HubInv
<1>11. CASE UNCHANGED vars
  <2>1. SelectorTypeOK' /\ (manual' => candidate' = None)
    BY <1>0, <1>11, SelectorLeftAlone DEF vars
  <2>2. TypeOK'
    BY <1>0, <1>11, <2>1 DEF TypeOK, vars, sessions, link
  <2>3. (Shaped /\ NothingIsForgotten)'
    BY <1>0, <1>11 DEF vars, sessions, Shaped, NothingIsForgotten, selector
  <2> QED BY <2>2, <2>3 DEF HubInv
<1> QED
  BY <1>1, <1>2, <1>3, <1>4, <1>5, <1>6, <1>8, <1>9, <1>10, <1>11, Zenon DEF Next

\* The hub starts with nobody and nothing.
LEMMA HubInit == Init => Honest /\ HubInv
<1> SUFFICES ASSUME Init PROVE Honest /\ HubInv
  OBVIOUS
<1>1. Honest
  BY HonestInit DEF Init
<1>2. TypeOK
  <2>1. manual => candidate = None
    BY Zenon DEF Init, SelectorInit
  <2> QED BY <1>1, <2>1 DEF Init, TypeOK, Honest, Profiles
<1>3. Shaped /\ NothingIsForgotten
  BY DEF Init, Shaped, NothingIsForgotten
<1> QED BY <1>1, <1>2, <1>3 DEF HubInv

\* The hub's variables keep their types, its selector's clock is honest and no
\* request is forgotten.
THEOREM HubInvariant == Spec => [](Honest /\ HubInv)
<1>1. Honest /\ HubInv /\ [Next]_vars => (Honest /\ HubInv)'
  <2> SUFFICES ASSUME Honest, HubInv, [Next]_vars PROVE Honest' /\ HubInv'
    OBVIOUS
  <2>1. HubInv'
    BY HubNext
  <2>2. [SelectorNext]_selector
    BY StepOfSelector DEF HubInv
  <2> QED BY <2>1, <2>2, HonestNext
<1> QED BY <1>1, HubInit, PTL DEF Spec

\* The type invariant of the hub, for any clients, streams and rates.
THEOREM HubTypeCorrect == Spec => []TypeOK
<1>1. HubInv => TypeOK
  BY DEF HubInv
<1> QED BY <1>1, HubInvariant, PTL

\* A recovering link gives back all that was asked for.
THEOREM RequestsAreKept == Spec => []NothingIsForgotten
<1>1. HubInv => NothingIsForgotten
  BY DEF HubInv
<1> QED BY <1>1, HubInvariant, PTL

\* A link better than its profile is never kept waiting by its own wandering.
THEOREM RecoveryIsNotPutOff == Spec => []RecoveryClockRuns
<1>1. Honest => RecoveryClockRuns
  BY DEF Honest
<1> QED BY <1>1, HubInvariant, PTL

\* In the whole hub, a profile changes by itself only after the full time of
\* measurements that all asked for it.
THEOREM ChangesAreEarned == Spec => ChangeIsEarned
<1>1. Honest /\ HubInv /\ [Next]_vars =>
        [~manual /\ ~manual' =>
            /\ profile' < profile => side = "better" /\ streak + 1 >= UpgradeHold
            /\ profile' > profile => side = "worse" /\ streak + 1 >= DowngradeHold
        ]_selector
  <2> SUFFICES ASSUME Honest, HubInv, [Next]_vars, ~manual, ~manual'
               PROVE  /\ profile' < profile => side = "better" /\ streak + 1 >= UpgradeHold
                      /\ profile' > profile => side = "worse" /\ streak + 1 >= DowngradeHold
    BY Zenon
  <2>1. [SelectorNext]_selector
    BY StepOfSelector DEF HubInv
  <2> QED BY <2>1, EarnedStep
<1> QED BY <1>1, HubInvariant, PTL DEF Spec, ChangeIsEarned

-----------------------------------------------------------------------------
\* The track on its way to a browser.

\* An increment of the track.
Data(m) == m.type = "data"

\* What starts at f, unless it starts anew, lies beyond these points.
Behind(points, f) == f = 0 \/ \A k \in DOMAIN points : points[k] <= f

\* Points in order, none left out but by the level of detail.
Smooth(points, first, s, last) ==
    /\ \A i \in 1..(Len(points) - 1) :
          /\ points[i] < points[i + 1]
          /\ points[i + 1] <= points[i] + s
    /\ points # <<>> => points[1] = first
    /\ \A k \in DOMAIN points : points[k] + 1 >= first + k /\ points[k] <= last

\* The increments in this queue are sound and may be spliced in: what the browser
\* holds ends where each of them starts, or lies beyond its start and is cut away.
Fits(messages) ==
    \A i \in DOMAIN messages :
        Data(messages[i]) => /\ Smooth(messages[i].points, messages[i].from + 1, messages[i].step, made)
                             /\ Behind(plotted.points, messages[i].from)

\* Of two increments on their way, the later starts beyond the earlier or anew.
InOrder(a, b) == Data(a) /\ Data(b) => Behind(a.points, b.from)

\* A queue whose increments follow each other.
Ordered(messages) ==
    \A i, j \in DOMAIN messages : i < j => InOrder(messages[i], messages[j])

\* The increments in this queue lie behind the cursor of the subscription.
Reached(messages) ==
    \A i \in DOMAIN messages : Data(messages[i]) => Behind(messages[i].points, cursor)

\* So does what the browser holds: the next increment will fit.
AtCursor ==
    cursor # Absent =>
        /\ cursor <= made
        /\ Behind(plotted.points, cursor)
        /\ Reached(wire) /\ Reached(outbox)

\* Whatever is in the first queue is ahead of whatever is in the second.
Across(first, second) ==
    \A i \in DOMAIN first, j \in DOMAIN second : InOrder(first[i], second[j])

\* From the screen over the wire and the outbox to the cursor, every increment
\* follows what is ahead of it, as long as nothing is trimmed off the list.
Chain ==
    made <= Kept =>
        /\ Smooth(plotted.points, 1, plotted.step, made)
        /\ Fits(wire) /\ Fits(outbox)
        /\ Ordered(wire) /\ Ordered(outbox) /\ Across(wire, outbox)
        /\ AtCursor

\* The assumptions, for citing.
LEMMA DeliveryConstants ==
    /\ Kept \in Nat \ {0} /\ QueueLimit \in Nat \ {0} /\ WireLimit \in Nat \ {0}
    /\ Steps \subseteq Nat \ {0} /\ 1 \in Steps
BY DeliveryAssumption DEF DeliveryAssumption

\* What comes last of a sequence is its end.
LEMMA NewestFacts ==
    ASSUME NEW S, NEW s \in Seq(S), NEW n \in Nat
    PROVE  /\ Newest(n, s) \in Seq(S)
           /\ \E cut \in 0..Len(s) :
                 /\ Len(Newest(n, s)) = Len(s) - cut
                 /\ Len(s) <= n => cut = 0
                 /\ n > 0 /\ Len(s) > 0 => cut < Len(s)
                 /\ \A i \in 1..(Len(s) - cut) : Newest(n, s)[i] = s[i + cut]
<1> DEFINE cut == IF Len(s) > n THEN Len(s) - n ELSE 0
<1>1. /\ cut \in 0..Len(s) /\ Newest(n, s) = SubSeq(s, cut + 1, Len(s))
      /\ Len(s) <= n => cut = 0
      /\ n > 0 /\ Len(s) > 0 => cut < Len(s)
  BY DEF Newest
<1> HIDE DEF cut
<1>2. \A i \in (cut + 1)..Len(s) : s[i] \in S
  BY <1>1
<1>3. /\ Newest(n, s) \in Seq(S)
      /\ Len(Newest(n, s)) = Len(s) - cut
      /\ \A i \in 1..(Len(s) - cut) : Newest(n, s)[i] = s[i + cut]
  BY <1>1, <1>2
<1> QED BY <1>1, <1>3

\* Untrimmed, the track holds every point at its own place.
LEMMA TrackFacts ==
    ASSUME made \in Nat
    PROVE  /\ Track \in Seq(Nat)
           /\ made <= Kept => Len(Track) = made /\ \A i \in 1..made : Track[i] = i
<1> DEFINE all == [i \in 1..made |-> i]
<1>1. all \in Seq(Nat) /\ Len(all) = made
  OBVIOUS
<1>2. Kept \in Nat
  BY DeliveryConstants
<1> HIDE DEF all
<1>3. PICK cut \in 0..Len(all) :
         /\ Len(Newest(Kept, all)) = Len(all) - cut
         /\ Len(all) <= Kept => cut = 0
         /\ \A i \in 1..(Len(all) - cut) : Newest(Kept, all)[i] = all[i + cut]
  BY <1>1, <1>2, NewestFacts
<1>4. Newest(Kept, all) \in Seq(Nat)
  BY <1>1, <1>2, NewestFacts
<1>5. made <= Kept => Len(Newest(Kept, all)) = made /\ \A i \in 1..made : Newest(Kept, all)[i] = all[i]
  BY <1>1, <1>3
<1> QED BY <1>4, <1>5 DEF Track, all

\* One in s of n points: the places that are taken.
LEMMA StrideInRange ==
    ASSUME NEW n \in Nat, NEW s \in Nat \ {0}, NEW i \in 1..((n + s - 1) \div s)
    PROVE  /\ (i - 1) * s + 1 \in 1..n
           /\ (i - 1) * s >= i - 1
           /\ i * s = (i - 1) * s + s
<1> DEFINE q == (n + s - 1) \div s
<1>1. q \in Nat /\ q * s <= n + s - 1
  OBVIOUS
<1>2. i * s <= q * s
  <2> HIDE DEF q
  <2>1. i \in Nat /\ i <= q
    BY DEF q
  <2> QED BY <1>1, <2>1
<1>3. (i - 1) * s + s = i * s
  OBVIOUS
<1>4. (i - 1) * s >= i - 1
  OBVIOUS
<1>5. (i - 1) * s \in Int
  OBVIOUS
<1> QED BY <1>1, <1>2, <1>3, <1>4, <1>5

\* One point in s, by its place.
LEMMA EveryFacts ==
    ASSUME NEW points \in Seq(Nat), NEW s \in Nat \ {0}
    PROVE  /\ Every(s, points) \in Seq(Nat)
           /\ Every(s, points) # <<>> => points # <<>>
           /\ Len(Every(s, points)) = (Len(points) + s - 1) \div s
           /\ \A i \in 1..Len(Every(s, points)) :
                 /\ (i - 1) * s + 1 \in 1..Len(points)
                 /\ Every(s, points)[i] = points[(i - 1) * s + 1]
<1> DEFINE q == (Len(points) + s - 1) \div s
<1>1. q \in Nat
  OBVIOUS
<1>2. \A i \in 1..q : (i - 1) * s + 1 \in 1..Len(points)
  BY StrideInRange
<1>3. Every(s, points) = [i \in 1..q |-> points[(i - 1) * s + 1]]
  BY DEF Every
<1> HIDE DEF q
<1>4. \A i \in 1..q : points[(i - 1) * s + 1] \in Nat
  BY <1>2
<1>5. Every(s, points) \in Seq(Nat) /\ Len(Every(s, points)) = q
  BY <1>1, <1>3, <1>4
<1> QED BY <1>2, <1>3, <1>5, SMTT(30) DEF q

\* The source sends increments without a hole.
LEMMA IncrementIsSound ==
    ASSUME made \in Nat, NEW from \in Nat, NEW s \in Steps
    PROVE  /\ TrackPayload(from, s) \in Messages
           /\ made <= Kept /\ from <= made => Smooth(TrackPayload(from, s).points, from + 1, s, made)
<1> DEFINE rest == SubSeq(Track, from + 1, Len(Track))
           points == Every(s, rest)
<1>0. s \in Nat \ {0} /\ TrackPayload(from, s).points = points
  BY DeliveryConstants DEF TrackPayload
<1>1. Track \in Seq(Nat)
  BY TrackFacts
<1>2. rest \in Seq(Nat)
  BY <1>1
<1>3. /\ points \in Seq(Nat)
      /\ \A i \in 1..Len(points) :
            (i - 1) * s + 1 \in 1..Len(rest) /\ points[i] = rest[(i - 1) * s + 1]
      /\ Len(points) = (Len(rest) + s - 1) \div s
  BY <1>0, <1>2, EveryFacts
<1>4. TrackPayload(from, s) \in Messages
  BY <1>3 DEF TrackPayload, Messages
<1>5. ASSUME made <= Kept, from <= made
      PROVE  Smooth(points, from + 1, s, made)
  <2>1. Len(rest) = made - from /\ \A j \in 1..(made - from) : rest[j] = from + j
    <3>1. Len(Track) = made /\ \A i \in 1..made : Track[i] = i
      BY <1>5, TrackFacts
    <3> QED BY <1>1, <1>5, <3>1
  <2> HIDE DEF rest, points
  <2>2. \A i \in 1..Len(points) :
           /\ points[i] = from + ((i - 1) * s + 1) /\ points[i] <= made
           /\ (i - 1) * s >= i - 1 /\ (i - 1) * s \in Nat
           /\ i * s = (i - 1) * s + s
    <3> TAKE i \in 1..Len(points)
    <3>1. /\ (i - 1) * s + 1 \in 1..(made - from)
          /\ points[i] = rest[(i - 1) * s + 1]
      BY <1>3, <2>1
    <3>2. i \in 1..(((made - from) + s - 1) \div s) /\ made - from \in Nat
      BY <1>3, <1>5, <2>1
    <3>3. (i - 1) * s >= i - 1 /\ i * s = (i - 1) * s + s
      BY <1>0, <3>2, StrideInRange
    <3>4. points[i] = from + ((i - 1) * s + 1)
      BY <2>1, <3>1
    <3>5. (i - 1) * s \in Nat
      BY <1>0
    <3> QED BY <3>1, <3>3, <3>4, <3>5
  <2>3. ASSUME NEW i \in 1..(Len(points) - 1)
        PROVE  points[i + 1] = points[i] + s
    <3>1. i \in 1..Len(points) /\ i + 1 \in 1..Len(points) /\ (i + 1) - 1 = i
      BY <1>3
    <3>2. points[i] = from + ((i - 1) * s + 1) /\ i * s = (i - 1) * s + s /\ (i - 1) * s \in Nat
      BY <2>2, <3>1
    <3>3. points[i + 1] = from + (i * s + 1)
      BY <2>2, <3>1
    <3> QED BY <1>0, <3>2, <3>3
  <2>4. points # <<>> => points[1] = from + 1
    <3> SUFFICES ASSUME points # <<>> PROVE points[1] = from + 1
      OBVIOUS
    <3>1. 1 \in 1..Len(points)
      BY <1>3
    <3>2. points[1] = from + ((1 - 1) * s + 1)
      BY <2>2, <3>1
    <3> QED BY <1>0, <3>2
  <2>5. \A k \in DOMAIN points : points[k] + 1 >= from + 1 + k /\ points[k] <= made
    <3> TAKE k \in DOMAIN points
    <3>1. k \in 1..Len(points)
      BY <1>3
    <3> QED BY <2>2, <3>1
  <2>6. \A i \in 1..(Len(points) - 1) : points[i] \in Nat
    BY <1>3
  <2> QED BY <1>0, <2>3, <2>4, <2>5, <2>6 DEF Smooth
<1> QED BY <1>0, <1>4, <1>5

-----------------------------------------------------------------------------
\* What the outbox keeps: the end of what was in it and what was sent.
LEMMA SendFacts ==
    ASSUME outbox \in Seq(Messages), NEW messages \in Seq(Messages)
    PROVE  /\ Send(messages) \in Seq(Messages)
           /\ \E cut \in 0..(Len(outbox) + Len(messages)) :
                 /\ Len(Send(messages)) = Len(outbox) + Len(messages) - cut
                 /\ Len(messages) > 0 => cut < Len(outbox) + Len(messages)
                 /\ \A i \in 1..Len(Send(messages)) :
                       Send(messages)[i] = IF i + cut <= Len(outbox) THEN outbox[i + cut]
                                           ELSE messages[i + cut - Len(outbox)]
<1> DEFINE all == outbox \o messages
<1>1. /\ all \in Seq(Messages) /\ Len(all) = Len(outbox) + Len(messages)
      /\ \A i \in 1..Len(all) : all[i] = IF i <= Len(outbox) THEN outbox[i]
                                         ELSE messages[i - Len(outbox)]
  OBVIOUS
<1> HIDE DEF all
<1>2. QueueLimit \in Nat /\ QueueLimit > 0
  BY DeliveryConstants
<1>3. /\ Newest(QueueLimit, all) \in Seq(Messages)
      /\ \E cut \in 0..Len(all) :
            /\ Len(Newest(QueueLimit, all)) = Len(all) - cut
            /\ Len(all) > 0 => cut < Len(all)
            /\ \A i \in 1..(Len(all) - cut) : Newest(QueueLimit, all)[i] = all[i + cut]
  BY <1>1, <1>2, NewestFacts
<1>4. Send(messages) = Newest(QueueLimit, all)
  BY DEF Send, all
<1>5. PICK cut \in 0..Len(all) :
         /\ Len(Send(messages)) = Len(all) - cut
         /\ Len(all) > 0 => cut < Len(all)
         /\ \A i \in 1..(Len(all) - cut) : Send(messages)[i] = all[i + cut]
  BY <1>3, <1>4
<1>6. \A i \in 1..Len(Send(messages)) :
         Send(messages)[i] = IF i + cut <= Len(outbox) THEN outbox[i + cut]
                             ELSE messages[i + cut - Len(outbox)]
  <2> TAKE i \in 1..Len(Send(messages))
  <2>1. i \in 1..(Len(all) - cut) /\ i + cut \in 1..Len(all)
    BY <1>1, <1>5
  <2> QED BY <1>1, <1>5, <2>1
<1>7. Len(outbox) \in Nat /\ Len(messages) \in Nat
  OBVIOUS
<1>8. /\ cut \in 0..(Len(outbox) + Len(messages))
      /\ Len(Send(messages)) = Len(outbox) + Len(messages) - cut
      /\ Len(messages) > 0 => cut < Len(outbox) + Len(messages)
  BY <1>1, <1>5, <1>7
<1>9. Send(messages) \in Seq(Messages)
  BY <1>3, <1>4
<1> QED BY <1>6, <1>8, <1>9

\* Each message in the outbox after a send is one that was in it or was sent,
\* and two of them are in the order in which they were sent.
LEMMA SendOrder ==
    ASSUME outbox \in Seq(Messages), NEW messages \in Seq(Messages)
    PROVE  /\ \A i \in DOMAIN Send(messages) :
                 \/ \E k \in DOMAIN outbox : Send(messages)[i] = outbox[k]
                 \/ \E k \in DOMAIN messages : Send(messages)[i] = messages[k]
           /\ \A i, j \in DOMAIN Send(messages) : i < j =>
                 \/ \E k, l \in DOMAIN outbox :
                       k < l /\ Send(messages)[i] = outbox[k] /\ Send(messages)[j] = outbox[l]
                 \/ \E k \in DOMAIN outbox, l \in DOMAIN messages :
                       Send(messages)[i] = outbox[k] /\ Send(messages)[j] = messages[l]
                 \/ \E k, l \in DOMAIN messages :
                       k < l /\ Send(messages)[i] = messages[k] /\ Send(messages)[j] = messages[l]
<1> DEFINE box == Send(messages)
<1>1. PICK cut \in 0..(Len(outbox) + Len(messages)) :
         /\ Len(box) = Len(outbox) + Len(messages) - cut
         /\ \A i \in 1..Len(box) :
               box[i] = IF i + cut <= Len(outbox) THEN outbox[i + cut]
                        ELSE messages[i + cut - Len(outbox)]
  BY SendFacts
<1>2. box \in Seq(Messages)
  BY SendFacts
<1> HIDE DEF box
<1>3. /\ DOMAIN box = 1..Len(box) /\ DOMAIN outbox = 1..Len(outbox)
      /\ DOMAIN messages = 1..Len(messages)
      /\ Len(box) \in Nat /\ Len(outbox) \in Nat /\ Len(messages) \in Nat
  BY <1>2
<1>4. ASSUME NEW i \in DOMAIN box
      PROVE  \/ i + cut \in DOMAIN outbox /\ box[i] = outbox[i + cut]
             \/ /\ i + cut > Len(outbox)
                /\ i + cut - Len(outbox) \in DOMAIN messages
                /\ box[i] = messages[i + cut - Len(outbox)]
  BY <1>1, <1>3
<1>5. ASSUME NEW i \in DOMAIN box, NEW j \in DOMAIN box, i < j
      PROVE  \/ \E k, l \in DOMAIN outbox : k < l /\ box[i] = outbox[k] /\ box[j] = outbox[l]
             \/ \E k \in DOMAIN outbox, l \in DOMAIN messages :
                   box[i] = outbox[k] /\ box[j] = messages[l]
             \/ \E k, l \in DOMAIN messages :
                   k < l /\ box[i] = messages[k] /\ box[j] = messages[l]
  <2>1. i + cut < j + cut /\ i + cut - Len(outbox) < j + cut - Len(outbox)
    BY <1>3, <1>5
  <2>2. CASE i + cut \in DOMAIN outbox /\ box[i] = outbox[i + cut]
    BY <1>4, <2>1, <2>2
  <2>3. CASE /\ i + cut > Len(outbox)
             /\ i + cut - Len(outbox) \in DOMAIN messages
             /\ box[i] = messages[i + cut - Len(outbox)]
    <3>1. j + cut \notin DOMAIN outbox
      BY <1>3, <2>1, <2>3
    <3> QED BY <1>4, <2>1, <2>3, <3>1
  <2> QED BY <1>4, <2>2, <2>3
<1> QED BY <1>4, <1>5 DEF box

\* The increment that is sent, if any, comes last, from where the cursor is.
FromCursor(messages) ==
    \A k \in DOMAIN messages :
        Data(messages[k]) =>
            /\ k = Len(messages) /\ cursor # Absent /\ messages[k].from = cursor
            /\ made <= Kept => Smooth(messages[k].points, messages[k].from + 1, messages[k].step, made)

\* A send that goes on from the cursor keeps the queues in order.
LEMMA OutboxStaysInOrder ==
    ASSUME outbox \in Seq(Messages), NEW messages \in Seq(Messages), Chain,
           made <= Kept, FromCursor(messages)
    PROVE  /\ Fits(Send(messages)) /\ Ordered(Send(messages)) /\ Across(wire, Send(messages))
<1> DEFINE box == Send(messages)
<1>1. /\ Fits(outbox) /\ Ordered(outbox) /\ Across(wire, outbox) /\ AtCursor
  BY DEF Chain
<1>2. \A k \in DOMAIN messages :
         Data(messages[k]) => /\ Smooth(messages[k].points, messages[k].from + 1, messages[k].step, made)
                              /\ Behind(plotted.points, messages[k].from)
  BY <1>1 DEF FromCursor, AtCursor
<1>3. Fits(box)
  <2> SUFFICES ASSUME NEW i \in DOMAIN box, Data(box[i])
               PROVE  /\ Smooth(box[i].points, box[i].from + 1, box[i].step, made)
                      /\ Behind(plotted.points, box[i].from)
    BY DEF Fits
  <2>1. CASE \E k \in DOMAIN outbox : box[i] = outbox[k]
    BY <1>1, <2>1 DEF Fits
  <2>2. CASE \E k \in DOMAIN messages : box[i] = messages[k]
    BY <1>2, <2>2
  <2> QED BY <2>1, <2>2, SendOrder
<1>4. \A k \in DOMAIN outbox, l \in DOMAIN messages : InOrder(outbox[k], messages[l])
  BY <1>1 DEF AtCursor, Reached, FromCursor, InOrder
<1>5. \A k \in DOMAIN wire, l \in DOMAIN messages : InOrder(wire[k], messages[l])
  BY <1>1 DEF AtCursor, Reached, FromCursor, InOrder
<1>6. \A k, l \in DOMAIN messages : k < l => InOrder(messages[k], messages[l])
  <2> SUFFICES ASSUME NEW k \in DOMAIN messages, NEW l \in DOMAIN messages, k < l,
                      Data(messages[k])
               PROVE  FALSE
    BY DEF InOrder
  <2>1. k = Len(messages)
    BY DEF FromCursor
  <2> QED BY <2>1
<1>7. Ordered(box)
  <2> SUFFICES ASSUME NEW i \in DOMAIN box, NEW j \in DOMAIN box, i < j
               PROVE  InOrder(box[i], box[j])
    BY DEF Ordered
  <2>1. CASE \E k, l \in DOMAIN outbox : k < l /\ box[i] = outbox[k] /\ box[j] = outbox[l]
    BY <1>1, <2>1 DEF Ordered
  <2>2. CASE \E k \in DOMAIN outbox, l \in DOMAIN messages :
                box[i] = outbox[k] /\ box[j] = messages[l]
    BY <1>4, <2>2
  <2>3. CASE \E k, l \in DOMAIN messages :
                k < l /\ box[i] = messages[k] /\ box[j] = messages[l]
    BY <1>6, <2>3
  <2> QED BY <2>1, <2>2, <2>3, SendOrder
<1>8. Across(wire, box)
  <2> SUFFICES ASSUME NEW k \in DOMAIN wire, NEW i \in DOMAIN box
               PROVE  InOrder(wire[k], box[i])
    BY DEF Across
  <2>1. CASE \E l \in DOMAIN outbox : box[i] = outbox[l]
    BY <1>1, <2>1 DEF Across
  <2>2. CASE \E l \in DOMAIN messages : box[i] = messages[l]
    BY <1>5, <2>2
  <2> QED BY <2>1, <2>2, SendOrder
<1> QED BY <1>3, <1>7, <1>8

-----------------------------------------------------------------------------
\* A message is what its type says.
LEMMA MessageKinds ==
    ASSUME NEW m \in Messages
    PROVE  /\ m.type \in {"hello", "subscribed", "data", "alarms"}
           /\ Data(m) => m \in [type: {"data"}, from: Nat, step: Steps, points: Seq(Nat)]
           /\ m.type = "alarms" => m.active \in Alarmed
BY DEF Messages, Hello, Subscribed, AlarmsMessage, Data

\* What Smooth says of points that are numbers, by their places.
LEMMA SmoothPoints ==
    ASSUME NEW p \in Seq(Nat), NEW first \in Nat, NEW s, Smooth(p, first, s, made)
    PROVE  /\ DOMAIN p = 1..Len(p) /\ Len(p) \in Nat
           /\ \A i \in 1..(Len(p) - 1) : p[i] < p[i + 1] /\ p[i + 1] <= p[i] + s
           /\ Len(p) > 0 => p[1] = first
           /\ \A k \in 1..Len(p) : p[k] \in Nat /\ p[k] + 1 >= first + k /\ p[k] <= made
<1>1. DOMAIN p = 1..Len(p) /\ Len(p) \in Nat /\ (Len(p) > 0 => p # <<>>)
  OBVIOUS
<1>2. \A k \in 1..Len(p) : p[k] \in Nat
  OBVIOUS
<1> QED BY <1>1, <1>2 DEF Smooth

\* Points up to f, and points from f + 1 on, joined.
LEMMA SmoothJoin ==
    ASSUME made \in Nat, NEW p \in Seq(Nat), NEW q \in Seq(Nat),
           NEW a \in Nat \ {0}, NEW b \in Nat \ {0}, NEW s \in Nat, a <= s, b <= s,
           NEW f \in 1..Len(p),
           Smooth(p, 1, a, made), Smooth(q, f + 1, b, made), Behind(p, f)
    PROVE  /\ Smooth(SubSeq(p, 1, f) \o q, 1, s, made)
           /\ \A g : Behind(p, g) /\ Behind(q, g) => Behind(SubSeq(p, 1, f) \o q, g)
<1> DEFINE new == SubSeq(p, 1, f) \o q
<1>1. /\ DOMAIN p = 1..Len(p) /\ Len(p) \in Nat
      /\ \A i \in 1..(Len(p) - 1) : p[i] < p[i + 1] /\ p[i + 1] <= p[i] + a
      /\ Len(p) > 0 => p[1] = 1
      /\ \A k \in 1..Len(p) : p[k] \in Nat /\ p[k] + 1 >= 1 + k /\ p[k] <= made
  BY SmoothPoints
<1>2. f + 1 \in Nat /\ f \in Nat
  OBVIOUS
<1>3. /\ DOMAIN q = 1..Len(q) /\ Len(q) \in Nat
      /\ \A i \in 1..(Len(q) - 1) : q[i] < q[i + 1] /\ q[i + 1] <= q[i] + b
      /\ Len(q) > 0 => q[1] = f + 1
      /\ \A k \in 1..Len(q) : q[k] \in Nat /\ q[k] + 1 >= f + 1 + k /\ q[k] <= made
  BY <1>2, SmoothPoints
<1>4. p[f] = f
  <2>1. f # 0 /\ f \in DOMAIN p /\ f \in 1..Len(p)
    BY <1>1
  <2>2. p[f] <= f
    BY <2>1 DEF Behind
  <2>3. p[f] \in Nat /\ p[f] + 1 >= 1 + f
    BY <1>1, <2>1
  <2> QED BY <2>2, <2>3
<1>5. /\ new \in Seq(Nat) /\ Len(new) = f + Len(q) /\ DOMAIN new = 1..(f + Len(q))
      /\ \A i \in 1..(f + Len(q)) : new[i] = IF i <= f THEN p[i] ELSE q[i - f]
  <2>1. SubSeq(p, 1, f) \in Seq(Nat) /\ Len(SubSeq(p, 1, f)) = f
        /\ \A i \in 1..f : SubSeq(p, 1, f)[i] = p[i]
    OBVIOUS
  <2>2. /\ new \in Seq(Nat) /\ Len(new) = f + Len(q)
        /\ \A i \in 1..(f + Len(q)) :
              new[i] = IF i <= f THEN SubSeq(p, 1, f)[i] ELSE q[i - f]
    BY <2>1
  <2> HIDE DEF new
  <2>3. \A i \in 1..(f + Len(q)) : i <= f => i \in 1..f
    BY <1>3
  <2>4. \A i \in 1..(f + Len(q)) : new[i] = IF i <= f THEN p[i] ELSE q[i - f]
    BY <2>1, <2>2, <2>3
  <2> QED BY <2>2, <2>4
<1> HIDE DEF new
<1>6. ASSUME NEW i \in 1..(f + Len(q) - 1)
      PROVE  new[i] < new[i + 1] /\ new[i + 1] <= new[i] + s
  <2>0. i \in 1..(f + Len(q)) /\ i + 1 \in 1..(f + Len(q))
    BY <1>3
  <2>1. CASE i < f
    <3>1. i \in 1..(Len(p) - 1) /\ i \in 1..Len(p) /\ i + 1 \in 1..Len(p) /\ i + 1 <= f
      BY <1>1, <2>1
    <3>2. new[i] = p[i] /\ new[i + 1] = p[i + 1]
      BY <1>5, <2>0, <2>1, <3>1, SMTT(30)
    <3>3. p[i] < p[i + 1] /\ p[i + 1] <= p[i] + a /\ p[i] \in Nat /\ p[i + 1] \in Nat
      BY <1>1, <3>1
    <3> QED BY <3>2, <3>3, SMTT(30)
  <2>2. CASE i = f
    <3>1. 1 \in 1..Len(q) /\ Len(q) > 0 /\ (f + 1) - f = 1 /\ ~(f + 1 <= f)
      BY <1>3, <2>2
    <3>2. new[i] = p[f] /\ new[i + 1] = q[1]
      BY <1>5, <2>0, <2>2, <3>1, SMTT(30)
    <3> QED BY <1>3, <1>4, <3>1, <3>2
  <2>3. CASE i > f
    <3> DEFINE j == i - f
    <3>1. /\ j \in 1..(Len(q) - 1) /\ j \in 1..Len(q) /\ j + 1 \in 1..Len(q)
          /\ i - f = j /\ (i + 1) - f = j + 1 /\ ~(i <= f) /\ ~(i + 1 <= f)
      BY <1>3, <2>3
    <3> HIDE DEF j
    <3>2. new[i] = q[j] /\ new[i + 1] = q[j + 1]
      BY <1>5, <2>0, <3>1
    <3>3. q[j] < q[j + 1] /\ q[j + 1] <= q[j] + b /\ q[j] \in Nat /\ q[j + 1] \in Nat
      BY <1>3, <3>1
    <3> QED BY <3>2, <3>3, SMTT(30)
  <2> QED BY <2>1, <2>2, <2>3
<1>7. ASSUME NEW k \in 1..(f + Len(q))
      PROVE  \/ k \in 1..Len(p) /\ new[k] = p[k]
             \/ k - f \in 1..Len(q) /\ new[k] = q[k - f]
  <2>1. CASE k <= f
    BY <1>1, <1>5, <2>1, SMTT(30)
  <2>2. CASE k > f
    <3>1. k - f \in 1..Len(q) /\ ~(k <= f)
      BY <1>3, <2>2
    <3> QED BY <1>5, <3>1
  <2> QED BY <2>1, <2>2
<1>8. Smooth(new, 1, s, made)
  <2>1. new[1] = 1
    BY <1>1, <1>5
  <2>2. \A k \in 1..(f + Len(q)) : new[k] + 1 >= 1 + k /\ new[k] <= made
    <3> TAKE k \in 1..(f + Len(q))
    <3>1. CASE k \in 1..Len(p) /\ new[k] = p[k]
      BY <1>1, <3>1
    <3>2. CASE k - f \in 1..Len(q) /\ new[k] = q[k - f]
      BY <1>3, <3>2
    <3> QED BY <1>7, <3>1, <3>2
  <2> QED BY <1>5, <1>6, <2>1, <2>2 DEF Smooth
<1>9. ASSUME NEW g, Behind(p, g), Behind(q, g)
      PROVE  Behind(new, g)
  BY <1>1, <1>3, <1>5, <1>7, <1>9 DEF Behind
<1> QED BY <1>8, <1>9 DEF new

\* A splice leaves the points smooth, and behind whatever they and the increment
\* were behind.
LEMMA SpliceFacts ==
    ASSUME made \in Nat, plotted \in [points: Seq(Nat), step: Steps],
           NEW m \in [type: {"data"}, from: Nat, step: Steps, points: Seq(Nat)],
           Smooth(plotted.points, 1, plotted.step, made),
           Smooth(m.points, m.from + 1, m.step, made), Behind(plotted.points, m.from)
    PROVE  /\ Smooth(Splice(m).points, 1, Splice(m).step, made)
           /\ \A g : Behind(plotted.points, g) /\ Behind(m.points, g) => Behind(Splice(m).points, g)
<1>0. /\ plotted.points \in Seq(Nat) /\ m.points \in Seq(Nat) /\ m.from \in Nat
      /\ m.step \in Nat \ {0} /\ plotted.step \in Nat \ {0}
  BY DeliveryConstants
<1>1. CASE m.from = 0
  BY <1>1 DEF Splice
<1>2. CASE m.from # 0 /\ Misses(m)
  BY <1>2 DEF Splice
<1>3. CASE m.from # 0 /\ ~Misses(m)
  <2> DEFINE s == IF m.step > plotted.step THEN m.step ELSE plotted.step
  <2>1. s \in Nat /\ m.step <= s /\ plotted.step <= s
    BY <1>0
  <2>2. m.from \in 1..Len(plotted.points)
    BY <1>0, <1>3 DEF Misses
  <2>3. Splice(m).points = SubSeq(plotted.points, 1, m.from) \o m.points /\ Splice(m).step = s
    BY <1>3 DEF Splice
  <2> HIDE DEF s
  <2>4. Smooth(SubSeq(plotted.points, 1, m.from) \o m.points, 1, s, made)
    BY <1>0, <2>1, <2>2, SmoothJoin
  <2>5. \A g : Behind(plotted.points, g) /\ Behind(m.points, g)
               => Behind(SubSeq(plotted.points, 1, m.from) \o m.points, g)
    BY <1>0, <2>1, <2>2, SmoothJoin
  <2> QED BY <2>3, <2>4, <2>5
<1> QED BY <1>1, <1>2, <1>3

-----------------------------------------------------------------------------
\* The types hold at first.
LEMMA DeliveryTypesInit == DeliveryInit => DeliveryTypeOK
BY DeliveryConstants DEF DeliveryInit, DeliveryTypeOK, Alarmed

\* A tick finds alarms of a reading.
LEMMA EvaluateAlarmed == ASSUME DeliveryTypeOK PROVE Evaluate(sensed) \in Alarmed
BY DEF DeliveryTypeOK, Alarmed

\* What a tick sends.
Sent(due) ==
    (IF Diff(active, Evaluate(sensed)).raised # {} \/ Diff(active, Evaluate(sensed)).cleared # {}
     THEN <<AlarmsMessage(Evaluate(sensed))>> ELSE <<>>)
    \o (IF due /\ cursor # Absent THEN <<TrackPayload(cursor, step)>> ELSE <<>>)

\* It tells the alarms exactly when they differ, and an increment goes on from the
\* cursor.
LEMMA SentFacts ==
    ASSUME DeliveryTypeOK, NEW due \in BOOLEAN
    PROVE  /\ Sent(due) \in Seq(Messages)
           /\ Chain /\ made <= Kept => FromCursor(Sent(due))
           /\ Tells("alarms", Sent(due)) <=>
                 \/ Diff(active, Evaluate(sensed)).raised # {}
                 \/ Diff(active, Evaluate(sensed)).cleared # {}
           /\ \A k \in DOMAIN Sent(due) :
                 /\ Sent(due)[k].type = "alarms" => Sent(due)[k].active = Evaluate(sensed)
                 /\ Data(Sent(due)[k]) => due /\ cursor # Absent
<1> DEFINE A == AlarmsMessage(Evaluate(sensed))
           D == TrackPayload(cursor, step)
           changed == \/ Diff(active, Evaluate(sensed)).raised # {}
                      \/ Diff(active, Evaluate(sensed)).cleared # {}
           pushed == due /\ cursor # Absent
<1>1. A \in Messages /\ A.type = "alarms" /\ A.active = Evaluate(sensed)
  BY EvaluateAlarmed DEF AlarmsMessage, Messages
<1>2. pushed => /\ D \in Messages /\ D.type = "data" /\ D.from = cursor /\ D.step = step
                /\ made <= Kept /\ cursor <= made => Smooth(D.points, D.from + 1, D.step, made)
  <2> SUFFICES ASSUME pushed
               PROVE  /\ D \in Messages /\ D.type = "data" /\ D.from = cursor /\ D.step = step
                      /\ made <= Kept /\ cursor <= made => Smooth(D.points, D.from + 1, D.step, made)
    OBVIOUS
  <2>1. made \in Nat /\ cursor \in Nat /\ step \in Steps
    BY DEF DeliveryTypeOK
  <2>2. D.type = "data" /\ D.from = cursor /\ D.step = step
    BY DEF TrackPayload
  <2> QED BY <2>1, <2>2, IncrementIsSound
<1>3. Sent(due) = (IF changed THEN <<A>> ELSE <<>>) \o (IF pushed THEN <<D>> ELSE <<>>)
  BY DEF Sent
<1>4. Chain /\ made <= Kept /\ pushed => cursor <= made
  BY DEF Chain, AtCursor
<1> HIDE DEF A, D, changed, pushed
<1>5. CASE changed /\ pushed
  <2>1. Sent(due) = <<A>> \o <<D>> /\ <<A>> \in Seq(Messages) /\ <<D>> \in Seq(Messages)
    BY <1>1, <1>2, <1>3, <1>5
  <2>2. /\ Sent(due) \in Seq(Messages) /\ Len(Sent(due)) = 2 /\ DOMAIN Sent(due) = {1, 2}
        /\ Sent(due)[1] = A /\ Sent(due)[2] = D
    BY <1>1, <1>2, <1>5, <2>1
  <2>3. Tells("alarms", Sent(due))
    BY <1>1, <2>2 DEF Tells
  <2>4. Chain /\ made <= Kept => FromCursor(Sent(due))
    BY <1>1, <1>2, <1>4, <1>5, <2>2 DEF FromCursor, Data, pushed
  <2> QED BY <1>1, <1>2, <1>5, <2>2, <2>3, <2>4 DEF changed, pushed
<1>6. CASE changed /\ ~pushed
  <2>1. Sent(due) = <<A>>
    BY <1>3, <1>6
  <2> QED BY <1>1, <1>6, <2>1 DEF Tells, FromCursor, Data, changed
<1>7. CASE ~changed /\ pushed
  <2>1. Sent(due) = <<D>>
    BY <1>3, <1>7
  <2>2. /\ Sent(due) \in Seq(Messages) /\ Len(Sent(due)) = 1 /\ DOMAIN Sent(due) = {1}
        /\ Sent(due)[1] = D
    BY <1>2, <1>7, <2>1
  <2>3. ~Tells("alarms", Sent(due))
    BY <1>2, <1>7, <2>2 DEF Tells
  <2>4. Chain /\ made <= Kept => FromCursor(Sent(due))
    BY <1>2, <1>4, <1>7, <2>2 DEF FromCursor, Data, pushed
  <2> QED BY <1>2, <1>7, <2>2, <2>3, <2>4 DEF changed, pushed
<1>8. CASE ~changed /\ ~pushed
  <2>1. Sent(due) = <<>>
    BY <1>3, <1>8
  <2> QED BY <1>1, <1>8, <2>1 DEF Tells, FromCursor, Data, changed
<1> QED BY <1>5, <1>6, <1>7, <1>8

\* A tick is that send.
LEMMA TickSends ==
    ASSUME NEW due \in BOOLEAN, Tick(due)
    PROVE  /\ socket = "open" /\ active' = Evaluate(sensed)
           /\ cursor' = IF due /\ cursor # Absent THEN Len(Track) ELSE cursor
           /\ Enqueue(Sent(due))
           /\ UNCHANGED <<source, step, wire, requests, socket, plotted, shown, events>>
BY DEF Tick, Sent

-----------------------------------------------------------------------------
\* What is sent keeps the types of the session.
LEMMA EnqueueTypes ==
    ASSUME DeliveryTypeOK, NEW messages \in Seq(Messages), Enqueue(messages)
    PROVE  outbox' \in Seq(Messages) /\ told' \in {"nothing", "latest", "lost"}
<1>1. outbox \in Seq(Messages) /\ told \in {"nothing", "latest", "lost"}
  BY DEF DeliveryTypeOK
<1> QED BY <1>1, SendFacts DEF Enqueue

\* A queue that is not empty, by its places.
LEMMA HeadAndTail ==
    ASSUME NEW s \in Seq(Messages), s # <<>>
    PROVE  /\ Head(s) \in Messages /\ Head(s) = s[1] /\ 1 \in DOMAIN s
           /\ Tail(s) \in Seq(Messages) /\ DOMAIN Tail(s) = 1..(Len(s) - 1)
           /\ DOMAIN s = 1..Len(s) /\ Len(s) \in Nat
           /\ \A i \in DOMAIN Tail(s) : i + 1 \in DOMAIN s /\ i + 1 > 1 /\ Tail(s)[i] = s[i + 1]
OBVIOUS

\* A queue of one.
LEMMA OneMessage ==
    ASSUME NEW m \in Messages
    PROVE  <<m>> \in Seq(Messages) /\ DOMAIN <<m>> = {1} /\ <<m>>[1] = m
OBVIOUS

\* The greetings are messages.
LEMMA Greetings == Hello \in Messages /\ Subscribed \in Messages
BY DEF Messages

\* Every step keeps the types.
LEMMA DeliveryTypesNext == DeliveryTypeOK /\ [DeliveryNext]_deliveryVars => DeliveryTypeOK'
<1> SUFFICES ASSUME DeliveryTypeOK, [DeliveryNext]_deliveryVars PROVE DeliveryTypeOK'
  OBVIOUS
<1> USE DEF source, session, browser
<1>1. CASE MakePoint \/ Sense \/ TickAlone
  BY <1>1, EvaluateAlarmed DEF MakePoint, Sense, Event, TickAlone, DeliveryTypeOK
<1>2. ASSUME NEW due \in BOOLEAN, Tick(due)
      PROVE  DeliveryTypeOK'
  <2>1. outbox' \in Seq(Messages) /\ told' \in {"nothing", "latest", "lost"}
    BY <1>2, TickSends, SentFacts, EnqueueTypes
  <2>2. Len(Track) \in Nat
    BY TrackFacts DEF DeliveryTypeOK
  <2> QED BY <1>2, <2>1, <2>2, TickSends, EvaluateAlarmed DEF DeliveryTypeOK
<1>3. CASE Write
  <2>1. outbox \in Seq(Messages) /\ wire \in Seq(Messages) /\ outbox # <<>>
    BY <1>3 DEF Write, DeliveryTypeOK
  <2>2. Append(wire, Head(outbox)) \in Seq(Messages) /\ Tail(outbox) \in Seq(Messages)
    BY <2>1, HeadAndTail
  <2> QED BY <1>3, <2>2 DEF Write, DeliveryTypeOK
<1>4. CASE Serve \/ \E s \in Steps : ChangeDetail(s)
  <2>1. <<Subscribed>> \in Seq(Messages) /\ Enqueue(<<Subscribed>>)
    BY <1>4, OneMessage, Greetings DEF Serve, ChangeDetail
  <2>2. outbox' \in Seq(Messages) /\ told' \in {"nothing", "latest", "lost"}
    BY <2>1, EnqueueTypes
  <2> QED BY <1>4, <2>2 DEF Serve, ChangeDetail, Event, DeliveryTypeOK
<1>5. CASE ReceiveData \/ ReceiveAlarms \/ ReceiveOther
  <2>1. wire \in Seq(Messages) /\ wire # <<>>
    BY <1>5 DEF ReceiveData, ReceiveAlarms, ReceiveOther, DeliveryTypeOK
  <2>2. Head(wire) \in Messages /\ Tail(wire) \in Seq(Messages)
    BY <2>1, HeadAndTail
  <2>3. CASE ReceiveData
    <3> DEFINE m == Head(wire)
    <3>1. m \in [type: {"data"}, from: Nat, step: Steps, points: Seq(Nat)]
      BY <2>2, <2>3, MessageKinds DEF ReceiveData, Data
    <3> HIDE DEF m
    <3>2. Splice(m) \in [points: Seq(Nat), step: Steps]
      <4>1. plotted \in [points: Seq(Nat), step: Steps]
        BY DEF DeliveryTypeOK
      <4>2. SubSeq(plotted.points, 1, m.from) \o m.points \in Seq(Nat) \/ m.from = 0 \/ Misses(m)
        <5>1. CASE m.from # 0 /\ ~Misses(m)
          <6>1. plotted.points \in Seq(Nat) /\ m.points \in Seq(Nat) /\ m.from \in 1..Len(plotted.points)
            BY <3>1, <4>1, <5>1 DEF Misses
          <6>2. SubSeq(plotted.points, 1, m.from) \in Seq(Nat)
            BY <6>1
          <6> QED BY <6>1, <6>2
        <5> QED BY <5>1
      <4> QED BY <3>1, <4>1, <4>2 DEF Splice, Misses
    <3>3. plotted' = Splice(m) /\ requests' \in Nat
      BY <2>3 DEF ReceiveData, m, DeliveryTypeOK
    <3> QED BY <2>2, <2>3, <3>2, <3>3 DEF ReceiveData, DeliveryTypeOK
  <2>4. CASE ReceiveAlarms
    BY <2>2, <2>4, MessageKinds DEF ReceiveAlarms, DeliveryTypeOK
  <2>5. CASE ReceiveOther
    BY <2>2, <2>5 DEF ReceiveOther, DeliveryTypeOK
  <2> QED BY <1>5, <2>3, <2>4, <2>5
<1>6. CASE Cut
  BY <1>6 DEF Cut, Event, DeliveryTypeOK
<1>8. CASE Reopen
  <2>1. <<Hello>> \in Seq(Messages)
    BY OneMessage, Greetings
  <2> QED BY <1>8, <2>1 DEF Reopen, DeliveryTypeOK
<1>7. CASE UNCHANGED deliveryVars
  BY <1>7 DEF deliveryVars, DeliveryTypeOK
<1> QED BY <1>1, <1>2, <1>3, <1>4, <1>5, <1>6, <1>7, <1>8 DEF DeliveryNext, TickQuiet, TickDue

\* At first nothing is on its way.
LEMMA ChainInit == DeliveryInit => Chain
<1> SUFFICES ASSUME DeliveryInit PROVE Chain
  OBVIOUS
<1>1. /\ plotted.points = <<>> /\ outbox = <<>> /\ wire = <<>> /\ cursor = Absent
      /\ Len(plotted.points) = 0 /\ DOMAIN outbox = {} /\ DOMAIN wire = {}
      /\ DOMAIN plotted.points = {}
  BY DEF DeliveryInit
<1> QED BY <1>1 DEF Chain, Smooth, Fits, Ordered, Across, AtCursor

\* More points do no harm.
LEMMA SmoothLater ==
    ASSUME NEW points \in Seq(Nat), NEW first, NEW s, NEW a \in Nat, NEW b \in Nat, a <= b,
           Smooth(points, first, s, a)
    PROVE  Smooth(points, first, s, b)
<1>1. \A k \in DOMAIN points : points[k] \in Nat
  OBVIOUS
<1> QED BY <1>1 DEF Smooth

\* The points of every increment in a queue are numbers.
LEMMA PointsAreNumbers ==
    ASSUME NEW messages \in Seq(Messages), NEW i \in DOMAIN messages, Data(messages[i])
    PROVE  /\ messages[i] \in [type: {"data"}, from: Nat, step: Steps, points: Seq(Nat)]
           /\ messages[i].points \in Seq(Nat)
<1>1. messages[i] \in Messages
  OBVIOUS
<1> QED BY <1>1, MessageKinds

\* A point that is made, and whatever leaves the queues alone, keeps the chain.
LEMMA MakePointKeepsChain ==
    ASSUME DeliveryTypeOK, Chain, made' = made \/ made' = made + 1,
           UNCHANGED <<wire, outbox, plotted, cursor>>
    PROVE  Chain'
<1> SUFFICES ASSUME made' <= Kept
             PROVE  /\ Smooth(plotted.points, 1, plotted.step, made')
                    /\ Fits(wire)' /\ Fits(outbox)'
                    /\ Ordered(wire)' /\ Ordered(outbox)' /\ Across(wire, outbox)'
                    /\ AtCursor'
  BY DEF Chain
<1>1. made \in Nat /\ made' \in Nat /\ made <= made' /\ made <= Kept /\ cursor \in Nat \cup {Absent}
  BY DeliveryConstants DEF DeliveryTypeOK
<1>2. /\ Smooth(plotted.points, 1, plotted.step, made)
      /\ Fits(wire) /\ Fits(outbox)
      /\ Ordered(wire) /\ Ordered(outbox) /\ Across(wire, outbox)
      /\ AtCursor
  BY <1>1 DEF Chain
<1>3. Smooth(plotted.points, 1, plotted.step, made')
  BY <1>1, <1>2, SmoothLater DEF DeliveryTypeOK
<1>4. ASSUME NEW messages \in Seq(Messages), Fits(messages)
      PROVE  \A i \in DOMAIN messages :
                Data(messages[i]) =>
                    /\ Smooth(messages[i].points, messages[i].from + 1, messages[i].step, made')
                    /\ Behind(plotted.points, messages[i].from)
  BY <1>1, <1>4, SmoothLater, PointsAreNumbers DEF Fits
<1>5. Fits(wire)' /\ Fits(outbox)'
  <2>1. wire \in Seq(Messages) /\ outbox \in Seq(Messages)
    BY DEF DeliveryTypeOK
  <2> QED BY <1>2, <1>4, <2>1 DEF Fits
<1>6. AtCursor'
  BY <1>1, <1>2 DEF AtCursor, Reached
<1>7. Ordered(wire)' /\ Ordered(outbox)' /\ Across(wire, outbox)'
  BY <1>2 DEF Ordered, Across
<1> QED BY <1>3, <1>5, <1>6, <1>7

\* A send of what starts where the cursor is, or of no increment at all; the
\* cursor stays, goes to the end of the track or back to the start.
LEMMA SendKeepsChain ==
    ASSUME DeliveryTypeOK, Chain, NEW messages \in Seq(Messages),
           made <= Kept => FromCursor(messages),
           outbox' = Send(messages), UNCHANGED <<made, wire, plotted>>,
           \/ cursor' = Absent \/ cursor' = 0 \/ cursor' = made
           \/ cursor' = cursor /\ \A k \in DOMAIN messages : ~Data(messages[k]),
           made <= Kept /\ cursor' # Absent => cursor' <= made
    PROVE  Chain'
<1> SUFFICES ASSUME made <= Kept
             PROVE  /\ Smooth(plotted.points, 1, plotted.step, made)
                    /\ Fits(wire)' /\ Fits(outbox)'
                    /\ Ordered(wire)' /\ Ordered(outbox)' /\ Across(wire, outbox)'
                    /\ AtCursor'
  BY DEF Chain
<1>1. /\ Smooth(plotted.points, 1, plotted.step, made)
      /\ Fits(wire) /\ Fits(outbox)
      /\ Ordered(wire) /\ Ordered(outbox) /\ Across(wire, outbox)
      /\ AtCursor
  BY DEF Chain
<1>2. outbox \in Seq(Messages) /\ wire \in Seq(Messages)
  BY DEF DeliveryTypeOK
<1>3. Fits(Send(messages)) /\ Ordered(Send(messages)) /\ Across(wire, Send(messages))
  BY <1>2, OutboxStaysInOrder
<1>4. /\ Fits(wire)' /\ Fits(outbox)'
      /\ Ordered(wire)' /\ Ordered(outbox)' /\ Across(wire, outbox)'
  BY <1>1, <1>3 DEF Fits, Ordered, Across
<1>5. ASSUME NEW points, NEW first, NEW s, Smooth(points, first, s, made), cursor' = made
      PROVE  Behind(points, cursor')
  BY <1>5 DEF Smooth, Behind
<1>6. AtCursor'
  <2> SUFFICES ASSUME cursor' # Absent
               PROVE  /\ cursor' <= made
                      /\ Behind(plotted.points, cursor')
                      /\ Reached(wire)' /\ Reached(outbox)'
    BY DEF AtCursor
  <2>1. CASE cursor' = 0
    BY <2>1 DEF Behind, Reached
  <2>2. CASE cursor' = made
    <3>1. Reached(wire)'
      BY <1>1, <1>5, <2>2 DEF Reached, Fits
    <3>2. Reached(outbox)'
      BY <1>3, <1>5, <2>2 DEF Reached, Fits
    <3> QED BY <1>1, <1>5, <2>2, <3>1, <3>2
  <2>3. CASE cursor' = cursor /\ \A k \in DOMAIN messages : ~Data(messages[k])
    <3>1. \A i \in DOMAIN Send(messages) :
             Data(Send(messages)[i]) => \E k \in DOMAIN outbox : Send(messages)[i] = outbox[k]
      BY <1>2, <2>3, SendOrder
    <3>2. Reached(outbox)'
      BY <1>1, <2>3, <3>1 DEF AtCursor, Reached
    <3> QED BY <1>1, <2>3, <3>2 DEF AtCursor, Reached
  <2> QED BY <2>1, <2>2, <2>3
<1> QED BY <1>1, <1>4, <1>6

\* The writer takes the first of the outbox to the end of the wire.
LEMMA WriteKeepsChain ==
    ASSUME DeliveryTypeOK, Chain, Write
    PROVE  Chain'
<1>1. /\ outbox \in Seq(Messages) /\ wire \in Seq(Messages) /\ outbox # <<>>
      /\ wire' = Append(wire, Head(outbox)) /\ outbox' = Tail(outbox)
      /\ UNCHANGED <<made, plotted, cursor>>
  BY DEF Write, DeliveryTypeOK, source, browser
<1>2. /\ \A i \in DOMAIN outbox' : i + 1 \in DOMAIN outbox /\ i + 1 > 1 /\ outbox'[i] = outbox[i + 1]
      /\ \A i, j \in DOMAIN outbox' : i < j => i + 1 < j + 1
      /\ 1 \in DOMAIN outbox
  BY <1>1, HeadAndTail
<1>3. /\ DOMAIN wire' = 1..(Len(wire) + 1) /\ DOMAIN wire = 1..Len(wire) /\ Len(wire) \in Nat
      /\ \A i \in DOMAIN wire' : \/ i \in DOMAIN wire /\ wire'[i] = wire[i]
                                 \/ i = Len(wire) + 1 /\ wire'[i] = outbox[1]
  <2>1. Head(outbox) \in Messages /\ Head(outbox) = outbox[1]
    BY <1>1, HeadAndTail
  <2> QED BY <1>1, <2>1
<1> SUFFICES ASSUME made <= Kept
             PROVE  /\ Smooth(plotted.points, 1, plotted.step, made)
                    /\ Fits(wire)' /\ Fits(outbox)'
                    /\ Ordered(wire)' /\ Ordered(outbox)' /\ Across(wire, outbox)'
                    /\ AtCursor'
  BY <1>1 DEF Chain
<1>4. /\ Smooth(plotted.points, 1, plotted.step, made)
      /\ Fits(wire) /\ Fits(outbox)
      /\ Ordered(wire) /\ Ordered(outbox) /\ Across(wire, outbox)
      /\ AtCursor
  BY DEF Chain
<1>5. Fits(wire)'
  BY <1>1, <1>2, <1>3, <1>4 DEF Fits
<1>6. Fits(outbox)'
  BY <1>1, <1>2, <1>4 DEF Fits
<1>7. Ordered(wire)'
  <2> SUFFICES ASSUME NEW i \in DOMAIN wire', NEW j \in DOMAIN wire', i < j
               PROVE  InOrder(wire'[i], wire'[j])
    BY DEF Ordered
  <2>1. i \in DOMAIN wire /\ wire'[i] = wire[i]
    BY <1>3
  <2>2. CASE j \in DOMAIN wire /\ wire'[j] = wire[j]
    BY <1>4, <2>1, <2>2 DEF Ordered
  <2>3. CASE wire'[j] = outbox[1]
    BY <1>2, <1>4, <2>1, <2>3 DEF Across
  <2> QED BY <1>3, <2>2, <2>3
<1>8. Ordered(outbox)'
  BY <1>2, <1>4 DEF Ordered
<1>9. Across(wire, outbox)'
  <2> SUFFICES ASSUME NEW i \in DOMAIN wire', NEW j \in DOMAIN outbox'
               PROVE  InOrder(wire'[i], outbox'[j])
    BY DEF Across
  <2>1. CASE i \in DOMAIN wire /\ wire'[i] = wire[i]
    BY <1>2, <1>4, <2>1 DEF Across
  <2>2. CASE wire'[i] = outbox[1]
    <3>1. j + 1 \in DOMAIN outbox /\ 1 < j + 1 /\ outbox'[j] = outbox[j + 1]
      BY <1>1, <1>2, HeadAndTail
    <3> QED BY <1>2, <1>4, <2>2, <3>1 DEF Ordered
  <2> QED BY <1>3, <2>1, <2>2
<1>10. AtCursor'
  BY <1>1, <1>2, <1>3, <1>4 DEF AtCursor, Reached
<1> QED BY <1>4, <1>5, <1>6, <1>7, <1>8, <1>9, <1>10

\* What the browser takes off the wire, whether it changes what is shown or not.
LEMMA ReceiveKeepsChain ==
    ASSUME DeliveryTypeOK, Chain, wire # <<>>, wire' = Tail(wire),
           UNCHANGED <<made, outbox, cursor>>,
           \/ Data(Head(wire)) /\ plotted' = Splice(Head(wire))
           \/ UNCHANGED plotted
    PROVE  Chain'
<1>1. /\ outbox \in Seq(Messages) /\ wire \in Seq(Messages) /\ made \in Nat
      /\ plotted \in [points: Seq(Nat), step: Steps]
  BY DEF DeliveryTypeOK
<1>2. /\ \A i \in DOMAIN wire' : i + 1 \in DOMAIN wire /\ i + 1 > 1 /\ wire'[i] = wire[i + 1]
      /\ \A i, j \in DOMAIN wire' : i < j => i + 1 < j + 1
      /\ 1 \in DOMAIN wire /\ Head(wire) = wire[1] /\ Head(wire) \in Messages
  BY <1>1, HeadAndTail
<1> SUFFICES ASSUME made <= Kept
             PROVE  /\ Smooth(plotted'.points, 1, plotted'.step, made)
                    /\ Fits(wire)' /\ Fits(outbox)'
                    /\ Ordered(wire)' /\ Ordered(outbox)' /\ Across(wire, outbox)'
                    /\ AtCursor'
  BY DEF Chain
<1>3. /\ Smooth(plotted.points, 1, plotted.step, made)
      /\ Fits(wire) /\ Fits(outbox)
      /\ Ordered(wire) /\ Ordered(outbox) /\ Across(wire, outbox)
      /\ AtCursor
  BY DEF Chain
<1>4. /\ Smooth(plotted'.points, 1, plotted'.step, made)
      /\ \A f : Behind(plotted.points, f) /\ (Data(wire[1]) => Behind(wire[1].points, f))
                => Behind(plotted'.points, f)
  <2>1. CASE UNCHANGED plotted
    BY <1>3, <2>1
  <2>2. CASE Data(wire[1]) /\ plotted' = Splice(wire[1])
    <3>1. wire[1] \in [type: {"data"}, from: Nat, step: Steps, points: Seq(Nat)]
      BY <1>2, <2>2, MessageKinds
    <3>2. /\ Smooth(wire[1].points, wire[1].from + 1, wire[1].step, made)
          /\ Behind(plotted.points, wire[1].from)
      BY <1>2, <1>3, <2>2 DEF Fits
    <3> QED BY <1>1, <1>3, <2>2, <3>1, <3>2, SpliceFacts
  <2> QED BY <1>2, <2>1, <2>2
<1>5. Fits(wire)'
  <2> SUFFICES ASSUME NEW i \in DOMAIN wire', Data(wire'[i])
               PROVE  /\ Smooth(wire'[i].points, wire'[i].from + 1, wire'[i].step, made)
                      /\ Behind(plotted'.points, wire'[i].from)
    BY DEF Fits
  <2>1. /\ i + 1 \in DOMAIN wire /\ 1 < i + 1 /\ wire'[i] = wire[i + 1]
    BY <1>1, <1>2, HeadAndTail
  <2>2. InOrder(wire[1], wire[i + 1])
    BY <1>2, <1>3, <2>1 DEF Ordered
  <2>3. /\ Smooth(wire[i + 1].points, wire[i + 1].from + 1, wire[i + 1].step, made)
        /\ Behind(plotted.points, wire[i + 1].from)
    BY <1>3, <2>1 DEF Fits
  <2> QED BY <1>4, <2>1, <2>2, <2>3 DEF InOrder
<1>6. Fits(outbox)'
  <2> SUFFICES ASSUME NEW i \in DOMAIN outbox, Data(outbox[i])
               PROVE  /\ Smooth(outbox[i].points, outbox[i].from + 1, outbox[i].step, made)
                      /\ Behind(plotted'.points, outbox[i].from)
    BY DEF Fits
  <2>1. InOrder(wire[1], outbox[i])
    BY <1>2, <1>3 DEF Across
  <2> QED BY <1>3, <1>4, <2>1 DEF InOrder, Fits
<1>7. Ordered(wire)'
  BY <1>2, <1>3 DEF Ordered
<1>8. Ordered(outbox)' /\ Across(wire, outbox)'
  BY <1>2, <1>3 DEF Ordered, Across
<1>9. AtCursor'
  BY <1>2, <1>3, <1>4 DEF AtCursor, Reached
<1> QED BY <1>4, <1>5, <1>6, <1>7, <1>8, <1>9

\* The reply to a subscription carries neither points nor alarms.
LEMMA SubscribedIsNoIncrement ==
    /\ <<Subscribed>> \in Seq(Messages)
    /\ FromCursor(<<Subscribed>>)
    /\ \A k \in DOMAIN <<Subscribed>> : ~Data(<<Subscribed>>[k])
    /\ ~Tells("alarms", <<Subscribed>>)
<1>1. /\ <<Subscribed>> \in Seq(Messages) /\ DOMAIN <<Subscribed>> = {1}
      /\ <<Subscribed>>[1] = Subscribed
  BY OneMessage, Greetings
<1>2. Subscribed.type = "subscribed"
  BY DEF Subscribed
<1> QED BY <1>1, <1>2 DEF FromCursor, Data, Tells

\* Every step keeps the chain.
LEMMA ChainNext == DeliveryTypeOK /\ Chain /\ [DeliveryNext]_deliveryVars => Chain'
<1> SUFFICES ASSUME DeliveryTypeOK, Chain, [DeliveryNext]_deliveryVars PROVE Chain'
  OBVIOUS
<1> USE DEF source, session, browser
<1>1. CASE MakePoint \/ Sense \/ TickAlone \/ UNCHANGED deliveryVars
  BY <1>1, MakePointKeepsChain DEF MakePoint, Sense, TickAlone, deliveryVars
<1>2. ASSUME NEW due \in BOOLEAN, Tick(due)
      PROVE  Chain'
  <2>1. /\ outbox' = Send(Sent(due)) /\ UNCHANGED <<made, wire, plotted>>
        /\ cursor' = IF due /\ cursor # Absent THEN Len(Track) ELSE cursor
    BY <1>2, TickSends DEF Enqueue
  <2>2. Sent(due) \in Seq(Messages) /\ (made <= Kept => FromCursor(Sent(due)))
    BY SentFacts
  <2>3. made \in Nat
    BY DEF DeliveryTypeOK
  <2>4. CASE made > Kept
    <3>1. ~(made' <= Kept)
      BY <2>1, <2>3, <2>4, DeliveryConstants
    <3> QED BY <3>1 DEF Chain
  <2>5. CASE made <= Kept /\ due /\ cursor # Absent
    <3>1. cursor' = made
      BY <2>1, <2>3, <2>5, TrackFacts
    <3> QED BY <2>1, <2>2, <2>3, <3>1, SendKeepsChain
  <2>6. CASE made <= Kept /\ ~(due /\ cursor # Absent)
    <3>1. \A k \in DOMAIN Sent(due) : ~Data(Sent(due)[k])
      BY <2>6, SentFacts
    <3>2. cursor' = cursor /\ (cursor # Absent => cursor <= made)
      BY <2>1, <2>6 DEF Chain, AtCursor
    <3> QED BY <2>1, <2>2, <3>1, <3>2, SendKeepsChain
  <2> QED BY <2>3, <2>4, <2>5, <2>6, DeliveryConstants
<1>3. CASE Write
  BY <1>3, WriteKeepsChain
<1>4. CASE Serve \/ \E s \in Steps : ChangeDetail(s)
  <2>1. /\ outbox' = Send(<<Subscribed>>) /\ UNCHANGED <<made, wire, plotted>>
        /\ cursor' = 0 \/ cursor' = Absent
    BY <1>4 DEF Serve, ChangeDetail, Enqueue
  <2>2. cursor' # Absent => cursor' <= made
    BY <2>1 DEF DeliveryTypeOK
  <2> QED BY <2>1, <2>2, SubscribedIsNoIncrement, SendKeepsChain
<1>5. CASE ReceiveData \/ ReceiveAlarms \/ ReceiveOther
  BY <1>5, ReceiveKeepsChain DEF ReceiveData, ReceiveAlarms, ReceiveOther, Data
<1>6. CASE Cut
  <2>1. /\ UNCHANGED <<made, plotted>> /\ cursor' = Absent /\ outbox' = <<>> /\ wire' = <<>>
        /\ DOMAIN outbox' = {} /\ DOMAIN wire' = {}
    BY <1>6 DEF Cut
  <2> QED BY <2>1 DEF Chain, Fits, Ordered, Across, AtCursor
<1>7. CASE Reopen
  <2>1. UNCHANGED <<made, plotted, cursor, outbox>> /\ wire' = <<Hello>>
    BY <1>7 DEF Reopen
  <2>2. \A i \in DOMAIN wire' : ~Data(wire'[i])
    BY <2>1, OneMessage, Greetings DEF Hello, Data
  <2> QED BY <2>1, <2>2 DEF Chain, Fits, Ordered, Across, InOrder, AtCursor, Reached
<1> QED BY <1>1, <1>2, <1>3, <1>4, <1>5, <1>6, <1>7 DEF DeliveryNext, TickQuiet, TickDue

\* Every variable of the delivery keeps its type.
THEOREM DeliveryTypeCorrect == DeliverySpec => []DeliveryTypeOK
<1>1. DeliveryTypeOK /\ [DeliveryNext]_deliveryVars => DeliveryTypeOK'
  BY DeliveryTypesNext
<1> QED BY <1>1, DeliveryTypesInit, PTL DEF DeliverySpec

\* Whatever the outbox drops, the socket cuts off or the browser asks for again, the
\* track on the screen has no hole: #accumulate never splices what does not follow.
THEOREM NoHoleHolds == DeliverySpec => []NoHole
<1>1. DeliveryTypeOK /\ Chain => NoHole
  BY DEF Chain, Smooth, NoHole
<1> QED BY <1>1, DeliveryTypeCorrect, ChainInit, ChainNext, PTL DEF DeliverySpec

-----------------------------------------------------------------------------
\* No two alarms of one key.
OneOfAKey(alarms) == \A a, b \in alarms : a.key = b.key => a = b

\* An alarm under a condition is that alarm or none.
LEMMA WhenOne ==
    ASSUME NEW condition, NEW key, NEW severity, NEW value
    PROVE  /\ When(condition, key, severity, value) \subseteq {Alarm(key, severity, value)}
           /\ Alarm(key, severity, value).key = key
BY DEF When, Alarm

\* Of two levels of one reading, at most one is alarmed.
LEMMA EscalatingOne ==
    ASSUME NEW value, NEW alarms, NEW warns, NEW high, NEW low
    PROVE  /\ OneOfAKey(Escalating(value, alarms, warns, high, low))
           /\ \A a, b \in Escalating(value, alarms, warns, high, low) : a = b
           /\ \A a \in Escalating(value, alarms, warns, high, low) : a.key \in {high, low}
<1> DEFINE some == Escalating(value, alarms, warns, high, low)
<1>1. \/ some = {}
      \/ some = {Alarm(high, "alarm", value)}
      \/ some = {Alarm(low, "warn", value)}
  BY DEF Escalating, When
<1>2. Alarm(high, "alarm", value).key = high /\ Alarm(low, "warn", value).key = low
  BY DEF Alarm
<1> HIDE DEF some
<1>3. \A a, b \in some : a = b
  BY <1>1
<1>4. \A a \in some : a.key \in {high, low}
  BY <1>1, <1>2
<1> QED BY <1>3, <1>4 DEF OneOfAKey, some

\* Each section of evaluate has keys of its own and gives no key twice.
LEMMA SectionKeys ==
    ASSUME NEW r
    PROVE  /\ OneOfAKey(LinkAlarms(r)) /\ Keys(LinkAlarms(r)) \subseteq {"link_lost"}
           /\ OneOfAKey(PowerAlarms(r))
           /\ Keys(PowerAlarms(r)) \subseteq {"battery_critical", "battery_low", "endurance_short"}
           /\ OneOfAKey(RecordingAlarms(r))
           /\ Keys(RecordingAlarms(r)) \subseteq {"disk_low", "recording_stopped"}
           /\ OneOfAKey(SonarAlarms(r))
           /\ Keys(SonarAlarms(r)) \subseteq {"sonar_unresponsive", "clock_drift"}
           /\ OneOfAKey(HeadingAlarms(r))
           /\ Keys(HeadingAlarms(r)) \subseteq {"heading_invalid", "heading_divergence"}
           /\ OneOfAKey(RollAlarms(r)) /\ Keys(RollAlarms(r)) \subseteq {"roll_excessive", "roll_high"}
           /\ OneOfAKey(FenceAlarms(r)) /\ Keys(FenceAlarms(r)) \subseteq {"geofence_approach"}
           /\ OneOfAKey(RadioAlarms(r)) /\ Keys(RadioAlarms(r)) \subseteq {"rc_link_lost"}
<1>1. OneOfAKey(LinkAlarms(r)) /\ Keys(LinkAlarms(r)) \subseteq {"link_lost"}
  BY WhenOne DEF LinkAlarms, OneOfAKey, Keys
<1>2. /\ OneOfAKey(PowerAlarms(r))
      /\ Keys(PowerAlarms(r)) \subseteq {"battery_critical", "battery_low", "endurance_short"}
  <2> DEFINE charge == Escalating(r.soc, r.soc <= battery_critical_soc, r.soc <= battery_low_soc,
                                  "battery_critical", "battery_low")
             endurance == When(r.can_finish = FALSE, "endurance_short", "warn", Absent)
  <2>1. /\ \A a, b \in charge : a = b
        /\ \A a \in charge : a.key \in {"battery_critical", "battery_low"}
    BY EscalatingOne
  <2>2. \A a \in endurance : a = Alarm("endurance_short", "warn", Absent) /\ a.key = "endurance_short"
    BY WhenOne
  <2>3. PowerAlarms(r) = charge \cup endurance
    BY DEF PowerAlarms
  <2> HIDE DEF charge, endurance
  <2> QED BY <2>1, <2>2, <2>3 DEF OneOfAKey, Keys
<1>3. /\ OneOfAKey(RecordingAlarms(r))
      /\ Keys(RecordingAlarms(r)) \subseteq {"disk_low", "recording_stopped"}
  <2> DEFINE low == When(r.recording /\ r.disk_free # Absent /\ r.disk_free < disk_low_bytes,
                         "disk_low", "alarm", r.disk_free)
             stopped == When(r.recording_error # Absent, "recording_stopped", "alarm",
                             r.recording_error)
  <2>1. /\ \A a \in low : a = Alarm("disk_low", "alarm", r.disk_free) /\ a.key = "disk_low"
        /\ \A a \in stopped : /\ a = Alarm("recording_stopped", "alarm", r.recording_error)
                              /\ a.key = "recording_stopped"
    BY WhenOne
  <2>2. RecordingAlarms(r) = low \cup stopped
    BY DEF RecordingAlarms
  <2> HIDE DEF low, stopped
  <2> QED BY <2>1, <2>2 DEF OneOfAKey, Keys
<1>4. /\ OneOfAKey(SonarAlarms(r))
      /\ Keys(SonarAlarms(r)) \subseteq {"sonar_unresponsive", "clock_drift"}
  <2> DEFINE silent == When(\/ ~r.sonar_connected
                            \/ r.sonar_silent # Absent /\ r.sonar_silent > sonar_silent_s,
                            "sonar_unresponsive", "alarm", Absent)
             drift == Escalating(r.clock_offset,
                                 Abs(r.clock_offset) >= clock_offset_alarm_ms,
                                 Abs(r.clock_offset) >= clock_offset_warn_ms,
                                 "clock_drift", "clock_drift")
  <2>1. \A a \in silent : /\ a = Alarm("sonar_unresponsive", "alarm", Absent)
                          /\ a.key = "sonar_unresponsive"
    BY DEF When, Alarm
  <2>2. /\ \A a, b \in drift : a = b
        /\ \A a \in drift : a.key = "clock_drift"
    BY EscalatingOne
  <2>3. SonarAlarms(r) \subseteq silent \cup drift
    BY DEF SonarAlarms
  <2> HIDE DEF silent, drift
  <2> QED BY <2>1, <2>2, <2>3 DEF OneOfAKey, Keys
<1>5. /\ OneOfAKey(HeadingAlarms(r))
      /\ Keys(HeadingAlarms(r)) \subseteq {"heading_invalid", "heading_divergence"}
  <2> DEFINE divergence == When(r.divergence # Absent, "heading_divergence", "warn", r.divergence)
  <2>1. \A a \in divergence : /\ a = Alarm("heading_divergence", "warn", r.divergence)
                              /\ a.key = "heading_divergence"
    BY WhenOne
  <2>2. \/ HeadingAlarms(r) = {Alarm("heading_invalid", "alarm", Absent)}
        \/ HeadingAlarms(r) = divergence
    BY DEF HeadingAlarms
  <2>3. Alarm("heading_invalid", "alarm", Absent).key = "heading_invalid"
    BY DEF Alarm
  <2> HIDE DEF divergence
  <2> QED BY <2>1, <2>2, <2>3 DEF OneOfAKey, Keys
<1>6. OneOfAKey(RollAlarms(r)) /\ Keys(RollAlarms(r)) \subseteq {"roll_excessive", "roll_high"}
  BY EscalatingOne DEF RollAlarms, Keys
<1>7. OneOfAKey(FenceAlarms(r)) /\ Keys(FenceAlarms(r)) \subseteq {"geofence_approach"}
  BY WhenOne DEF FenceAlarms, OneOfAKey, Keys
<1>8. OneOfAKey(RadioAlarms(r)) /\ Keys(RadioAlarms(r)) \subseteq {"rc_link_lost"}
  BY WhenOne DEF RadioAlarms, OneOfAKey, Keys
<1> QED BY <1>1, <1>2, <1>3, <1>4, <1>5, <1>6, <1>7, <1>8

\* Alarms of separate keys, together.
LEMMA SeparateKeys ==
    ASSUME NEW S, NEW T, NEW kS, NEW kT, OneOfAKey(S), OneOfAKey(T),
           Keys(S) \subseteq kS, Keys(T) \subseteq kT, kS \cap kT = {}
    PROVE  OneOfAKey(S \cup T) /\ Keys(S \cup T) \subseteq kS \cup kT
<1>1. /\ \A a \in S : a.key \in kS
      /\ \A a \in T : a.key \in kT
  BY DEF Keys
<1> QED BY <1>1 DEF OneOfAKey, Keys

\* So evaluate gives no key twice.
LEMMA EvaluateOneOfAKey == ASSUME NEW r PROVE OneOfAKey(Evaluate(r))
<1> DEFINE heard == LinkAlarms(r) \cup PowerAlarms(r)
           record == RecordingAlarms(r) \cup SonarAlarms(r)
           attitude == HeadingAlarms(r) \cup RollAlarms(r)
           remote == FenceAlarms(r) \cup RadioAlarms(r)
           below == heard \cup record
           above == attitude \cup remote
           kHeard == {"link_lost"} \cup {"battery_critical", "battery_low", "endurance_short"}
           kRecord == {"disk_low", "recording_stopped"} \cup {"sonar_unresponsive", "clock_drift"}
           kAttitude == {"heading_invalid", "heading_divergence"} \cup {"roll_excessive", "roll_high"}
           kRemote == {"geofence_approach"} \cup {"rc_link_lost"}
           kBelow == kHeard \cup kRecord
           kAbove == kAttitude \cup kRemote
<1>1. OneOfAKey(heard) /\ Keys(heard) \subseteq kHeard
  <2>1. /\ OneOfAKey(LinkAlarms(r)) /\ Keys(LinkAlarms(r)) \subseteq {"link_lost"}
        /\ OneOfAKey(PowerAlarms(r))
        /\ Keys(PowerAlarms(r)) \subseteq {"battery_critical", "battery_low", "endurance_short"}
    BY SectionKeys
  <2>2. /\ \A a \in LinkAlarms(r) : a.key = "link_lost"
        /\ \A a \in PowerAlarms(r) : a.key \in {"battery_critical", "battery_low", "endurance_short"}
    BY <2>1 DEF Keys
  <2> QED BY <2>1, <2>2 DEF OneOfAKey, Keys
<1>2. OneOfAKey(record) /\ Keys(record) \subseteq kRecord
  <2>1. /\ OneOfAKey(RecordingAlarms(r)) /\ OneOfAKey(SonarAlarms(r))
        /\ Keys(RecordingAlarms(r)) \subseteq {"disk_low", "recording_stopped"}
        /\ Keys(SonarAlarms(r)) \subseteq {"sonar_unresponsive", "clock_drift"}
    BY SectionKeys
  <2>2. /\ \A a \in RecordingAlarms(r) : a.key \in {"disk_low", "recording_stopped"}
        /\ \A a \in SonarAlarms(r) : a.key \in {"sonar_unresponsive", "clock_drift"}
    BY <2>1 DEF Keys
  <2> QED BY <2>1, <2>2 DEF OneOfAKey, Keys
<1>3. OneOfAKey(attitude) /\ Keys(attitude) \subseteq kAttitude
  <2>1. /\ OneOfAKey(HeadingAlarms(r)) /\ OneOfAKey(RollAlarms(r))
        /\ Keys(HeadingAlarms(r)) \subseteq {"heading_invalid", "heading_divergence"}
        /\ Keys(RollAlarms(r)) \subseteq {"roll_excessive", "roll_high"}
    BY SectionKeys
  <2>2. /\ \A a \in HeadingAlarms(r) : a.key \in {"heading_invalid", "heading_divergence"}
        /\ \A a \in RollAlarms(r) : a.key \in {"roll_excessive", "roll_high"}
    BY <2>1 DEF Keys
  <2> QED BY <2>1, <2>2 DEF OneOfAKey, Keys
<1>4. OneOfAKey(remote) /\ Keys(remote) \subseteq kRemote
  BY SectionKeys DEF OneOfAKey, Keys
<1>5. /\ kHeard \cap kRecord = {} /\ kAttitude \cap kRemote = {}
      /\ kBelow \cap kAbove = {}
  OBVIOUS
<1>6. Evaluate(r) = below \cup above
  BY DEF Evaluate
<1> HIDE DEF heard, record, attitude, remote, kHeard, kRecord, kAttitude, kRemote
<1>7. OneOfAKey(below) /\ Keys(below) \subseteq kBelow
  BY <1>1, <1>2, <1>5, SeparateKeys, Zenon
<1>8. OneOfAKey(above) /\ Keys(above) \subseteq kAbove
  BY <1>3, <1>4, <1>5, SeparateKeys, Zenon
<1> HIDE DEF below, above, kBelow, kAbove
<1>9. OneOfAKey(below \cup above)
  BY <1>5, <1>7, <1>8, SeparateKeys, Zenon
<1> QED BY <1>6, <1>9

\* A tick that finds nothing raised and nothing cleared finds the same alarms.
LEMMA NoDifference ==
    ASSUME NEW before \in Alarmed, NEW now,
           Diff(before, now).raised = {}, Diff(before, now).cleared = {}
    PROVE  now = before
<1>1. OneOfAKey(before)
  BY EvaluateOneOfAKey DEF Alarmed, OneOfAKey
<1>2. now \subseteq before /\ Keys(before) \subseteq Keys(now)
  BY DEF Diff
<1>3. ASSUME NEW a \in before PROVE a \in now
  <2>1. PICK b \in now : b.key = a.key
    BY <1>2 DEF Keys
  <2> QED BY <1>1, <1>2, <2>1 DEF OneOfAKey
<1> QED BY <1>2, <1>3

-----------------------------------------------------------------------------
\* The last word on the alarms among these messages, if there is one, is this.
LastSays(messages, alarms) ==
    \A i \in DOMAIN messages :
        /\ messages[i].type = "alarms"
        /\ \A j \in DOMAIN messages : j > i => messages[j].type # "alarms"
        => messages[i].active = alarms

\* What the session was last told of the alarms is what they are, wherever that
\* message is now.
LastTold ==
    /\ told # "latest" => ~Tells("alarms", outbox)
    /\ socket = "closed" => told = "nothing"
    /\ told = "latest" =>
          /\ LastSays(outbox, active)
          /\ ~Tells("alarms", outbox) => LastSays(wire, active)
          /\ ~InFlight("alarms") => shown = active

\* A queue tells what its parts tell.
LEMMA TellsAll ==
    ASSUME outbox \in Seq(Messages), NEW messages \in Seq(Messages)
    PROVE  /\ Tells("alarms", outbox \o messages)
                 <=> Tells("alarms", outbox) \/ Tells("alarms", messages)
           /\ Tells("alarms", Send(messages))
                 => Tells("alarms", outbox) \/ Tells("alarms", messages)
<1> DEFINE all == outbox \o messages
<1>1. /\ DOMAIN outbox = 1..Len(outbox) /\ DOMAIN messages = 1..Len(messages)
      /\ DOMAIN all = 1..(Len(outbox) + Len(messages))
      /\ Len(outbox) \in Nat /\ Len(messages) \in Nat
      /\ \A i \in 1..(Len(outbox) + Len(messages)) :
            all[i] = IF i <= Len(outbox) THEN outbox[i] ELSE messages[i - Len(outbox)]
  OBVIOUS
<1> HIDE DEF all
<1>2. ASSUME NEW i \in DOMAIN outbox PROVE i \in DOMAIN all /\ all[i] = outbox[i]
  BY <1>1
<1>3. ASSUME NEW i \in DOMAIN messages
      PROVE  i + Len(outbox) \in DOMAIN all /\ all[i + Len(outbox)] = messages[i]
  BY <1>1
<1>4. ASSUME NEW i \in DOMAIN all
      PROVE  \/ i \in DOMAIN outbox /\ all[i] = outbox[i]
             \/ i - Len(outbox) \in DOMAIN messages /\ all[i] = messages[i - Len(outbox)]
  BY <1>1
<1>5. Tells("alarms", all) <=> Tells("alarms", outbox) \/ Tells("alarms", messages)
  BY <1>2, <1>3, <1>4 DEF Tells
<1>6. Tells("alarms", Send(messages)) => Tells("alarms", outbox) \/ Tells("alarms", messages)
  BY SendOrder DEF Tells
<1> QED BY <1>5, <1>6 DEF all

\* After a send the last word is that of what was sent or, if that tells nothing,
\* the one before.
LEMMA SendSays ==
    ASSUME outbox \in Seq(Messages), NEW messages \in Seq(Messages), NEW alarms,
           \A k \in DOMAIN messages : messages[k].type = "alarms" => messages[k].active = alarms,
           ~Tells("alarms", messages) => LastSays(outbox, alarms)
    PROVE  LastSays(Send(messages), alarms)
<1> DEFINE box == Send(messages)
<1>1. PICK cut \in 0..(Len(outbox) + Len(messages)) :
         /\ Len(box) = Len(outbox) + Len(messages) - cut
         /\ \A i \in 1..Len(box) :
               box[i] = IF i + cut <= Len(outbox) THEN outbox[i + cut]
                        ELSE messages[i + cut - Len(outbox)]
  BY SendFacts
<1>2. box \in Seq(Messages)
  BY SendFacts
<1> SUFFICES ASSUME NEW i \in DOMAIN box, box[i].type = "alarms",
                    \A j \in DOMAIN box : j > i => box[j].type # "alarms"
             PROVE  box[i].active = alarms
  BY DEF LastSays
<1> HIDE DEF box
<1>3. /\ DOMAIN box = 1..Len(box) /\ DOMAIN outbox = 1..Len(outbox)
      /\ DOMAIN messages = 1..Len(messages)
      /\ Len(box) \in Nat /\ Len(outbox) \in Nat /\ Len(messages) \in Nat
  BY <1>2
<1>4. CASE i + cut > Len(outbox)
  <2>1. i + cut - Len(outbox) \in DOMAIN messages /\ box[i] = messages[i + cut - Len(outbox)]
    BY <1>1, <1>3, <1>4
  <2> QED BY <2>1
<1>5. CASE i + cut <= Len(outbox)
  <2>1. i + cut \in DOMAIN outbox /\ box[i] = outbox[i + cut]
    BY <1>1, <1>3, <1>5
  <2>2. ASSUME NEW l \in DOMAIN messages PROVE messages[l].type # "alarms"
    <3> DEFINE j == Len(outbox) + l - cut
    <3>1. j \in DOMAIN box /\ j > i /\ ~(j + cut <= Len(outbox)) /\ j + cut - Len(outbox) = l
      BY <1>1, <1>3, <1>5
    <3> HIDE DEF j
    <3>2. box[j] = messages[l]
      BY <1>1, <1>3, <3>1
    <3> QED BY <3>1, <3>2
  <2>3. ASSUME NEW k \in DOMAIN outbox, k > i + cut PROVE outbox[k].type # "alarms"
    <3> DEFINE j == k - cut
    <3>1. j \in DOMAIN box /\ j > i /\ j + cut <= Len(outbox) /\ j + cut = k
      BY <1>1, <1>3, <2>3
    <3> HIDE DEF j
    <3>2. box[j] = outbox[k]
      BY <1>1, <1>3, <3>1
    <3> QED BY <3>1, <3>2
  <2>4. LastSays(outbox, alarms)
    BY <2>2 DEF Tells
  <2> QED BY <2>1, <2>3, <2>4 DEF LastSays
<1> QED BY <1>3, <1>4, <1>5

\* What goes into the outbox keeps the last word when it tells the alarms as they
\* now are, or tells nothing and they are as before.
LEMMA EnqueueKeepsTold ==
    ASSUME DeliveryTypeOK, LastTold, NEW messages \in Seq(Messages), Enqueue(messages),
           \A k \in DOMAIN messages : messages[k].type = "alarms" => messages[k].active = active',
           ~Tells("alarms", messages) => active' = active,
           socket = "open" \/ ~Tells("alarms", messages),
           UNCHANGED <<wire, socket, shown>>
    PROVE  LastTold'
<1>1. outbox \in Seq(Messages) /\ outbox' = Send(messages)
  BY DEF DeliveryTypeOK, Enqueue
<1>2. CASE Tells("alarms", Send(messages))
  <2>1. told' = "latest" /\ Tells("alarms", outbox')
    BY <1>1, <1>2 DEF Enqueue
  <2>2. ~Tells("alarms", messages) => told = "latest" /\ LastSays(outbox, active')
    BY <1>1, <1>2, TellsAll DEF LastTold
  <2>3. LastSays(outbox', active')
    BY <1>1, <2>2, SendSays
  <2>4. socket' = "open"
    BY <2>2 DEF LastTold, DeliveryTypeOK
  <2> QED BY <2>1, <2>3, <2>4 DEF LastTold, InFlight, Tells
<1>3. CASE ~Tells("alarms", Send(messages)) /\ Tells("alarms", outbox \o messages)
  <2>1. told' = "lost" /\ ~Tells("alarms", outbox')
    BY <1>1, <1>3 DEF Enqueue
  <2>2. socket' = "open"
    BY <1>1, <1>3, TellsAll DEF LastTold, DeliveryTypeOK
  <2> QED BY <2>1, <2>2 DEF LastTold, Tells
<1>4. CASE ~Tells("alarms", Send(messages)) /\ ~Tells("alarms", outbox \o messages)
  <2>1. told' = told /\ ~Tells("alarms", outbox') /\ ~Tells("alarms", outbox) /\ active' = active
    BY <1>1, <1>4, TellsAll DEF Enqueue
  <2>2. LastSays(outbox', active')
    BY <2>1 DEF LastSays, Tells
  <2> QED BY <2>1, <2>2 DEF LastTold, InFlight, Tells, LastSays
<1> QED BY <1>2, <1>3, <1>4

\* The writer takes the word along.
LEMMA WriteKeepsTold ==
    ASSUME DeliveryTypeOK, LastTold, Write
    PROVE  LastTold'
<1>1. /\ outbox \in Seq(Messages) /\ wire \in Seq(Messages) /\ outbox # <<>>
      /\ wire' = Append(wire, Head(outbox)) /\ outbox' = Tail(outbox)
      /\ UNCHANGED <<active, socket, shown, told>>
  BY DEF Write, DeliveryTypeOK, source, browser
<1>2. /\ DOMAIN outbox = 1..Len(outbox) /\ Len(outbox) \in Nat /\ 1 \in DOMAIN outbox
      /\ DOMAIN outbox' = 1..(Len(outbox) - 1)
      /\ \A i \in DOMAIN outbox' : i + 1 \in DOMAIN outbox /\ outbox'[i] = outbox[i + 1]
  BY <1>1, HeadAndTail
<1>3. /\ DOMAIN wire' = 1..(Len(wire) + 1) /\ DOMAIN wire = 1..Len(wire) /\ Len(wire) \in Nat
      /\ \A i \in DOMAIN wire : wire'[i] = wire[i]
      /\ wire'[Len(wire) + 1] = outbox[1]
  <2>1. Head(outbox) \in Messages /\ Head(outbox) = outbox[1]
    BY <1>1, HeadAndTail
  <2> QED BY <1>1, <2>1
<1>4. \A k \in DOMAIN outbox : k > 1 => k - 1 \in DOMAIN outbox' /\ outbox'[k - 1] = outbox[k]
  BY <1>2
<1>5. Tells("alarms", outbox') => Tells("alarms", outbox)
  BY <1>2 DEF Tells
<1>6. Tells("alarms", wire) \/ Tells("alarms", outbox)
      => Tells("alarms", wire') \/ Tells("alarms", outbox')
  <2>1. ASSUME NEW k \in DOMAIN outbox, outbox[k].type = "alarms"
        PROVE  Tells("alarms", wire') \/ Tells("alarms", outbox')
    <3>1. CASE k = 1
      <4>1. Len(wire) + 1 \in DOMAIN wire'
        BY <1>3
      <4> QED BY <1>3, <2>1, <3>1, <4>1 DEF Tells
    <3>2. CASE k > 1
      BY <1>4, <2>1, <3>2 DEF Tells
    <3> QED BY <1>2, <3>1, <3>2
  <2>2. \A i \in DOMAIN wire : i \in DOMAIN wire'
    BY <1>3
  <2> QED BY <1>3, <2>1, <2>2 DEF Tells
<1> SUFFICES ASSUME told = "latest"
             PROVE  /\ LastSays(outbox', active)
                    /\ ~Tells("alarms", outbox') => LastSays(wire', active)
  BY <1>1, <1>5, <1>6 DEF LastTold, InFlight, Tells, LastSays
<1>7. LastSays(outbox, active) /\ (~Tells("alarms", outbox) => LastSays(wire, active))
  BY DEF LastTold
<1>8. LastSays(outbox', active)
  <2> SUFFICES ASSUME NEW i \in DOMAIN outbox', outbox'[i].type = "alarms",
                      \A j \in DOMAIN outbox' : j > i => outbox'[j].type # "alarms"
               PROVE  outbox'[i].active = active
    BY DEF LastSays
  <2>1. i + 1 \in DOMAIN outbox /\ outbox'[i] = outbox[i + 1] /\ i \in Nat
    BY <1>2
  <2>2. ASSUME NEW j \in DOMAIN outbox, j > i + 1 PROVE outbox[j].type # "alarms"
    <3>1. j > 1 /\ j - 1 > i
      BY <1>2, <2>1, <2>2
    <3> QED BY <1>4, <3>1
  <2> QED BY <1>7, <2>1, <2>2 DEF LastSays
<1>9. ASSUME ~Tells("alarms", outbox')
      PROVE  LastSays(wire', active)
  <2> SUFFICES ASSUME NEW i \in DOMAIN wire', wire'[i].type = "alarms",
                      \A j \in DOMAIN wire' : j > i => wire'[j].type # "alarms"
               PROVE  wire'[i].active = active
    BY DEF LastSays
  <2>1. \A k \in DOMAIN outbox : k > 1 => outbox[k].type # "alarms"
    BY <1>4, <1>9 DEF Tells
  <2>2. CASE i = Len(wire) + 1
    <3>1. wire'[i] = outbox[1]
      BY <1>3, <2>2
    <3> QED BY <1>2, <1>7, <2>1, <3>1 DEF LastSays
  <2>3. CASE i \in DOMAIN wire
    <3>1. Len(wire) + 1 \in DOMAIN wire' /\ Len(wire) + 1 > i
      BY <1>3, <2>3
    <3>2. outbox[1].type # "alarms"
      BY <1>3, <3>1
    <3>3. ~Tells("alarms", outbox)
      BY <1>2, <2>1, <3>2 DEF Tells
    <3>4. \A j \in DOMAIN wire : j > i => wire[j].type # "alarms"
      BY <1>3
    <3> QED BY <1>3, <1>7, <2>3, <3>3, <3>4 DEF LastSays
  <2> QED BY <1>3, <2>2, <2>3
<1> QED BY <1>8, <1>9

\* The browser shows the word when it is the last.
LEMMA ReceiveKeepsTold ==
    ASSUME DeliveryTypeOK, LastTold, wire # <<>>, wire' = Tail(wire),
           UNCHANGED <<active, outbox, socket, told>>,
           \/ Head(wire).type = "alarms" /\ shown' = Head(wire).active
           \/ Head(wire).type # "alarms" /\ UNCHANGED shown
    PROVE  LastTold'
<1>1. /\ wire \in Seq(Messages)
      /\ DOMAIN wire = 1..Len(wire) /\ Len(wire) \in Nat /\ 1 \in DOMAIN wire
      /\ DOMAIN wire' = 1..(Len(wire) - 1) /\ Head(wire) = wire[1]
      /\ \A i \in DOMAIN wire' : i + 1 \in DOMAIN wire /\ wire'[i] = wire[i + 1]
  BY HeadAndTail DEF DeliveryTypeOK
<1>2. \A k \in DOMAIN wire : k > 1 => k - 1 \in DOMAIN wire' /\ wire'[k - 1] = wire[k]
  BY <1>1
<1> SUFFICES ASSUME told = "latest", ~Tells("alarms", outbox)
             PROVE  /\ LastSays(wire', active)
                    /\ ~Tells("alarms", wire') => shown' = active
  BY DEF LastTold, InFlight, Tells, LastSays
<1>3. LastSays(wire, active) /\ (~InFlight("alarms") => shown = active)
  BY DEF LastTold
<1>4. LastSays(wire', active)
  <2> SUFFICES ASSUME NEW i \in DOMAIN wire', wire'[i].type = "alarms",
                      \A j \in DOMAIN wire' : j > i => wire'[j].type # "alarms"
               PROVE  wire'[i].active = active
    BY DEF LastSays
  <2>1. i + 1 \in DOMAIN wire /\ wire'[i] = wire[i + 1] /\ i \in Nat
    BY <1>1
  <2>2. ASSUME NEW j \in DOMAIN wire, j > i + 1 PROVE wire[j].type # "alarms"
    <3>1. j > 1 /\ j - 1 > i
      BY <1>1, <2>1, <2>2
    <3> QED BY <1>2, <3>1
  <2> QED BY <1>3, <2>1, <2>2 DEF LastSays
<1>5. ASSUME ~Tells("alarms", wire')
      PROVE  shown' = active
  <2>1. \A k \in DOMAIN wire : k > 1 => wire[k].type # "alarms"
    BY <1>2, <1>5 DEF Tells
  <2>2. CASE wire[1].type = "alarms"
    BY <1>1, <1>3, <2>1, <2>2 DEF LastSays
  <2>3. CASE wire[1].type # "alarms"
    <3>1. ~Tells("alarms", wire)
      BY <1>1, <2>1, <2>3 DEF Tells
    <3> QED BY <1>1, <1>3, <2>3, <3>1 DEF InFlight
  <2> QED BY <2>2, <2>3
<1> QED BY <1>4, <1>5

\* At first nothing is told.
LEMMA LastToldInit == DeliveryInit => LastTold
<1> SUFFICES ASSUME DeliveryInit PROVE LastTold
  OBVIOUS
<1>1. outbox = <<>> /\ DOMAIN outbox = {} /\ told = "nothing"
  BY DEF DeliveryInit
<1> QED BY <1>1 DEF LastTold, Tells

\* Every step keeps the last word.
LEMMA LastToldNext == DeliveryTypeOK /\ LastTold /\ [DeliveryNext]_deliveryVars => LastTold'
<1> SUFFICES ASSUME DeliveryTypeOK, LastTold, [DeliveryNext]_deliveryVars PROVE LastTold'
  OBVIOUS
<1> USE DEF source, session, browser
<1>1. CASE MakePoint \/ Sense \/ UNCHANGED deliveryVars
  <2>1. UNCHANGED <<active, outbox, wire, socket, shown, told>>
    BY <1>1 DEF MakePoint, Sense, deliveryVars
  <2> QED BY <2>1 DEF LastTold, InFlight, Tells, LastSays
<1>2. ASSUME NEW due \in BOOLEAN, Tick(due)
      PROVE  LastTold'
  <2>1. /\ Enqueue(Sent(due)) /\ socket = "open" /\ active' = Evaluate(sensed)
        /\ UNCHANGED <<wire, socket, shown>>
    BY <1>2, TickSends
  <2>2. /\ Sent(due) \in Seq(Messages)
        /\ \A k \in DOMAIN Sent(due) :
              Sent(due)[k].type = "alarms" => Sent(due)[k].active = active'
    BY <2>1, SentFacts
  <2>3. ASSUME ~Tells("alarms", Sent(due)) PROVE active' = active
    <3>1. /\ Diff(active, Evaluate(sensed)).raised = {}
          /\ Diff(active, Evaluate(sensed)).cleared = {}
      BY <2>3, SentFacts
    <3>2. active \in Alarmed
      BY DEF DeliveryTypeOK
    <3> QED BY <2>1, <3>1, <3>2, NoDifference
  <2> QED BY <2>1, <2>2, <2>3, EnqueueKeepsTold
<1>3. CASE TickAlone
  <2>1. told # "latest" /\ UNCHANGED <<outbox, wire, socket, shown, told>>
    BY <1>3 DEF TickAlone, LastTold
  <2> QED BY <2>1 DEF LastTold, Tells
<1>4. CASE Write
  BY <1>4, WriteKeepsTold
<1>5. CASE Serve \/ \E s \in Steps : ChangeDetail(s)
  <2>1. /\ Enqueue(<<Subscribed>>) /\ UNCHANGED <<active, wire, socket, shown>>
    BY <1>5 DEF Serve, ChangeDetail
  <2>2. /\ <<Subscribed>> \in Seq(Messages) /\ ~Tells("alarms", <<Subscribed>>)
        /\ \A k \in DOMAIN <<Subscribed>> : <<Subscribed>>[k].type # "alarms"
    BY SubscribedIsNoIncrement DEF Tells
  <2> QED BY <2>1, <2>2, EnqueueKeepsTold
<1>6. CASE ReceiveData \/ ReceiveAlarms \/ ReceiveOther
  BY <1>6, ReceiveKeepsTold DEF ReceiveData, ReceiveAlarms, ReceiveOther
<1>7. CASE Cut
  <2>1. told' = "nothing" /\ outbox' = <<>> /\ DOMAIN outbox' = {}
    BY <1>7 DEF Cut
  <2> QED BY <2>1 DEF LastTold, Tells
<1>8. CASE Reopen
  <2>1. told = "nothing" /\ UNCHANGED <<outbox, told>> /\ socket' = "open"
    BY <1>8 DEF Reopen, LastTold
  <2> QED BY <2>1 DEF LastTold, Tells
<1> QED BY <1>1, <1>2, <1>3, <1>4, <1>5, <1>6, <1>7, <1>8 DEF DeliveryNext, TickQuiet, TickDue

\* A browser that was sent the alarms as they last changed, and has read what was
\* sent, shows those alarms: diff misses no change of an alarm, of its value either.
THEOREM AlarmsAgreeHolds == DeliverySpec => []AlarmsAgree
<1>1. LastTold => AlarmsAgree
  BY DEF LastTold, AlarmsAgree
<1> QED BY <1>1, DeliveryTypeCorrect, LastToldInit, LastToldNext, PTL DEF DeliverySpec
=============================================================================
