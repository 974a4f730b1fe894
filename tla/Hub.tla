-------------------------------- MODULE Hub --------------------------------
(***************************************************************************)
(* The broadcaster's sessions, their subscriptions and the choice of the   *)
(* link profile (hub.py, streams.py, with server.py and the timer of       *)
(* gui_backend_node.py).                                                   *)
(*                                                                         *)
(* Two threads: the web server's event loop, where every handler and the   *)
(* tick run to their end, and the executor of the node, whose timer        *)
(* measures the link.  The timer reads the list of clients twice, and the  *)
(* event loop may run between the two.                                     *)
(*                                                                         *)
(* A round trip is the profile it calls for: 0 up to full_max_rtt_ms, 1 up *)
(* to reduced_max_rtt_ms, 2 beyond.  A unit of time is one second, the     *)
(* period of the timer.  The content of the streams is left out, and so is *)
(* the outbox: what is sent is not part of the state.                      *)
(***************************************************************************)
EXTENDS LinkProfile

CONSTANTS
    Clients,      \* the browsers that come and go
    Streams,      \* STREAMS
    Rates,        \* the rates a client asks for or is given
    DefaultRate,  \* [Streams -> Rates]: default_rate_hz
    MaxRate,      \* PROFILES: for each stream, [profiles that carry it -> Rates]
    OnChange      \* the streams sent when they change, at no rate: on_change_only

ASSUME StreamsAssumption ==
    /\ Rates \subseteq Nat /\ None \notin Rates
    /\ \A s \in Streams :
        /\ DefaultRate[s] \in Rates
        /\ 0 \in DOMAIN MaxRate[s] /\ DOMAIN MaxRate[s] \subseteq Profiles
        /\ \A p \in DOMAIN MaxRate[s] : MaxRate[s][p] \in Rates

VARIABLES
    clients,    \* the keys of clients
    rtt,        \* rtt_ms of each session, None before its first pong
    subs,       \* subscriptions of each session, None for a stream not asked for
    timer,      \* _publish_link_status in this second: "due", "read" or "done"
    reading,    \* what it read: the best round trip, or None without clients
    sample      \* link_sample; None is a quality of 0.0, which is no link

sessions == <<clients, rtt, subs>>
link == <<timer, reading, sample>>
vars == <<selector, sessions, link>>

-----------------------------------------------------------------------------
(* The table of streams.py, in tenths of a hertz: a value DefaultRate and  *)
(* MaxRate may take.  How much detail a profile leaves, the sizes and the  *)
(* budgets only feed the estimate that is shown.                           *)

StreamSpec(default, max, critical) ==
    [default |-> default, max |-> max, critical |-> critical]

STREAMS ==
    [vessel |-> StreamSpec(50, 100, TRUE), pico |-> StreamSpec(20, 100, TRUE),
     power |-> StreamSpec(10, 20, TRUE), alarms |-> StreamSpec(10, 20, TRUE),
     link |-> StreamSpec(10, 20, TRUE), heading |-> StreamSpec(20, 50, FALSE),
     mission |-> StreamSpec(10, 20, FALSE), coverage |-> StreamSpec(10, 40, FALSE),
     track |-> StreamSpec(10, 40, FALSE), sonar |-> StreamSpec(10, 20, FALSE),
     lidar |-> StreamSpec(50, 100, FALSE), diagnostics |-> StreamSpec(2, 10, FALSE),
     plan |-> StreamSpec(0, 10, FALSE), camera |-> StreamSpec(50, 150, FALSE)]

FullProfile == [s \in DOMAIN STREAMS |-> STREAMS[s].max]

ReducedProfile ==
    [vessel |-> 20, pico |-> 10, power |-> 5, alarms |-> 10, link |-> 5, heading |-> 10,
     mission |-> 5, coverage |-> 2, track |-> 2, sonar |-> 5, diagnostics |-> 1, plan |-> 0]

MinimalProfile == [vessel |-> 2, pico |-> 2, power |-> 1, alarms |-> 5, link |-> 1]

\* PROFILES, as PROFILE_ORDER numbers them: what each of them leaves of a stream
Policy(p) == CASE p = 0 -> FullProfile [] p = 1 -> ReducedProfile [] p = 2 -> MinimalProfile
PoliciesOf(s) == [p \in {q \in Profiles : s \in DOMAIN Policy(q)} |-> Policy(p)[s]]

-----------------------------------------------------------------------------
Least(a, b) == IF a < b THEN a ELSE b

\* resolve: what one subscription gets under a profile.  The level of detail is
\* negotiated like the rate and left out.  The full profile carries every stream
\* at the stream's own maximum.
Resolve(s, want, p) ==
    IF p \notin DOMAIN MaxRate[s] THEN [granted |-> FALSE, rate |-> 0]
    ELSE IF s \in OnChange THEN [granted |-> TRUE, rate |-> 0]
    ELSE [granted |-> TRUE,
          rate |-> Least(Least(IF want = None THEN DefaultRate[s] ELSE want,
                               MaxRate[s][0]),
                         MaxRate[s][p])]

\* A Subscription: what was asked for, never overwritten, and what it gets.
Subscription(s, want, p) == [want |-> want, gets |-> Resolve(s, want, p)]

\* Mutant: what was granted last is what is asked for next.
ResubscribeGranted(p) ==
    subs' = [c \in Clients |-> [s \in Streams |->
                IF subs[c][s] = None THEN None
                ELSE [subs[c][s] EXCEPT !.gets = Resolve(s, subs[c][s].gets.rate, p)]]]

\* resubscribe, of every session
Resubscribe(p) ==
    subs' = [c \in Clients |-> [s \in Streams |->
                IF subs[c][s] = None THEN None
                ELSE Subscription(s, subs[c][s].want, p)]]

-----------------------------------------------------------------------------
\* The event loop: websocket_endpoint, _handle.  A session whose greeting cannot
\* be sent stays among the clients for ever: one that connects and then does
\* nothing.
Connect(c) ==
    /\ c \notin clients
    /\ clients' = clients \cup {c}
    /\ UNCHANGED <<selector, rtt, subs, link>>

Disconnect(c) ==
    /\ c \in clients
    /\ clients' = clients \ {c}
    /\ rtt' = [rtt EXCEPT ![c] = None]
    /\ subs' = [subs EXCEPT ![c] = [s \in Streams |-> None]]
    /\ UNCHANGED <<selector, link>>

\* subscribe: kept even when refused.
Subscribe(c, s, want) ==
    /\ c \in clients
    /\ subs' = [subs EXCEPT ![c][s] = Subscription(s, want, profile)]
    /\ UNCHANGED <<selector, clients, rtt, link>>

Unsubscribe(c, s) ==
    /\ c \in clients
    /\ subs' = [subs EXCEPT ![c][s] = None]
    /\ UNCHANGED <<selector, clients, rtt, link>>

\* A pong is timed against the latest ping, whichever ping it answers, so that
\* it may say anything of the link.
Pong(c, r) ==
    /\ c \in clients
    /\ rtt' = [rtt EXCEPT ![c] = r]
    /\ UNCHANGED <<selector, clients, subs, link>>

\* set_profile, as a message or as a command
SetProfile ==
    /\ Release \/ \E p \in Profiles : ForceProfile(p)
    /\ Resubscribe(profile')
    /\ UNCHANGED <<clients, rtt, link>>

-----------------------------------------------------------------------------
Known == {rtt[c] : c \in clients} \ {None}

\* min over the clients that have been measured, or a default
Best(default) ==
    IF Known = {} THEN default ELSE CHOOSE r \in Known : \A q \in Known : r <= q

\* _target of what _auto_select passes on.
Target == IF sample = None THEN 2 ELSE Best(sample)

\* _auto_select, the part of tick that touches the selector.  Without clients
\* nothing is measured, and a pinned profile looks at no measurement.
AutoSelect(d) ==
    \/ /\ clients = {} \/ manual
       /\ Wait(d)
       /\ UNCHANGED subs
    \/ /\ clients # {}
       /\ Update(Target, d)
       /\ IF profile' = profile THEN UNCHANGED subs ELSE Resubscribe(profile')

\* The tick, again within this second or as the first of the next: the timer of
\* the node keeps its period.
TickAgain == AutoSelect(0) /\ UNCHANGED <<clients, rtt, link>>

TickNext ==
    /\ timer = "done"
    /\ AutoSelect(1)
    /\ timer' = "due"
    /\ UNCHANGED <<clients, rtt, reading, sample>>

-----------------------------------------------------------------------------
\* _publish_link_status, on the thread of the node: the clients are listed and
\* their round trips read, and later looked at again before the sample is fed.
ReadLink ==
    /\ timer = "due"
    /\ timer' = "read"
    /\ reading' = IF clients = {} THEN None ELSE Best(0)
    /\ UNCHANGED <<selector, sessions, sample>>

FeedLink ==
    /\ timer = "read"
    /\ timer' = "done"
    /\ sample' = IF clients = {} THEN sample ELSE reading
    /\ reading' = None
    /\ UNCHANGED <<selector, sessions>>

-----------------------------------------------------------------------------
Init ==
    /\ SelectorInit
    /\ clients = {}
    /\ rtt = [c \in Clients |-> None]
    /\ subs = [c \in Clients |-> [s \in Streams |-> None]]
    /\ timer = "due" /\ reading = None /\ sample = 0

Next ==
    \/ \E c \in Clients :
        \/ Connect(c)
        \/ Disconnect(c)
        \/ \E s \in Streams, want \in Rates \cup {None} : Subscribe(c, s, want)
        \/ \E s \in Streams : Unsubscribe(c, s)
        \/ \E r \in Profiles : Pong(c, r)
    \/ SetProfile
    \/ TickAgain
    \/ TickNext
    \/ ReadLink
    \/ FeedLink

\* The loop of run ticks for ever and the timer fires every second.
Spec ==
    /\ Init /\ [][Next]_vars
    /\ WF_vars(TickNext)
    /\ WF_vars(ReadLink) /\ WF_vars(FeedLink)

-----------------------------------------------------------------------------
TypeOK ==
    /\ SelectorTypeOK
    /\ manual => candidate = None
    /\ clients \subseteq Clients
    /\ rtt \in [Clients -> Profiles \cup {None}]
    /\ timer \in {"due", "read", "done"}
    /\ reading \in Profiles \cup {None}
    /\ sample \in Profiles \cup {None}

\* Every client gets, of each stream it ever asked for, exactly what its own
\* request and the present profile allow: no degradation is permanent, and a
\* stream refused once is given when the link allows it.
NothingIsForgotten ==
    \A c \in Clients, s \in Streams :
        subs[c][s] # None =>
            /\ c \in clients
            /\ subs[c][s].want \in Rates \cup {None}
            /\ subs[c][s].gets = Resolve(s, subs[c][s].want, profile)

\* A link that all clients measured at all measure alike from some time on, with
\* no operator pinning or releasing the profile any more, ends on the profile it
\* calls for.
Steady(p) == ~manual /\ Known = {p}

Converges ==
    <>[][~SetProfile]_vars =>
        \A p \in Profiles : <>[]Steady(p) => <>[](profile = p)

=============================================================================
