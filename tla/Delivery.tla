------------------------------ MODULE Delivery ------------------------------
(***************************************************************************)
(* What one browser is shown of the vessel's track and of the alarms: the  *)
(* broadcaster's tick and the session's outbox (hub.py), the writer and    *)
(* the reader of its socket (server.py), the layers the source keeps       *)
(* (ros_source.py, payloads.py) and the client (connection.js).            *)
(*                                                                         *)
(* The track is append-only on the wire: an increment says where in the    *)
(* list it starts, and the browser splices it or asks for everything       *)
(* again.  An outbox that is full drops its oldest message, and a socket   *)
(* may close at any moment.  The other streams only take room in the       *)
(* outbox; the reply to a subscription stands for them.                    *)
(*                                                                         *)
(* A point of the track is its number.                                     *)
(***************************************************************************)
EXTENDS Alarms, Sequences, SequencesExt

CONSTANTS
    Points,      \* bound: how many points the vessel's track gets
    Kept,        \* how many the source keeps (4000)
    Steps,       \* one point in 1, 3 or 10 by the level of detail; it starts full
    QueueLimit,  \* QUEUE_LIMIT (64)
    WireLimit,   \* how many messages the socket takes before a write waits
    Requests,    \* bound: the requests of the browser on their way
    Events,      \* bound: how often the socket closes, the level of detail or
                 \* the readings change
    Readings     \* what the sensors may say, for Evaluate

ASSUME DeliveryAssumption ==
    /\ {Points, Kept, Requests, Events} \subseteq Nat
    /\ {QueueLimit, WireLimit} \subseteq Nat \ {0} /\ Kept > 0
    /\ Steps \subseteq Nat \ {0} /\ 1 \in Steps

VARIABLES
    made,      \* points the vessel has made
    sensed,    \* alarm_state() of the source
    active,    \* _active_alarms
    step,      \* of the level of detail the present profile gives the track
    cursor,    \* of the session's subscription, Absent without one
    outbox,    \* of the session
    wire,      \* what the socket has taken for the browser
    requests,  \* how many subscribe messages are on their way to the server
    socket,    \* "open", or "closed" and waiting for its reconnect timer
    events,    \* how many of the bounded events have happened
    plotted,   \* streams.track of the browser, with the coarsest step it holds
    shown,     \* its alarms
    told       \* history: in this session, of the alarms: "nothing", "latest",
               \* or "lost" when the outbox dropped the latest

source == <<made, sensed>>
session == <<step, cursor, outbox, wire>>
browser == <<requests, socket, plotted, shown, told>>
deliveryVars == <<source, active, session, browser, events>>

-----------------------------------------------------------------------------
\* The source.
\* A bounded deque: what came last.
Newest(n, sequence) ==
    SubSeq(sequence, IF Len(sequence) > n THEN Len(sequence) - n + 1 ELSE 1, Len(sequence))

\* _track
Track == Newest(Kept, [i \in 1..made |-> i])

\* _accumulate_map_layers
MakePoint ==
    /\ made < Points
    /\ made' = made + 1
    /\ UNCHANGED <<sensed, active, session, browser, events>>

\* An event of those that are bounded.
Event == events < Events /\ events' = events + 1

\* alarm_state of the next tick
Sense ==
    /\ Event
    /\ sensed' \in Readings \ {sensed}
    /\ UNCHANGED <<made, active, session, browser>>

\* track_payload: new[::step] of what lies past the cursor.
Every(s, points) ==
    [i \in 1..((Len(points) + s - 1) \div s) |-> points[(i - 1) * s + 1]]

TrackPayload(from, s) ==
    [type |-> "data", from |-> from, step |-> s,
     points |-> Every(s, SubSeq(Track, from + 1, Len(Track)))]

-----------------------------------------------------------------------------
\* The session.
Hello == [type |-> "hello"]
Subscribed == [type |-> "subscribed"]
AlarmsMessage(alarms) == [type |-> "alarms", active |-> alarms]

\* send, of several messages in turn: the oldest give way.
Send(messages) == Newest(QueueLimit, outbox \o messages)

Tells(type, messages) == \E i \in DOMAIN messages : messages[i].type = type

Enqueue(messages) ==
    /\ outbox' = Send(messages)
    /\ told' = IF Tells("alarms", Send(messages)) THEN "latest"
               ELSE IF Tells("alarms", outbox \o messages) THEN "lost" ELSE told

\* tick with this session among the clients: the alarms if any changed, then the
\* increment if the track is due, which goes out even when it is empty.
Tick(due) ==
    LET now == Evaluate(sensed)
        change == Diff(active, now)
        changed == change.raised # {} \/ change.cleared # {}
        pushed == due /\ cursor # Absent
    IN /\ socket = "open"
       /\ changed \/ pushed
       /\ active' = now
       /\ cursor' = IF pushed THEN Len(Track) ELSE cursor
       /\ Enqueue((IF changed THEN <<AlarmsMessage(now)>> ELSE <<>>)
                  \o (IF pushed THEN <<TrackPayload(cursor, step)>> ELSE <<>>))
       /\ UNCHANGED <<source, step, wire, requests, socket, plotted, shown, events>>

TickQuiet == Tick(FALSE)
TickDue == Tick(TRUE)

\* The tick without this session: nobody is told.
TickAlone ==
    /\ socket = "closed"
    /\ active # Evaluate(sensed)
    /\ active' = Evaluate(sensed)
    /\ UNCHANGED <<source, session, browser, events>>

\* _writer
Write ==
    /\ outbox # <<>> /\ Len(wire) < WireLimit
    /\ wire' = Append(wire, Head(outbox))
    /\ outbox' = Tail(outbox)
    /\ UNCHANGED <<source, active, step, cursor, browser, events>>

\* Mutant: subscribing again leaves the position in the stream.
ServeKeepsCursor ==
    /\ requests > 0
    /\ requests' = requests - 1
    /\ cursor' = IF cursor = Absent THEN 0 ELSE cursor
    /\ Enqueue(<<Subscribed>>)
    /\ UNCHANGED <<source, active, step, wire, socket, plotted, shown, events>>

\* _handle of a subscribe: a new Subscription, from the start of the stream.
Serve ==
    /\ requests > 0
    /\ requests' = requests - 1
    /\ cursor' = 0
    /\ Enqueue(<<Subscribed>>)
    /\ UNCHANGED <<source, active, step, wire, socket, plotted, shown, events>>

\* resubscribe, on a change of profile: everything again at the new detail.
ChangeDetail(s) ==
    /\ socket = "open" /\ s # step /\ Event
    /\ step' = s
    /\ cursor' = IF cursor = Absent THEN Absent ELSE 0
    /\ Enqueue(<<Subscribed>>)
    /\ UNCHANGED <<source, active, wire, requests, socket, plotted, shown>>

-----------------------------------------------------------------------------
\* The browser.

\* It starts beyond what is held: #resync.
Misses(m) == m.from > Len(plotted.points)

\* Mutant: an increment that starts further on is appended all the same.
SpliceAnyway(m) ==
    [points |-> SubSeq(plotted.points, 1, IF Misses(m) THEN Len(plotted.points) ELSE m.from)
                \o m.points,
     step |-> IF m.from = 0 \/ m.step > plotted.step THEN m.step ELSE plotted.step]

\* #accumulate
Splice(m) ==
    IF m.from = 0 THEN [points |-> m.points, step |-> m.step]
    ELSE IF Misses(m) THEN plotted
    ELSE [points |-> SubSeq(plotted.points, 1, m.from) \o m.points,
          step |-> IF m.step > plotted.step THEN m.step ELSE plotted.step]

ReceiveData ==
    /\ wire # <<>> /\ Head(wire).type = "data"
    /\ LET m == Head(wire)
       IN /\ Misses(m) => requests < Requests
          /\ plotted' = Splice(m)
          /\ requests' = IF Misses(m) THEN requests + 1 ELSE requests
    /\ wire' = Tail(wire)
    /\ UNCHANGED <<source, active, step, cursor, outbox, socket, shown, told, events>>

ReceiveAlarms ==
    /\ wire # <<>> /\ Head(wire).type = "alarms"
    /\ shown' = Head(wire).active
    /\ wire' = Tail(wire)
    /\ UNCHANGED <<source, active, step, cursor, outbox, requests, socket, plotted, told, events>>

\* hello and subscribed change nothing of what is shown here.
ReceiveOther ==
    /\ wire # <<>> /\ Head(wire).type \in {"hello", "subscribed"}
    /\ wire' = Tail(wire)
    /\ UNCHANGED <<source, active, step, cursor, outbox, browser, events>>

\* The socket closes on both sides; what was shown stays on the screen.
Cut ==
    /\ socket = "open" /\ Event
    /\ socket' = "closed"
    /\ cursor' = Absent /\ outbox' = <<>> /\ wire' = <<>> /\ requests' = 0
    /\ told' = "nothing"
    /\ UNCHANGED <<source, active, step, plotted, shown>>

\* The reconnect timer: websocket_endpoint greets the new session, and onopen
\* subscribes to what is wanted.
Reopen ==
    /\ socket = "closed"
    /\ socket' = "open"
    /\ wire' = <<Hello>> /\ requests' = 1
    /\ UNCHANGED <<source, active, step, cursor, outbox, plotted, shown, told, events>>

-----------------------------------------------------------------------------
DeliveryInit ==
    /\ made = 0 /\ sensed \in Readings
    /\ active = {}
    /\ step = 1 /\ cursor = Absent
    /\ outbox = <<>> /\ wire = <<>>
    /\ requests = 0 /\ socket = "closed" /\ events = 0
    /\ plotted = [points |-> <<>>, step |-> 1]
    /\ shown = {} /\ told = "nothing"

DeliveryNext ==
    \/ MakePoint \/ Sense
    \/ TickQuiet \/ TickDue \/ TickAlone
    \/ Write \/ Serve
    \/ \E s \in Steps : ChangeDetail(s)
    \/ ReceiveData \/ ReceiveAlarms \/ ReceiveOther
    \/ Cut \/ Reopen

\* The loop of the hub ticks for ever, the event loop runs the writer and the
\* reader, an open socket carries what it took, and the timer of the browser
\* fires.
DeliverySpec ==
    /\ DeliveryInit /\ [][DeliveryNext]_deliveryVars
    /\ WF_deliveryVars(TickDue) /\ WF_deliveryVars(Write) /\ WF_deliveryVars(Serve)
    /\ WF_deliveryVars(ReceiveData) /\ WF_deliveryVars(ReceiveAlarms) /\ WF_deliveryVars(ReceiveOther)
    /\ WF_deliveryVars(Reopen)

-----------------------------------------------------------------------------
\* What may be on its way; an alarm is one of a reading.
Alarmed == {{}} \cup {Evaluate(r) : r \in Readings}
Messages ==
    {Hello, Subscribed} \cup {AlarmsMessage(alarms) : alarms \in Alarmed}
    \cup [type: {"data"}, from: Nat, step: Steps, points: Seq(Nat)]

DeliveryTypeOK ==
    /\ made \in Nat /\ sensed \in Readings /\ active \in Alarmed
    /\ step \in Steps /\ cursor \in Nat \cup {Absent}
    /\ outbox \in Seq(Messages) /\ wire \in Seq(Messages)
    /\ requests \in Nat /\ socket \in {"open", "closed"} /\ events \in Nat
    /\ plotted \in [points: Seq(Nat), step: Steps]
    /\ shown \in Alarmed /\ told \in {"nothing", "latest", "lost"}

InFlight(type) == Tells(type, wire) \/ Tells(type, outbox)

\* As long as nothing has been trimmed off the list, the track on the screen has
\* no hole: it starts with the first point, and between two neighbours lie only
\* the points the level of detail leaves out, whatever was dropped, cut off or
\* sent again.
NoHole ==
    made <= Kept =>
        /\ plotted.points # <<>> => plotted.points[1] = 1
        /\ \A i \in 1..(Len(plotted.points) - 1) :
              /\ plotted.points[i] < plotted.points[i + 1]
              /\ plotted.points[i + 1] <= plotted.points[i] + plotted.step

\* Once this session has been told of the alarms, unless the outbox dropped the
\* latest message about them, a browser with no such message on its way shows the
\* alarms of the hub, value and severity included.
AlarmsAgree ==
    /\ told = "latest" /\ socket = "open" /\ ~InFlight("alarms")
    => shown = active

\* A message was dropped.
Overflow == Len(outbox') >= Len(outbox) /\ ~IsPrefix(outbox, outbox')

\* The browser is connected and its track reaches as far as the detail allows.
Whole ==
    /\ socket = "open"
    /\ made \in 1..Kept =>
        /\ plotted.points # <<>>
        /\ plotted.points[Len(plotted.points)] > made - plotted.step

\* Once no message is dropped any more, the browser has the whole track and keeps
\* it, whatever was lost before, until the list is trimmed.
CatchesUp == <>[][~Overflow]_deliveryVars => <>[]Whole

=============================================================================
