----------------------------- MODULE SonarBridge -----------------------------
(***************************************************************************)
(* omniscan_bridge against its device: the reader thread with its socket   *)
(* and bounded queue (transport.py), the node's timers and services        *)
(* (omniscan_bridge_node.py), the parser, and a sonar that is switched off *)
(* and on, over UDP, which loses and reorders datagrams, or TCP.           *)
(*                                                                         *)
(* The reader thread and the node's executor interleave at every queue and *)
(* socket operation.                                                       *)
(***************************************************************************)
EXTENDS PingParser

CONSTANTS
    Transports,  \* "udp", "tcp"
    Settings,    \* ranges that may be set; one of them is configured
    Configured,  \* ping_rate_hz, range_m, ... of the node's parameters
    QueueSize,   \* queue_size
    FirstNumbers,\* the ping number a sonar may have reached when it is found
    MaxPings,    \* bound: pings sent
    MaxEvents    \* bound: damaged or cut frames, lost or overtaken datagrams, reboots
                 \* and services called, together

ASSUME SonarAssumption ==
    /\ Configured \in Settings
    /\ QueueSize \in Nat \ {0} /\ Window \in Nat \ {0}
    /\ MaxLength \in Nat \ {0}
    /\ MaxBuffer \in Nat \* the longest frame and the chunk that completes it fit
    /\ MaxBuffer >= (Header + MaxLength + 1) + (Header + 1 + 1)
    /\ FirstNumbers \subseteq Nat /\ MaxPings \in Nat /\ MaxEvents \in Nat
    /\ Never \notin Nat

VARIABLES
    transport,   \* "udp" or "tcp"
    powered,     \* the sonar is on
    number,      \* its next ping
    device,      \* its settings and whether it pings, or those of a fresh boot
    net,         \* datagrams, or pieces of the stream, on their way
    reader,      \* where the reader thread is
    sock,        \* _sock is not None
    hand,        \* what the reader holds while the queue is full
    queue,       \* _queue
    received, dropped,       \* stats.datagrams_received, chunks_dropped
    fresh,       \* data arrived within rx_timeout_s
    reconnects,  \* stats.reconnects
    configuredFor,           \* _configured_for_reconnects
    params,      \* params
    pinging,     \* _pinging
    sent,        \* history: pings sent
    whole,       \* history: the numbers whose frames were fed unbroken
    before,      \* history: the chunk that was fed last
    rebooted,    \* history: the sonar was off
    old,         \* history: a ping arrived that is older than the first
    events

deviceVars == <<transport, powered, number, device, net, sent, rebooted>>
readerVars == <<reader, sock, hand, received, fresh, reconnects>>
nodeVars == <<configuredFor, params, pinging>>
feedVars == <<whole, before, old>>
sonarVars == <<deviceVars, readerVars, queue, dropped, nodeVars, feedVars, events, parserVars>>

Event == events < MaxEvents /\ events' = events + 1

\* feed touches nothing but the parser, so that no step beside it can tell where in
\* its loop it is: it runs to its end.
Aside == ~parsing /\ UNCHANGED parserVars

-----------------------------------------------------------------------------
(* The sonar and the network                                               *)

Boot == [setting |-> "default", on |-> TRUE]

Chunk(tokens, n, part) == [tokens |-> tokens, of |-> n, part |-> part]

\* A frame that arrives as it was sent, in two pieces, or with one token changed
\* or gone.
Sendings(n) ==
    LET f == Encode(n)
    IN { <<Chunk(f, n, "whole")>> }
       \cup { <<Chunk(SubSeq(f, 1, c), n, "first"), Chunk(SubSeq(f, c + 1, Len(f)), n, "second")>> :
                c \in 1..Len(f) - 1 }
       \cup { <<Chunk([f EXCEPT ![i] = Token("data", 9)], n, "damaged")>> : i \in 1..Len(f) }
       \cup { <<Chunk([f EXCEPT ![Header] = Token("data", l)], n, "damaged")>> : l \in {0, 2} }
       \cup { <<Chunk(RemoveAt(f, i), n, "damaged")>> : i \in 1..Len(f) }

Ping ==
    /\ Aside
    /\ powered /\ device.on /\ sock
    /\ sent < MaxPings /\ net = <<>>
    /\ \E s \in Sendings(number) :
        /\ net' = s
        /\ IF s[1].part = "whole" THEN UNCHANGED events ELSE Event
    /\ number' = number + 1 /\ sent' = sent + 1
    /\ UNCHANGED <<transport, powered, device, rebooted, readerVars, queue, dropped,
                   nodeVars, feedVars>>

\* UDP only: a datagram is lost, or the next ping overtakes it.
Lose ==
    /\ Aside
    /\ transport = "udp" /\ net # <<>> /\ Event
    /\ net' = Tail(net)
    /\ UNCHANGED <<transport, powered, number, device, sent, rebooted, readerVars, queue,
                   dropped, nodeVars, feedVars>>

Overtake ==
    /\ Aside
    /\ transport = "udp" /\ powered /\ device.on /\ sock
    /\ sent < MaxPings /\ Len(net) = 1 /\ net[1].part = "whole" /\ Event
    /\ net' = <<Chunk(Encode(number), number, "whole"), net[1]>>
    /\ number' = number + 1 /\ sent' = sent + 1
    /\ UNCHANGED <<transport, powered, device, rebooted, readerVars, queue, dropped,
                   nodeVars, feedVars>>

\* Switched off: what was on its way is lost, and the settings.
PowerOff ==
    /\ Aside
    /\ powered /\ Event
    /\ powered' = FALSE /\ net' = <<>> /\ rebooted' = TRUE
    /\ UNCHANGED <<transport, number, device, sent, readerVars, queue, dropped,
                   nodeVars, feedVars>>

PowerOn ==
    /\ Aside
    /\ ~powered /\ powered' = TRUE
    /\ number' = 0 /\ device' = Boot
    /\ UNCHANGED <<transport, net, sent, rebooted, readerVars, queue, dropped, nodeVars,
                   feedVars, events>>

-----------------------------------------------------------------------------
(* The reader thread                                                       *)

\* _run: the count is taken before the socket is replaced
Connect ==
    /\ Aside
    /\ reader = "connecting"
    /\ IF transport = "udp" \/ powered
       THEN /\ reader' = "receiving" /\ sock' = TRUE
            /\ reconnects' = IF sock THEN reconnects + 1 ELSE reconnects
       ELSE reader' = "sleeping" /\ UNCHANGED <<sock, reconnects>>
    /\ UNCHANGED <<deviceVars, hand, queue, received, dropped, fresh, nodeVars, feedVars,
                   events>>

HasRoom == Len(queue) < QueueSize

\* _receive and _publish
Receive ==
    /\ Aside
    /\ reader = "receiving" /\ net # <<>>
    /\ net' = Tail(net)
    /\ received' = received + 1 /\ fresh' = TRUE
    /\ IF HasRoom
       THEN queue' = Append(queue, Head(net)) /\ UNCHANGED <<reader, hand>>
       ELSE reader' = "full" /\ hand' = <<Head(net)>> /\ UNCHANGED queue
    /\ UNCHANGED <<transport, powered, number, device, sent, rebooted, sock, dropped,
                   reconnects, nodeVars, feedVars, events>>

\* The queue was full: its oldest chunk goes, unless the node has emptied it in the
\* meantime; then the new one is given up.
DropOldest ==
    /\ Aside
    /\ reader = "full"
    /\ IF queue = <<>>
       THEN /\ reader' = "receiving" /\ hand' = <<>> /\ dropped' = dropped + 1
            /\ UNCHANGED queue
       ELSE reader' = "making room" /\ queue' = Tail(queue) /\ UNCHANGED <<hand, dropped>>
    /\ UNCHANGED <<deviceVars, sock, received, fresh, reconnects, nodeVars, feedVars,
                   events>>

PutNewest ==
    /\ Aside
    /\ reader = "making room"
    /\ queue' = queue \o hand /\ hand' = <<>> /\ dropped' = dropped + 1
    /\ reader' = "receiving"
    /\ UNCHANGED <<deviceVars, sock, received, fresh, reconnects, nodeVars, feedVars,
                   events>>

\* The peer closed, or nobody listens: the socket is given up, and only then comes
\* the next Connect.
Disconnect ==
    /\ Aside
    /\ reader = "receiving" /\ ~powered
    /\ reader' = "sleeping" /\ sock' = FALSE
    /\ UNCHANGED <<deviceVars, hand, queue, received, dropped, fresh, reconnects,
                   nodeVars, feedVars, events>>

WakeUp ==
    /\ Aside
    /\ reader = "sleeping" /\ reader' = "connecting"
    /\ UNCHANGED <<deviceVars, sock, hand, queue, received, dropped, fresh, reconnects,
                   nodeVars, feedVars, events>>

-----------------------------------------------------------------------------
(* The node                                                                *)

\* connected
Connected == sock /\ fresh

RxTimeout ==
    /\ Aside
    /\ fresh /\ fresh' = FALSE
    /\ UNCHANGED <<deviceVars, reader, sock, hand, queue, received, dropped, reconnects,
                   nodeVars, feedVars, events>>

\* _drain
Drain ==
    /\ queue # <<>> /\ Feed(Head(queue).tokens)
    /\ queue' = Tail(queue)
    /\ LET c == Head(queue)
           unbroken == Encode(c.of) \in {c.tokens, before \o c.tokens}
       IN /\ before' = c.tokens
          /\ whole' = IF unbroken THEN Append(whole, c.of) ELSE whole
          /\ old' = (old \/ (unbroken /\ whole # <<>> /\ c.of < whole[1]))
    /\ UNCHANGED <<deviceVars, readerVars, dropped, nodeVars, events>>

Parse ==
    /\ ParserStep
    /\ UNCHANGED <<deviceVars, readerVars, queue, dropped, nodeVars, feedVars, events>>

StallTimeout ==
    /\ ~parsing /\ Stall
    /\ UNCHANGED <<deviceVars, readerVars, queue, dropped, nodeVars, feedVars, events>>

\* _send_ping_parameters on a socket: what was sent is kept, and over UDP, or to a
\* sonar that is off, it may be lost
Send(p) ==
    /\ params' = p
    /\ \/ powered /\ device' = [setting |-> p.setting, on |-> p.on]
       \/ (transport = "udp" \/ ~powered) /\ UNCHANGED device

SendFails == ~sock /\ UNCHANGED <<params, device>>

Due == reconnects # configuredFor

\* _configure_if_needed: marked as done before it is sent
Configure ==
    /\ Aside
    /\ Connected /\ Due
    /\ configuredFor' = reconnects
    /\ Send(params)
    /\ UNCHANGED <<transport, powered, number, net, sent, rebooted, readerVars, queue,
                   dropped, pinging, feedVars, events>>

\* ... and the socket is closed by the reader in between
ConfigureFails ==
    /\ Aside
    /\ fresh /\ ~sock /\ reader = "sleeping" /\ Due
    /\ configuredFor' = reconnects
    /\ UNCHANGED <<deviceVars, readerVars, queue, dropped, params, pinging,
                   feedVars, events>>

\* _on_set_parameters
SetParameters(s) ==
    /\ Aside
    /\ Event /\ Connected
    /\ Send([setting |-> s, on |-> pinging])
    /\ UNCHANGED <<transport, powered, number, net, sent, rebooted, readerVars, queue,
                   dropped, configuredFor, pinging, feedVars>>

\* _on_start and _on_stop
SetPinging(on) ==
    /\ Aside
    /\ Event
    /\ pinging' = on
    /\ (sock /\ Send([params EXCEPT !.on = on])) \/ SendFails
    /\ UNCHANGED <<transport, powered, number, net, sent, rebooted, readerVars, queue,
                   dropped, configuredFor, feedVars>>

-----------------------------------------------------------------------------
SonarInit ==
    /\ transport \in Transports /\ powered = TRUE /\ number \in FirstNumbers
    /\ device = Boot /\ net = <<>>
    /\ reader = "connecting" /\ sock = FALSE /\ hand = <<>>
    /\ queue = <<>> /\ received = 0 /\ dropped = 0 /\ fresh = FALSE
    /\ reconnects = 0 /\ configuredFor = -1
    /\ params = [setting |-> Configured, on |-> TRUE] /\ pinging = TRUE
    /\ sent = 0 /\ whole = <<>> /\ before = <<>> /\ old = FALSE
    /\ rebooted = FALSE /\ events = 0
    /\ ParserInit

SonarNext ==
    \/ Ping \/ Lose \/ Overtake \/ PowerOff \/ PowerOn
    \/ Connect \/ Receive \/ DropOldest \/ PutNewest \/ Disconnect \/ WakeUp
    \/ RxTimeout \/ Drain \/ Parse \/ StallTimeout
    \/ Configure \/ ConfigureFails
    \/ \E s \in Settings : SetParameters(s)
    \/ \E on \in BOOLEAN : SetPinging(on)

SonarSpec == SonarInit /\ [][SonarNext]_sonarVars

-----------------------------------------------------------------------------
(* Properties                                                              *)

SonarTypeOK ==
    /\ reader \in {"connecting", "receiving", "full", "making room", "sleeping"}
    /\ Len(queue) <= QueueSize /\ Len(hand) <= 1
    /\ Len(buf) <= MaxBuffer /\ Len(recent) <= Window
    /\ pending \in {"none", "young", "stalled"} /\ parsing \in BOOLEAN
    /\ <<fed, parsed, discarded, seen, missing, overtaken>> \in [1..6 -> Nat]
    /\ last \in Nat \cup {Never}
    /\ params \in [setting : Settings, on : BOOLEAN]
    /\ device \in [setting : Settings \cup {"default"}, on : BOOLEAN]
    /\ configuredFor \in Nat \cup {-1}

\* The frames that reached the parser unbroken, in one chunk or in two that follow each
\* other, are the ones that are returned, each once and in their order, however the
\* stream is cut and whatever damage surrounds them; they may wait while something that
\* looks like the beginning of a frame is at the head ("resynchronises on the next
\* plausible start marker, rather than desynchronising for good").
IntactFramesGetThrough ==
    ~parsing /\ pending = "none" =>
        delivered = whole

\* packet_loss_ratio is a measurement: while the sonar keeps counting, the missing
\* pings are the numbers between the first and the last that did not arrive, in
\* whatever order they came.  (One from before the first closes a gap that is not
\* its own.)
LossIsMeasured ==
    ~rebooted /\ ~old /\ delivered # <<>> =>
        /\ seen = Cardinality(Range(delivered))
        /\ missing = Cardinality((delivered[1]..last) \ Range(delivered))

=============================================================================
