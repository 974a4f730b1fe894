----------------------------- MODULE PingParser -----------------------------
(***************************************************************************)
(* The incremental parser of the sonar's byte stream (parser.py, with the  *)
(* frames of ping_protocol.py): framing, resynchronisation, the stall      *)
(* guard, and the accounting of ping numbers.                              *)
(*                                                                         *)
(* A byte is a token with a kind and a value.  A frame is B, R, the length *)
(* of the payload, the payload, whose first token is the ping number, and  *)
(* the checksum; a checksum is right when it is of its own kind and has    *)
(* the sum of the values.  The message id and all payloads but the number  *)
(* are left out.                                                           *)
(***************************************************************************)
EXTENDS Integers, SequencesExt, FiniteSetsExt

CONSTANTS
    MaxLength,   \* max_payload_length
    MaxBuffer,   \* MAX_BUFFER
    Window,      \* loss_window
    Never        \* no ping number yet

VARIABLES
    buf,         \* _buf
    parsing,     \* feed has not returned
    pending,     \* _pending_since: "none", "young" or "stalled"
    fed,         \* tokens that feed was given
    parsed,      \* tokens of the frames it returned
    discarded,   \* stats.bytes_discarded
    last,        \* _last_ping_number
    recent,      \* _recent_pings
    seen, missing, overtaken, \* stats.pings_*
    delivered    \* history: the ping numbers of the frames returned

framing == <<buf, parsing, pending, fed, parsed, discarded>>
accounting == <<last, recent, seen, missing, overtaken, delivered>>
parserVars == <<framing, accounting>>

-----------------------------------------------------------------------------
(* Frames                                                                  *)

Token(k, v) == [kind |-> k, value |-> v]
B == Token("B", 66)
R == Token("R", 82)
Header == 3          \* HEADER_SIZE: the marker and the length

\* checksum
Sum(tokens) == Token("sum", FoldSeq(LAMBDA t, s : t.value + s, 0, tokens))

\* encode_frame, of one ping
Encode(n) ==
    LET body == <<B, R, Token("data", 1), Token("data", n)>>
    IN Append(body, Sum(body))

-----------------------------------------------------------------------------
(* Accounting                                                              *)

Remember(n) ==
    recent' = LET all == Append(recent, n)
              IN IF Len(all) > Window THEN Tail(all) ELSE all

FirstPing(n) ==
    /\ last = Never
    /\ last' = n /\ Remember(n) /\ seen' = seen + 1
    /\ UNCHANGED <<missing, overtaken>>

Duplicate(n) ==
    /\ last # Never /\ Contains(recent, n)
    /\ overtaken' = overtaken + 1
    /\ UNCHANGED <<last, recent, seen, missing>>

\* _reset_sequence
Restarted(n) ==
    /\ last # Never /\ ~Contains(recent, n)
    /\ n < last /\ last - n > Window
    /\ last' = n /\ recent' = <<n>> /\ seen' = seen + 1
    /\ UNCHANGED <<missing, overtaken>>

LatePing(n) ==
    /\ last # Never /\ ~Contains(recent, n)
    /\ n < last /\ last - n <= Window
    /\ overtaken' = overtaken + 1 /\ seen' = seen + 1
    /\ missing' = IF missing = 0 THEN 0 ELSE missing - 1
    /\ Remember(n)
    /\ UNCHANGED last

\* Mutant: the gap is the difference of the numbers.
NextPingOffByOne(n) ==
    /\ last # Never /\ ~Contains(recent, n) /\ n >= last
    /\ missing' = missing + (n - last)
    /\ seen' = seen + 1 /\ last' = n /\ Remember(n)
    /\ UNCHANGED overtaken

NextPing(n) ==
    /\ last # Never /\ ~Contains(recent, n) /\ n >= last
    /\ missing' = missing + (n - last - 1)
    /\ seen' = seen + 1 /\ last' = n /\ Remember(n)
    /\ UNCHANGED overtaken

\* _account_ping
Account(n) ==
    /\ FirstPing(n) \/ Duplicate(n) \/ Restarted(n) \/ LatePing(n) \/ NextPing(n)
    /\ delivered' = Append(delivered, n)

-----------------------------------------------------------------------------
(* Framing: one action for each turn of the loop in _next_frame            *)

\* feed: the new bytes, of which the newest MAX_BUFFER are kept
Feed(tokens) ==
    /\ ~parsing /\ parsing' = TRUE
    /\ LET all == buf \o tokens
           over == IF Len(all) > MaxBuffer THEN Len(all) - MaxBuffer ELSE 0
       IN /\ buf' = SubSeq(all, over + 1, Len(all))
          /\ discarded' = discarded + over
    /\ fed' = fed + Len(tokens)
    /\ UNCHANGED <<pending, parsed, accounting>>

MarkedAt == {i \in 1..Len(buf) - 1 : buf[i] = B /\ buf[i + 1] = R}
AtMarker == parsing /\ 1 \in MarkedAt
Complete == AtMarker /\ Len(buf) >= Header
Length == buf[Header].value
FrameSize == Header + Length + 1
Body == SubSeq(buf, 1, FrameSize - 1)

\* n tokens leave the head of the buffer
Discard(n) ==
    buf' = SubSeq(buf, n + 1, Len(buf)) /\ discarded' = discarded + n

NoMarker ==
    /\ parsing /\ MarkedAt = {}
    /\ Discard(Len(buf) - (IF buf # <<>> /\ Last(buf) = B THEN 1 ELSE 0))
    /\ parsing' = FALSE
    /\ UNCHANGED <<pending, fed, parsed, accounting>>

SkipToMarker ==
    /\ parsing /\ MarkedAt # {} /\ ~AtMarker
    /\ Discard(Min(MarkedAt) - 1)
    /\ UNCHANGED <<parsing, pending, fed, parsed, accounting>>

ShortHeader ==
    /\ AtMarker /\ Len(buf) < Header
    /\ parsing' = FALSE
    /\ UNCHANGED <<buf, pending, fed, parsed, discarded, accounting>>

\* _resync: the marker is dropped, and the hunt goes on behind it
Resync == Discard(2)

TooLong ==
    /\ Complete /\ Length > MaxLength
    /\ Resync
    /\ UNCHANGED <<parsing, pending, fed, parsed, accounting>>

Incomplete ==
    /\ Complete /\ Length <= MaxLength /\ Len(buf) < FrameSize
    /\ pending # "stalled"
    /\ pending' = "young" /\ parsing' = FALSE
    /\ UNCHANGED <<buf, fed, parsed, discarded, accounting>>

Stalled ==
    /\ Complete /\ Length <= MaxLength /\ Len(buf) < FrameSize
    /\ pending = "stalled"
    /\ Resync /\ pending' = "none"
    /\ UNCHANGED <<parsing, fed, parsed, accounting>>

\* Mutant: a frame whose checksum is wrong is thrown away whole.
BadSumSkipsFrame ==
    /\ Complete /\ Length <= MaxLength /\ Len(buf) >= FrameSize
    /\ buf[FrameSize] # Sum(Body)
    /\ Discard(FrameSize) /\ pending' = "none"
    /\ UNCHANGED <<parsing, fed, parsed, accounting>>

BadSum ==
    /\ Complete /\ Length <= MaxLength /\ Len(buf) >= FrameSize
    /\ buf[FrameSize] # Sum(Body)
    /\ Resync /\ pending' = "none"
    /\ UNCHANGED <<parsing, fed, parsed, accounting>>

\* The frame is returned and decoded; one without a payload is no ping.
TakeFrame ==
    /\ Complete /\ Length <= MaxLength /\ Len(buf) >= FrameSize
    /\ buf[FrameSize] = Sum(Body)
    /\ buf' = SubSeq(buf, FrameSize + 1, Len(buf)) /\ parsed' = parsed + FrameSize
    /\ pending' = "none"
    /\ IF Length > 0 THEN Account(buf[Header + 1].value) ELSE UNCHANGED accounting
    /\ UNCHANGED <<parsing, fed, discarded>>

ParserStep ==
    \/ NoMarker \/ SkipToMarker \/ ShortHeader \/ TooLong
    \/ Incomplete \/ Stalled \/ BadSum \/ TakeFrame

\* stall_timeout_s goes by
Stall ==
    /\ pending = "young" /\ pending' = "stalled"
    /\ UNCHANGED <<buf, parsing, fed, parsed, discarded, accounting>>

ParserInit ==
    /\ buf = <<>> /\ parsing = FALSE /\ pending = "none"
    /\ fed = 0 /\ parsed = 0 /\ discarded = 0
    /\ last = Never /\ recent = <<>> /\ seen = 0 /\ missing = 0 /\ overtaken = 0
    /\ delivered = <<>>
=============================================================================
