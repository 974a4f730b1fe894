----------------------------- MODULE TileService -----------------------------
(* gui_backend/core/tiles.py and tile_cache.py: map tiles and glyph ranges   *)
(* served from the cache, from upstream or not at all, by worker threads     *)
(* that share one SQLite file, any use of which may fail.  One tile is one   *)
(* byte; what a tile holds is the version of it that upstream had, which is  *)
(* its validator too.                                                       *)
EXTENDS Integers, Sequences

CONSTANTS
    Threads,        \* worker threads of the server
    Tiles, Fonts,   \* what may be asked for
    TooDeep,        \* the tiles beyond the source's max_zoom
    MaxBytes,       \* max_bytes
    Online,         \* the master switch
    MaxVersion,     \* bound: how often upstream may change
    Nothing         \* None

ASSUME RoomAssumption == MaxBytes \in Nat

ASSUME OnlineAssumption == Online \in BOOLEAN

Keys     == Tiles \cup Fonts
Profiles == {"full", "reduced", "absent"}
CopyAges == {"new", "hours", "stale"}     \* within the hour, within the TTL, past it
Blobs    == [version : Nat, age : CopyAges]

VARIABLES
    cache,          \* the blobs table: [Keys -> Nothing or [version, age]]
    used,           \* the keys in it, the least recently used first: used_utc_ms
    upstream,       \* the version the tile servers have now
    req,            \* each thread's request
    writer          \* history: the thread that wrote the newest row, Nothing once
                    \* its look at the total or its eviction has failed

tileVars == <<cache, used, upstream, req, writer>>

(* How a request is answered: from the cache, from the cache with an age of  *)
(* zero, straight from upstream, or not at all.                             *)
Replies == {"cache", "confirmed", "upstream", "miss"}

Idle == [pc |-> "idle", key |-> Nothing, may |-> FALSE, cached |-> Nothing,
         fetched |-> Nothing, total |-> 0, answer |-> Nothing, held |-> FALSE]

Requests ==
    [pc : {"idle", "get", "fetch", "refresh", "again", "put", "total", "evict", "done"},
     key : Keys \cup {Nothing}, may : BOOLEAN, cached : Blobs \cup {Nothing},
     fetched : Nat \cup {Nothing}, total : Nat, answer : Replies \cup {Nothing},
     held : BOOLEAN]

TilesTypeOK ==
    /\ cache \in [Keys -> Blobs \cup {Nothing}]
    /\ used \in Seq(Keys)
    /\ upstream \in Nat
    /\ req \in [Threads -> Requests]
    /\ writer \in Threads \cup {Nothing}

TilesInit ==
    /\ cache = [k \in Keys |-> Nothing] /\ used = <<>>
    /\ upstream = 0
    /\ req = [t \in Threads |-> Idle]
    /\ writer = Nothing

---------------------------------------------------------------------------
(* Policy.                                                                  *)
MayFetch(profile) == profile \in {"absent", "full"}

MayGoUpstream(profile) == Online /\ MayFetch(profile)

IsFresh(blob) == blob.age # "stale"

(* A tile beyond the source's zoom levels is not asked for upstream.       *)
WorthAsking(r) == r.may /\ r.key \notin TooDeep

---------------------------------------------------------------------------
(* The table.                                                               *)
Total == Len(used)

Place(seq, k) == CHOOSE i \in DOMAIN seq : seq[i] = k
Without(seq, i) == SubSeq(seq, 1, i - 1) \o SubSeq(seq, i + 1, Len(seq))

Touched(seq, k) ==
    Append(IF \E i \in DOMAIN seq : seq[i] = k THEN Without(seq, Place(seq, k)) ELSE seq, k)

(* What get finds: the row, or nothing if the database fails.               *)
Findings(k) == {cache[k], Nothing}

(* It marks the row it found as used once the copy is more than an hour old; *)
(* a mark that cannot be written is left out.                               *)
ReadRow(k, blob) ==
    \/ UNCHANGED used
    \/ blob # Nothing /\ blob.age # "new" /\ used' = Touched(used, k)

Stored(k, v) ==
    /\ cache' = [cache EXCEPT ![k] = [version |-> v, age |-> "new"]]
    /\ used' = Touched(used, k)

(* An update of a row that is gone changes nothing.                         *)
Refreshed(k) ==
    IF cache[k] = Nothing THEN UNCHANGED <<cache, used>>
    ELSE /\ cache' = [cache EXCEPT ![k].age = "new"]
         /\ used' = Touched(used, k)

(* The least recently used rows go until the total read before the lock     *)
(* was taken is at nine tenths of the limit.                                *)
Evicted(total) ==
    LET target == (MaxBytes * 9) \div 10
        n == IF total - target > Len(used) THEN Len(used) ELSE total - target
        gone == {used[i] : i \in 1 .. n}
    IN  /\ cache' = [k \in Keys |-> IF k \in gone THEN Nothing ELSE cache[k]]
        /\ used' = SubSeq(used, n + 1, Len(used))

---------------------------------------------------------------------------
(* One request, step by step; another thread may run between two of them.   *)
Goto(t, pc) == req' = [req EXCEPT ![t].pc = pc]

(* Of an answered request only the answer stays, and whether the first read  *)
(* had found a copy.                                                        *)
Done(r, a) == [Idle EXCEPT !.pc = "done", !.answer = a, !.held = r.cached # Nothing]
Answer(t, a) == req' = [req EXCEPT ![t] = Done(req[t], a)]

Ask(t, k, profile) ==
    /\ req[t].pc \in {"idle", "done"}
    /\ req' = [req EXCEPT ![t] =
                  [Idle EXCEPT !.pc = "get", !.key = k, !.may = MayGoUpstream(profile)]]
    /\ UNCHANGED <<cache, used, upstream, writer>>

(* What is left when the network gives nothing or is not asked.            *)
Fallback(r) == IF r.cached = Nothing THEN "miss" ELSE "cache"

(* The ladder as far as the network: a copy that is fresh, or all there may  *)
(* be, is the answer.                                                       *)
Get(t) ==
    LET r == req[t]
    IN  /\ r.pc = "get"
        /\ \E blob \in Findings(r.key) :
              /\ ReadRow(r.key, blob)
              /\ LET r1 == [r EXCEPT !.cached = blob]
                 IN  req' = [req EXCEPT ![t] =
                        IF blob # Nothing /\ (IsFresh(blob) \/ ~r.may)
                        THEN Done(r1, "cache")
                        ELSE IF WorthAsking(r) THEN [r1 EXCEPT !.pc = "fetch"]
                        ELSE Done(r1, Fallback(r1))]
        /\ UNCHANGED <<cache, upstream, writer>>

(* UpstreamTiles.fetch, conditional when a copy is held: no answer, an error *)
(* or an empty body, 304, or the version upstream has now.                  *)
Reply(blob, answers) ==
    [not_modified |-> answers /\ blob # Nothing /\ blob.version = upstream,
     data |-> answers /\ (blob = Nothing \/ blob.version # upstream)]

Fetch(t, answers) ==
    LET r == req[t]
        reply == Reply(r.cached, answers)
    IN  /\ r.pc = "fetch"
        /\ \/ reply.not_modified /\ Goto(t, "refresh")
           \/ reply.data /\ req' = [req EXCEPT ![t].pc = "put", ![t].fetched = upstream]
           \/ ~reply.not_modified /\ ~reply.data /\ Answer(t, Fallback(r))
        /\ UNCHANGED <<cache, used, upstream, writer>>

(* The copy is current, whether or not that can be written down.  A tile is  *)
(* read again and what is there then served; a glyph range is served as it   *)
(* was first read.                                                          *)
Refresh(t, fails) ==
    LET r == req[t]
    IN  /\ r.pc = "refresh"
        /\ IF fails THEN UNCHANGED <<cache, used>> ELSE Refreshed(r.key)
        /\ IF r.key \in Fonts THEN Answer(t, "confirmed") ELSE Goto(t, "again")
        /\ UNCHANGED <<upstream, writer>>

\* Mutant: the copy held from the first read is forgotten.
ForgettingAgain(t) ==
    LET r == req[t]
    IN  /\ r.pc = "again"
        /\ \E blob \in Findings(r.key) :
              /\ ReadRow(r.key, blob)
              /\ Answer(t, IF blob = Nothing THEN "miss" ELSE "confirmed")
        /\ UNCHANGED <<cache, upstream, writer>>

GetAgain(t) ==
    LET r == req[t]
    IN  /\ r.pc = "again"
        /\ \E blob \in Findings(r.key) :
              /\ ReadRow(r.key, blob)
              /\ Answer(t, IF blob = Nothing THEN Fallback(r) ELSE "confirmed")
        /\ UNCHANGED <<cache, upstream, writer>>

(* Writes serialise on a lock; one that fails leaves the table and the      *)
(* eviction alone, and the tile is served all the same.                     *)
Put(t, fails) ==
    LET r == req[t]
    IN  /\ r.pc = "put"
        /\ IF fails THEN Answer(t, "upstream") /\ UNCHANGED <<cache, used, writer>>
           ELSE Stored(r.key, r.fetched) /\ Goto(t, "total") /\ writer' = t
        /\ UNCHANGED upstream

Missed(t) == IF writer = t THEN Nothing ELSE writer

\* Mutant: one over the limit is let pass.
ReadTotalLate(t, fails) ==
    LET r == req[t]
    IN  /\ r.pc = "total"
        /\ IF fails \/ Total <= MaxBytes + 1 THEN Answer(t, "upstream")
           ELSE req' = [req EXCEPT ![t].pc = "evict", ![t].total = Total]
        /\ writer' = IF fails THEN Missed(t) ELSE writer
        /\ UNCHANGED <<cache, used, upstream>>

(* A total that cannot be read is taken for nothing.                        *)
ReadTotal(t, fails) ==
    LET r == req[t]
    IN  /\ r.pc = "total"
        /\ IF fails \/ Total <= MaxBytes THEN Answer(t, "upstream")
           ELSE req' = [req EXCEPT ![t].pc = "evict", ![t].total = Total]
        /\ writer' = IF fails THEN Missed(t) ELSE writer
        /\ UNCHANGED <<cache, used, upstream>>

(* An eviction that fails is passed over.                                   *)
Evict(t, fails) ==
    LET r == req[t]
    IN  /\ r.pc = "evict"
        /\ IF fails THEN writer' = Missed(t) /\ UNCHANGED <<cache, used>>
           ELSE Evicted(r.total) /\ UNCHANGED writer
        /\ Answer(t, "upstream")
        /\ UNCHANGED upstream

---------------------------------------------------------------------------
(* Time passes for a copy; upstream renders its tiles anew.                    *)
GetsOld(k) ==
    /\ cache[k] # Nothing /\ cache[k].age # "stale"
    /\ cache' = [cache EXCEPT ![k].age = IF @ = "new" THEN "hours" ELSE "stale"]
    /\ UNCHANGED <<used, upstream, req, writer>>

Rendered ==
    /\ upstream < MaxVersion
    /\ upstream' = upstream + 1
    /\ UNCHANGED <<cache, used, req, writer>>

TilesNext ==
    \/ \E t \in Threads, k \in Keys, p \in Profiles : Ask(t, k, p)
    \/ \E t \in Threads : Get(t) \/ GetAgain(t)
    \/ \E t \in Threads, answers \in BOOLEAN : Fetch(t, answers)
    \/ \E t \in Threads, fails \in BOOLEAN :
          Refresh(t, fails) \/ Put(t, fails) \/ ReadTotal(t, fails) \/ Evict(t, fails)
    \/ \E k \in Keys : GetsOld(k)
    \/ Rendered

TilesSpec == TilesInit /\ [][TilesNext]_tileVars

---------------------------------------------------------------------------
(* A tile that its request found in the cache never comes back blank,       *)
(* whatever other threads write and evict meanwhile, whatever the database    *)
(* fails to do and whatever upstream says (TileService.tile, "this is why    *)
(* any of this exists").                                                    *)
NeverBlank ==
    \A t \in Threads : req[t].held => req[t].answer # "miss"

(* Once the thread that wrote the newest row has looked at the total, and     *)
(* evicted if it had to, without an error, the cache is within its limit:     *)
(* whatever failed before, and though it evicts by a total it read before it *)
(* had the lock (TileCache._evict_if_needed).                                *)
BoundedAtRest ==
    writer # Nothing /\ req[writer].pc \notin {"total", "evict"} => Total <= MaxBytes
=============================================================================
