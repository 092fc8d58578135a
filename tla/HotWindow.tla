------------------------------- MODULE HotWindow -------------------------------
(***************************************************************************)
(* The hot list of the last hour. Every interaction adds to the bucket of  *)
(* its minute. A page is cut from a window: the sum of the buckets of the  *)
(* hour that ends with the minute in the cursor. The window lives fifteen  *)
(* seconds; a reader who does not find it builds it, and several may build *)
(* it at the same time: the sum is one command; a pipeline then removes    *)
(* what is not positive and sets the lifetime, in one step here. A cursor  *)
(* holds the minute and an offset.                                         *)
(*                                                                         *)
(* Left out: buckets end two hours after their last change, so a session   *)
(* that goes on for more than an hour may lose its early minutes.          *)
(*                                                                         *)
(* Source: application/feed/strategy_hot.go, infra/cache/hot_rank_cache.go *)
(***************************************************************************)
EXTENDS Cursors

CONSTANTS
    HotVideos,    \* videos, 1..n
    HotReaders,   \* goroutines that serve readers, 1..n
    HotMinutes,   \* bound: the minutes of the run, 0..m
    WindowLength, \* minutes of a window
    HotLimit,     \* videos of a page
    NoWindow,
    MaxScores,    \* bound: scores added
    MaxLosses     \* bound: windows that expire, and Redis calls that fail

ASSUME VideosAreNumbers == HotVideos \subseteq Int /\ IsFiniteSet(HotVideos)

ASSUME MinutesAreNumbers == HotMinutes \subseteq Int /\ IsFiniteSet(HotMinutes) /\ 0 \in HotMinutes

ASSUME HotLimitIsNumber == HotLimit \in Nat

ASSUME NoWindowIsNone == \A vs \in SUBSET HotVideos : NoWindow \notin [vs -> Int]

VARIABLES
    minute,       \* the clock
    bucket,       \* bucket[m][v]: score of the minute, for the videos it has
    window,       \* window[m]: the stored sum, or NoWindow
    expires,      \* minutes whose window has a lifetime
    hot,          \* hot[r]: the session of a reader
    scores, losses

hotVars == <<minute, bucket, window, expires, hot, scores, losses>>

NoReading == [at |-> "idle", end |-> 0, offset |-> 0, seen |-> <<>>, quiet |-> TRUE, kept |-> TRUE]

HotInit ==
    /\ minute = 0
    /\ bucket = [m \in HotMinutes |-> <<>>]
    /\ window = [m \in HotMinutes |-> NoWindow]
    /\ expires = {}
    /\ hot = [r \in HotReaders |-> NoReading]
    /\ scores = 0
    /\ losses = 0

Loss == losses < MaxLosses /\ losses' = losses + 1

\* The minutes of the window that ends with m.
MinutesOf(m) == {k \in HotMinutes : m - WindowLength < k /\ k <= m}

Score(m, v) == IF v \in DOMAIN bucket[m] THEN bucket[m][v] ELSE 0

\* ZUNIONSTORE over the minutes ms: a video is in the sum when a bucket has it.
Union(ms) ==
    [v \in UNION {DOMAIN bucket[m] : m \in ms} |-> SumFunction([m \in ms |-> Score(m, v)])]

Positive(sum) == {v \in DOMAIN sum : sum[v] > 0}

\* A stored window, if it is there, has the positive scores of the sum.
Agrees(stored, sum) ==
    stored # NoWindow =>
        /\ Positive(stored) = Positive(sum)
        /\ \A v \in Positive(sum) : stored[v] = sum[v]

UpToDate(m) == Agrees(window[m], Union(MinutesOf(m)))

-----------------------------------------------------------------------------
(* Scores, and time. *)

\* AddHotScore: a like or its withdrawal. The time was taken before the
\* call, perhaps in the minute before.
AddHotScore ==
    /\ scores < MaxScores
    /\ \E m \in {minute - 1, minute} \cap HotMinutes : \E v \in HotVideos : \E delta \in {-1, 1} :
        /\ bucket' = [bucket EXCEPT ![m] =
                [u \in DOMAIN @ \cup {v} |-> Score(m, u) + (IF u = v THEN delta ELSE 0)]]
        /\ hot' = [r \in HotReaders |->
                    [hot[r] EXCEPT !.quiet = @ /\ (hot[r].at = "idle" \/ m \notin MinutesOf(hot[r].end))]]
    /\ scores' = scores + 1
    /\ UNCHANGED <<minute, window, expires, losses>>

MinuteTurns ==
    /\ minute + 1 \in HotMinutes
    /\ minute' = minute + 1
    /\ UNCHANGED <<bucket, window, expires, hot, scores, losses>>

WindowExpires ==
    /\ \E m \in expires :
        /\ window' = [window EXCEPT ![m] = NoWindow]
        /\ expires' = expires \ {m}
        /\ hot' = [r \in HotReaders |->
                    [hot[r] EXCEPT !.kept = @ /\ (hot[r].end # m \/ hot[r].at \notin {"trim", "range"})]]
    /\ Loss
    /\ UNCHANGED <<minute, bucket, scores>>

-----------------------------------------------------------------------------
(* A page: listPageFromHotWindow and ListHotWindowPage. *)

\* The first page takes the minute of the clock.
OpenHot(r) ==
    /\ hot[r].at = "idle"
    /\ r = Min({q \in HotReaders : hot[q].at = "idle"})
    /\ hot' = [hot EXCEPT ![r] = [NoReading EXCEPT !.at = "exists", !.end = minute,
                                                   !.quiet = UpToDate(minute)]]
    /\ UNCHANGED <<minute, bucket, window, expires, scores, losses>>

\* The next one takes the minute and the offset of the cursor.
NextHot(r) ==
    /\ hot[r].at = "shown"
    /\ hot' = [hot EXCEPT ![r].at = "exists"]
    /\ UNCHANGED <<minute, bucket, window, expires, scores, losses>>

ExistsWindow(r) ==
    /\ hot[r].at = "exists"
    /\ hot' = [hot EXCEPT ![r].at = IF window[hot[r].end] = NoWindow THEN "union" ELSE "range"]
    /\ UNCHANGED <<minute, bucket, window, expires, scores, losses>>

\* Wrong: the window is summed up to now, whatever minute it is for.
UnionNow(r) ==
    /\ hot[r].at = "union"
    /\ LET end == hot[r].end
           sum == Union(MinutesOf(minute))
       IN  window' = [window EXCEPT ![end] = IF DOMAIN sum = {} THEN NoWindow ELSE sum]
    /\ expires' = expires \ {hot[r].end}
    /\ hot' = [hot EXCEPT ![r].at = "trim"]
    /\ UNCHANGED <<minute, bucket, scores, losses>>

\* It replaces the window, lifetime included; an empty sum deletes it.
UnionWindow(r) ==
    /\ hot[r].at = "union"
    /\ LET end == hot[r].end
           sum == Union(MinutesOf(end))
       IN  window' = [window EXCEPT ![end] = IF DOMAIN sum = {} THEN NoWindow ELSE sum]
    /\ expires' = expires \ {hot[r].end}
    /\ hot' = [hot EXCEPT ![r].at = "trim"]
    /\ UNCHANGED <<minute, bucket, scores, losses>>

\* ZREMRANGEBYSCORE and EXPIRE.
TrimWindow(r) ==
    /\ hot[r].at = "trim"
    /\ LET end == hot[r].end
           old == window[end]
           new == IF old = NoWindow THEN {} ELSE Positive(old)
       IN  /\ window' = [window EXCEPT ![end] = IF new = {} THEN NoWindow ELSE [v \in new |-> old[v]]]
           /\ expires' = IF new = {} THEN expires \ {end} ELSE expires \cup {end}
    /\ hot' = [hot EXCEPT ![r].at = "range"]
    /\ UNCHANGED <<minute, bucket, scores, losses>>

\* A sorted set: higher scores first, then larger members.
Sorted(stored) ==
    IF stored = NoWindow THEN <<>> ELSE RankedBy({<<stored[v], v>> : v \in DOMAIN stored}, Newer)

\* ZREVRANGE from the offset.
RangeWindow(r) ==
    /\ hot[r].at = "range"
    /\ LET sorted == Sorted(window[hot[r].end])
           rest   == Len(sorted) - hot[r].offset
           page   == [i \in 1..Min({HotLimit, rest}) |-> sorted[hot[r].offset + i][2]]
       IN  hot' = [hot EXCEPT ![r].at = IF rest > HotLimit THEN "shown" ELSE "done",
                              ![r].offset = @ + Len(page),
                              ![r].seen = @ \o page]
    /\ UNCHANGED <<minute, bucket, window, expires, scores, losses>>

\* The reader has enough.
CloseHot(r) ==
    /\ hot[r].at \in {"shown", "done"}
    /\ hot' = [hot EXCEPT ![r] = NoReading]
    /\ UNCHANGED <<minute, bucket, window, expires, scores, losses>>

\* A Redis call fails, and the page with it; a window that was not trimmed
\* stays, without a lifetime.
FailHot(r) ==
    /\ hot[r].at \in {"exists", "union", "trim", "range"}
    /\ hot' = [hot EXCEPT ![r] = NoReading]
    /\ Loss
    /\ UNCHANGED <<minute, bucket, window, expires, scores>>

HotNext ==
    \/ AddHotScore \/ MinuteTurns \/ WindowExpires
    \/ \E r \in HotReaders :
        \/ OpenHot(r) \/ NextHot(r) \/ ExistsWindow(r) \/ UnionWindow(r) \/ TrimWindow(r)
        \/ RangeWindow(r) \/ CloseHot(r) \/ FailHot(r)

HotSpec == HotInit /\ [][HotNext]_hotVars

-----------------------------------------------------------------------------
(* A session that begins with an up-to-date window, and during which no    *)
(* score of its hour changes, shows no video with a positive score twice,  *)
(* whether the window expires, is built by two readers at once, or stays   *)
(* untrimmed between its pages, and however much time passes. At the end   *)
(* it has shown all of them, unless the window expired between the look    *)
(* whether it is there and the reading of the page: that page is empty and *)
(* ends the list.                                                          *)
HotPagesAgree ==
    \A r \in HotReaders :
        LET seen     == hot[r].seen
            positive == Positive(Union(MinutesOf(hot[r].end)))
        IN  hot[r].quiet =>
              /\ \A i, j \in DOMAIN seen : (seen[i] = seen[j] /\ seen[i] \in positive) => i = j
              /\ (hot[r].at = "done" /\ hot[r].kept) => positive \subseteq ToSet(seen)

-----------------------------------------------------------------------------
(* The strengthening that is inductive. *)

Sum(m) == Union(MinutesOf(m))

HotSession == [at : {"idle", "exists", "union", "trim", "range", "shown", "done"},
               end : HotMinutes, offset : Nat, seen : Seq(HotVideos),
               quiet : BOOLEAN, kept : BOOLEAN]

AreScores(f) == DOMAIN f \subseteq HotVideos /\ f \in [DOMAIN f -> Int]

HotTypes ==
    /\ minute \in HotMinutes
    /\ DOMAIN bucket = HotMinutes /\ \A m \in HotMinutes : AreScores(bucket[m])
    /\ DOMAIN window = HotMinutes
    /\ \A m \in HotMinutes : window[m] # NoWindow => AreScores(window[m])
    /\ hot \in [HotReaders -> HotSession]
    /\ \A r \in HotReaders : hot[r].at = "idle" => hot[r].seen = <<>>

\* Where a video comes in the list of a sum.
PlaceIn(sum, v) == Cardinality({u \in Positive(sum) : Newer(<<sum[u], u>>, <<sum[v], v>>)}) + 1

\* A quiet session and the stored window go by the sum: what has a positive score was
\* seen in its place, all places up to the offset were seen, and a window that was
\* found or built is still there.
ReadsBy(sum, stored, x) ==
    x.quiet = TRUE /\ x.at # "idle" =>
        /\ Agrees(stored, sum)
        /\ x.offset = Len(x.seen)
        /\ \A i \in 1..Len(x.seen) : x.seen[i] \in Positive(sum) => PlaceIn(sum, x.seen[i]) = i
        /\ \A v \in Positive(sum) : PlaceIn(sum, v) <= x.offset => v \in ToSet(x.seen)
        /\ x.at = "done" /\ x.kept = TRUE => Positive(sum) \subseteq ToSet(x.seen)
        /\ x.at \in {"trim", "range"} /\ x.kept = TRUE /\ Positive(sum) # {} => stored # NoWindow

HotIInv ==
    /\ HotTypes
    /\ \A r \in HotReaders : ReadsBy(Sum(hot[r].end), window[hot[r].end], hot[r])
================================================================================
