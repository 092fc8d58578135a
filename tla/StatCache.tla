-------------------------------- MODULE StatCache --------------------------------
(***************************************************************************)
(* The counts a feed shows for one video: a snapshot that lives for 15     *)
(* seconds, behind it the counters that actions keep, a base and shards,   *)
(* behind them the database. Readers fill the snapshot from the counters,  *)
(* or from the database; a like stores what it has read back; a comment    *)
(* stores the database's counts; the worker that handles the event of a    *)
(* like resets the counters and stores the snapshot.                       *)
(*                                                                         *)
(* Here are the reads and writes of the snapshot that ActionPipeline       *)
(* leaves out, without its failing messages, and the comments: nothing     *)
(* but a reset changes their number in the base. The shards appear as      *)
(* their sum. Favorites go as likes do.                                    *)
(*                                                                         *)
(* Source: internal/infra/cache/feed_stat_cache.go, action_state_cache.go, *)
(* application/interaction/comment.go, worker.go, application/feed.        *)
(***************************************************************************)
EXTENDS Integers, Sequences, FiniteSets

CONSTANTS
    Likers,        \* users who like the video, or take it back
    Commenters,    \* requests that write or delete a comment
    Viewers,       \* requests that read the counts
    NoStat,        \* no snapshot, no base
    MaxActions,    \* bound: likes, comments and reads of the run
    MaxMisses      \* bound: calls that fail

VARIABLES
    likers,        \* the database: active rows of interaction_action,
    comments,      \*   and the comment count of video_stat
    liked,         \* Redis: users whose action hash says active,
    statBase, shards, snapshot,
    behind,        \* comments have been written since the base was read
    likeEvents,    \* the queue: user and target of each action
    step, stat,    \* per process: next step, and the counts it has
    actions, misses

statVars == <<likers, comments, liked, statBase, shards, snapshot, behind,
              likeEvents, step, stat, actions, misses>>

Worker == "worker"
Processes == Likers \cup Commenters \cup Viewers \cup {Worker}

\* The counts of one video.
Counts == [like : Nat, comment : Nat]

\* Likes are counted; no process is of two kinds, and NoStat is no counts.
ASSUME LikersFinite == IsFiniteSet(Likers)
ASSUME ProcessesApart ==
    /\ Worker \notin Likers \cup Commenters \cup Viewers
    /\ Likers \cap (Commenters \cup Viewers) = {} /\ Commenters \cap Viewers = {}
ASSUME NoStatIsNone == NoStat \notin Counts

StatInit ==
    /\ likers = {}
    /\ comments = 1
    /\ liked = {}
    /\ statBase = NoStat
    /\ shards = 0
    /\ snapshot = NoStat
    /\ behind = FALSE
    /\ likeEvents = <<>>
    /\ step = [p \in Processes |-> "idle"]
    /\ stat = [p \in Processes |-> NoStat]
    /\ actions = 0
    /\ misses = 0

database == <<likers, comments>>
counters == <<liked, statBase, shards, behind>>
bound == <<actions, misses>>

\* GetVideoStat and BatchGetFeedStats.
DbStat == [like |-> Cardinality(likers), comment |-> comments]

Miss == misses < MaxMisses /\ misses' = misses + 1 /\ UNCHANGED actions

Begins == actions < MaxActions /\ actions' = actions + 1 /\ UNCHANGED misses

Go(p, label) == step' = [step EXCEPT ![p] = label]

Has(p, counts) == stat' = [stat EXCEPT ![p] = counts]

Ends(p) == Go(p, "idle") /\ Has(p, NoStat)

\* clampRedisCount.
Plus(counts, d) == [counts EXCEPT !.like = IF @ + d < 0 THEN 0 ELSE @ + d]

-----------------------------------------------------------------------------
(* Reading the counters: actionStatWithPresence. *)

\* HGETALL of the base; without one, a request that acts has the counts it
\* read before, a reader looks at the snapshot.
ReadBase(p) ==
    /\ step[p] = "base"
    /\ IF statBase # NoStat THEN Has(p, statBase) /\ Go(p, "shards")
       ELSE IF p \in Likers THEN UNCHANGED stat /\ Go(p, "shards")
       ELSE UNCHANGED stat /\ Go(p, "fallback")
    /\ UNCHANGED <<database, counters, snapshot, likeEvents, bound>>

\* actionStatFallback.
ReadFallback(p) ==
    /\ step[p] = "fallback"
    /\ Has(p, snapshot)
    /\ Go(p, "shards")
    /\ UNCHANGED <<database, counters, snapshot, likeEvents, bound>>

\* applyActionStatShardDeltas: without base, snapshot and shards nothing is
\* found; shards alone are added to nothing.
ReadShards(p) ==
    /\ step[p] = "shards"
    /\ IF stat[p] = NoStat /\ shards = 0
       THEN Go(p, "load") /\ UNCHANGED stat
       ELSE /\ Has(p, Plus(IF stat[p] = NoStat THEN [like |-> 0, comment |-> 0] ELSE stat[p], shards))
            /\ Go(p, "store")
    /\ UNCHANGED <<database, counters, snapshot, likeEvents, bound>>

\* Wrong: an action that cannot store the snapshot fails.
StoreSnapshotOrFail(p) ==
    /\ step[p] = "store"
    /\ \/ /\ snapshot' = stat[p]
          /\ IF p \in Likers THEN Go(p, "publish") /\ UNCHANGED stat ELSE Ends(p)
          /\ UNCHANGED bound
       \/ Miss /\ Ends(p) /\ UNCHANGED snapshot
    /\ UNCHANGED <<database, counters, likeEvents>>

\* setActionStatJSON; its error is dropped.
StoreSnapshot(p) ==
    /\ step[p] = "store"
    /\ \/ snapshot' = stat[p] /\ UNCHANGED bound
       \/ Miss /\ UNCHANGED snapshot
    /\ IF p \in Likers THEN Go(p, "publish") /\ UNCHANGED stat ELSE Ends(p)
    /\ UNCHANGED <<database, counters, likeEvents>>

-----------------------------------------------------------------------------
(* A viewer: GetStats, and the database for what is missing. *)

GetStats(p) ==
    /\ p \in Viewers
    /\ step[p] = "idle"
    /\ Begins
    /\ IF snapshot # NoStat THEN UNCHANGED <<step, stat>> ELSE Go(p, "base") /\ UNCHANGED stat
    /\ UNCHANGED <<database, counters, snapshot, likeEvents>>

\* A failing read of Redis is taken for a miss.
GetStatsFails(p) ==
    /\ p \in Viewers
    /\ step[p] \in {"base", "fallback", "shards"}
    /\ Miss
    /\ Go(p, "load") /\ Has(p, NoStat)
    /\ UNCHANGED <<database, counters, snapshot, likeEvents>>

BatchGetFeedStats(p) ==
    /\ step[p] = "load"
    /\ Has(p, DbStat)
    /\ Go(p, "store")
    /\ UNCHANGED <<database, counters, snapshot, likeEvents, bound>>

-----------------------------------------------------------------------------
(* A like, or taking it back: SetActionState and Publish. *)

BeginLike(u) ==
    /\ u \in Likers
    /\ step[u] = "idle"
    /\ Begins
    /\ Has(u, DbStat)
    /\ Go(u, "exec")
    /\ UNCHANGED <<database, counters, snapshot, likeEvents>>

\* One MULTI/EXEC: the hash, the base if there is none, the shard.
SetLike(u) ==
    /\ step[u] = "exec"
    /\ liked' = IF u \in liked THEN liked \ {u} ELSE liked \cup {u}
    /\ statBase' = IF statBase = NoStat THEN stat[u] ELSE statBase
    /\ behind' = IF statBase = NoStat THEN stat[u].comment # comments ELSE behind
    /\ shards' = shards + (IF u \in liked THEN -1 ELSE 1)
    /\ Go(u, "base")
    /\ UNCHANGED <<database, snapshot, likeEvents, stat, bound>>

PublishLike(u) ==
    /\ step[u] = "publish"
    /\ likeEvents' = Append(likeEvents, [user |-> u, active |-> u \in liked])
    /\ Ends(u)
    /\ UNCHANGED <<database, counters, snapshot, bound>>

-----------------------------------------------------------------------------
(* The worker: HandleActionChanged and ReconcileActionStat. *)

ApplyLike ==
    /\ step[Worker] = "idle"
    /\ likeEvents # <<>>
    /\ likers' = IF Head(likeEvents).active THEN likers \cup {Head(likeEvents).user}
                 ELSE likers \ {Head(likeEvents).user}
    /\ likeEvents' = Tail(likeEvents)
    /\ Go(Worker, "read")
    /\ UNCHANGED <<comments, counters, snapshot, stat, bound>>

ReadStat ==
    /\ step[Worker] = "read"
    /\ Has(Worker, DbStat)
    /\ Go(Worker, "reset")
    /\ UNCHANGED <<database, counters, snapshot, likeEvents, bound>>

ResetBase ==
    /\ step[Worker] = "reset"
    /\ statBase' = stat[Worker]
    /\ behind' = (stat[Worker].comment # comments)
    /\ Go(Worker, "drop")
    /\ UNCHANGED <<database, liked, shards, snapshot, likeEvents, stat, bound>>

DropCounterShards ==
    /\ step[Worker] = "drop"
    /\ shards' = 0
    /\ Go(Worker, "store")
    /\ UNCHANGED <<database, liked, statBase, behind, snapshot, likeEvents, stat, bound>>

-----------------------------------------------------------------------------
(* A comment: CreateComment and DeleteComment, then syncCommentCount. *)

CommitComment(c) ==
    /\ c \in Commenters
    /\ step[c] = "idle"
    /\ Begins
    /\ \E d \in {-1, 1} : comments + d >= 0 /\ comments' = comments + d
    /\ behind' = (statBase # NoStat)
    /\ Has(c, [like |-> 0, comment |-> comments'])
    /\ Go(c, "sync")
    /\ UNCHANGED <<likers, liked, statBase, shards, snapshot, likeEvents>>

\* GetVideoStat: what it says of the comments is replaced by the count of the
\* transaction; when it fails the other counts are zero.
SyncCommentCount(c) ==
    /\ step[c] = "sync"
    /\ \/ Has(c, [like |-> DbStat.like, comment |-> stat[c].comment]) /\ UNCHANGED bound
       \/ Miss /\ UNCHANGED stat
    /\ Go(c, "store")
    /\ UNCHANGED <<database, counters, snapshot, likeEvents>>

-----------------------------------------------------------------------------
(* Time. *)

AtRest == likeEvents = <<>> /\ \A p \in Processes : step[p] = "idle"

SnapshotExpires ==
    /\ snapshot # NoStat
    /\ snapshot' = NoStat
    /\ UNCHANGED <<database, counters, likeEvents, step, stat, bound>>

\* No request and no event lasts for a day. Every action renews the base.
CountersExpire ==
    /\ AtRest
    /\ statBase # NoStat
    /\ snapshot = NoStat
    /\ statBase' = NoStat
    /\ shards' = 0
    /\ behind' = FALSE
    /\ UNCHANGED <<database, liked, snapshot, likeEvents, step, stat, bound>>

StatNext ==
    \/ \E p \in Processes :
        \/ ReadBase(p) \/ ReadFallback(p) \/ ReadShards(p) \/ StoreSnapshot(p)
        \/ GetStats(p) \/ GetStatsFails(p) \/ BatchGetFeedStats(p)
        \/ BeginLike(p) \/ SetLike(p) \/ PublishLike(p)
        \/ CommitComment(p) \/ SyncCommentCount(p)
    \/ ApplyLike \/ ReadStat \/ ResetBase \/ DropCounterShards
    \/ SnapshotExpires \/ CountersExpire

-----------------------------------------------------------------------------
\* What a viewer is shown who finds no snapshot and is not disturbed.
ShownStat == IF statBase = NoStat /\ shards = 0 THEN DbStat
             ELSE Plus(IF statBase = NoStat THEN [like |-> 0, comment |-> 0] ELSE statBase, shards)

(* Wrong counts wear off: what readers, likes and comments store past each *)
(* other never gets into the counters. At rest, when the snapshot of 15    *)
(* seconds is gone, the likes shown are those of the database, and so are  *)
(* the comments, unless some were written since the base was read: their   *)
(* number then goes back to the old one, until the next change of a like,  *)
(* or for a day.                                                           *)
CountsSettle ==
    AtRest /\ snapshot = NoStat =>
        /\ ShownStat.like = DbStat.like
        /\ ShownStat.comment = DbStat.comment \/ behind
-----------------------------------------------------------------------------
(* The strengthening that is inductive.                                    *)

StatSpec == StatInit /\ [][StatNext]_statVars

StepsOf(p) == IF p = Worker THEN {"idle", "read", "reset", "drop", "store"}
              ELSE IF p \in Likers THEN {"idle", "exec", "base", "shards", "store", "publish"}
              ELSE IF p \in Commenters THEN {"idle", "sync", "store"}
              ELSE {"idle", "base", "fallback", "shards", "load", "store"}

StatTypes ==
    /\ likers \subseteq Likers
    /\ comments \in Nat
    /\ shards \in Int
    /\ statBase \in Counts \cup {NoStat}
    /\ snapshot \in Counts \cup {NoStat}
    /\ behind \in BOOLEAN
    /\ likeEvents \in Seq([user : Likers, active : BOOLEAN])
    /\ step \in [Processes -> UNION {StepsOf(p) : p \in Processes}]
    /\ \A p \in Processes : step[p] \in StepsOf(p)
    /\ stat \in [Processes -> Counts \cup {NoStat}]

\* Who has counts to go on with.
CountsAtHand ==
    \A p \in Processes :
        (step[p] \in {"exec", "sync", "reset", "drop", "store", "publish"} \/ (p \in Likers /\ step[p] # "idle"))
            => stat[p] # NoStat

\* A reset from the database is owed: an event is queued or just applied, or a
\* like is about to publish one.
ResetOwed ==
    \/ likeEvents # <<>>
    \/ step[Worker] = "read"
    \/ \E u \in Likers : step[u] \in {"base", "shards", "store", "publish"}

\* Nobody but the worker changes the likes in the database: what it has read
\* stays true until it applies the next event.
WorkerIsUpToDate ==
    /\ step[Worker] \in {"reset", "drop", "store"} => stat[Worker].like = Cardinality(likers)
    /\ step[Worker] = "drop" /\ ~ResetOwed => statBase # NoStat /\ statBase.like = Cardinality(likers)

\* Unless a reset is owed, or half done, the counters are right.
CountersRight ==
    step[Worker] \in {"idle", "store"} /\ ~ResetOwed =>
        /\ shards = 0
        /\ statBase # NoStat => statBase.like = Cardinality(likers)

CommentsRight == statBase # NoStat => statBase.comment = comments \/ behind

StatIInv == StatTypes /\ CountsAtHand /\ WorkerIsUpToDate /\ CountersRight /\ CommentsRight
================================================================================
