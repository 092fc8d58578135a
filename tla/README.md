# Verification of FeedVideoPlatform

TLA+ models of the backend of a short-video platform (Go; `src/backend`), checked with TLC and, but
for liveness, proved with TLAPS. The reference is the code: every definition is translated from it, and
`PROJECT.json` names the lines each definition stands for. Paths below are relative to
`src/backend/internal` unless they start with `cmd` or `frontend`.

## 1. Inventory: what the system is made of

Two processes share three stores. The **API** (`cmd/feed`, `bootstrap/api.go`) serves HTTP; the **worker**
(`cmd/worker`, `bootstrap/worker.go`) consumes four RabbitMQ queues. MySQL (through GORM) holds the truth,
Redis holds states, counters, feed indexes and tickets that may disappear at any time, and RabbitMQ carries
events from the API to the worker, at least once. A third program (`cmd/rebuild-embeddings`) is a batch job.
Any number of API processes may run; each serves requests in concurrent goroutines.

| component | state it keeps | operations | talks to | what makes it correct |
|---|---|---|---|---|
| interaction transactions (`infra/persistence/interaction`) | rows of `interaction_action`, `interaction_comment`, counters of `video_stat` | SetAction, CreateComment, DeleteComment | video rows (row locks) | counters count the rows; a key makes one comment; circles of waiting only among insertions |
| action pipeline (`application/interaction`, `infra/cache/action_state_cache.go`, `feed_stat_cache.go`) | Redis hash per user action, base and shard counters | Like, Unlike, Favorite, Unfavorite, reconcile | queue `action_changed`, SetAction | Redis agrees with MySQL at rest; an answer becomes the row |
| statistics cache (`infra/cache/feed_stat_cache.go`) | JSON snapshot (15 s), base, shards | GetStats, SetStats, SetVideoStat, ReconcileActionStat | feed readers, comments, worker | wrong counts wear off |
| message delivery (`infra/mq`) | queues, retry header, dead-letter queues | publish, consume, retry, dead-letter | every worker | nothing is lost, retries are bounded |
| queue topology (`infra/mq/topology.go`) | queues, their arguments, bindings | declare, migrate | every process that starts | the queue is ready, the migration costs nothing |
| worker bootstrap (`bootstrap/worker.go`, `cmd/worker`) | connections, consumer goroutines | StartWorkers | MQ, database | a running worker consumes |
| view events (`application/exposure`, `infra/cache/event_dedup_cache.go`, `user_interest_cache.go`, `persistence/recommendation`) | exposure rows, dedup keys, interest vectors | record view, Claim, Release, Apply | queue `view_event_recorded` | an event is applied once |
| following feed (`application/relation`, `application/video/fanout_worker.go`, `infra/cache/following_index_cache.go`, `application/feed/strategy_following.go`) | follow rows and counters, inbox and outbox indexes | Follow, Unfollow, fan-out, read | queue `video_published` | counters count the follows; a follower finds the videos |
| feed pages and cards (`application/feed`, `infra/cache/feed_card_cache.go`, `feed_page_cache.go`, `hot_rank_cache.go`) | page, card and author-card caches, hot buckets and windows | load page, invalidate, add score | video and account services | a list is shown once; stale cards go |
| videos (`application/video`, `persistence/video`) | video rows | CreatePublished, Delete, Get, list | publisher, card cache | one key, one video |
| messages (`application/message`, `persistence/message`) | message rows | create, list, mark read | realtime stream | one message per event and key |
| realtime (`infra/realtime`, `interfaces/http/message/stream.go`) | connections per user, tickets, Redis Pub/Sub | Register, push, Unregister, Close, tickets | message service | no connection is forgotten; a stream is told everything |
| recommendation (`application/recommendation`, `domain/recommendation`) | exposures; candidates are computed | Recommend, DecideExposures, SaveExposures | interest vectors | nothing recommended twice |
| embedding (`application/embedding`) | vectors per video and model | rebuild, generate | queue `video_published` | a rebuild leaves no gap |
| accounts and tokens (`application/account`, `infra/jwt`) | account rows; tokens are not stored | Register, Login, UpdateProfile | card cache | an account is one user |
| rate limit (`interfaces/http/middleware/rate_limit.go`) | buckets per address, in memory | limit, cleanup | login, registration | the rate holds although idle clients are forgotten: for login; for registration it does not |
| upload and media (`application/upload`, `infra/storage`, `infra/media`) | files | save, probe, rewrite, remove | ffmpeg | no broken file is announced, none left behind |
| playback (`application/playback`, `persistence/playback`) | settings, quality reports | GetConfig, ListPreloadVideos, CreateQoSReport | player | the list goes on behind the current video |
| HTTP, configuration, metrics | - | decoding, routing, wiring | everything | - |

### Where it is hard

* A like is written to Redis first, published second and written to MySQL third, by another process. Nothing
  ties the three together: a crash, a failed publication, an expired hash, a redelivery or a reordering
  between two of them leaves them different.
* Counters are kept three times (MySQL, Redis base plus shards, JSON snapshot) and reset from each other
  with a read and a later write.
* Deliveries are at least once, retries go to the tail of the exchange the message came from, and acks may
  be lost, so every consumer sees duplicates and reorderings.
* Caches are filled from the database by readers while writers invalidate them, with pipelines between whose
  commands others run.
* Two users who follow each other at the same time lock the same rows in opposite orders; first actions and
  creations of comments lock gaps in unique indexes that span all videos.
* Goroutines of the realtime hub race to close channels, between two locks.
* Lists are read page by page while they change, by cursors that hold a time and an id, an offset, or a score.

`PROJECT.json` lists the hazards with their lines; sections 3 and 4 say what the models show about them.

## 2. Plan

Written, in this order (`A -> B`: A extends or instantiates B):

1. `ActionRules` — the pure rules of an action row (delta, idempotency key, clamping), shared by all writers.
2. `InteractionTx -> ActionRules`, and `InteractionLedger`, the abstract specification it implements;
   `InteractionLocks` — who waits for whom among the same transactions, on several videos.
3. `ActionPipeline -> ActionRules` — the same rows behind Redis and RabbitMQ. `SetAction` is one step there,
   which the refinement of 2 justifies.
4. `RabbitDelivery` — delivery, retries and dead letters, for any handlers; `QueueTopology` — how the queues
   come into being; `WorkerProcess` — the life of the process that consumes them.
5. `ViewEvents` — idempotency keys and the interest vector, on top of the same delivery.
6. `FollowingFeed` — the index of the following feed between follows, publications and the fan-out.
7. `InteractionTxProofs`, `ActionPipelineProofs`, `BrokerProofs` for both parts of 4, `ViewEventsProofs`,
   `FollowingFeedProofs`, and `FeedCardsProofs` for 9, `RealtimeProofs` for 10, `ApiProofs` for `FollowTx`
   in 8, `StatCache` in 9, and all of 11 and 12.
8. `FollowTx -> ActionRules` — `SetFollow` with its row locks, and `FollowLedger`, which it implements and
   which justifies the one step `FollowingFeed` takes.
9. `FeedCards -> CardCache -> Videos` — creation and deletion of videos and changes of the profile against
   the card cache and its readers; `StatCache` — the JSON snapshot over base and shards.
10. `Realtime -> Hub, Messages` — messages, notifications, tickets, streams and the hub, lock by lock.
11. `FeedPages -> Cursors`, `HotWindow`, `Recommend`, `Playback` — lists read page by page while they change.
12. `Upload`, `Embeddings`, `Accounts`, `RateLimit` — the small components.

What is left, the most important first:

13. The page of the following feed that is merged from the inbox, the outboxes of big authors and rows, with
    its cursor: whole seconds and the id modulo 10^6 in the index, nanoseconds in the order of the page.
14. The composition of `ActionPipeline` and `StatCache`, which share base and shards, under one set of faults.

## 3. What is modelled and what the runs show

The properties are named in each `.cfg`; the comment above each says which line of the code it is about.
Every bound is a CONSTANT of the module (named `Max...`, `TTL`, or the like) or the size of a set.
`CHECK_DEADLOCK FALSE` appears wherever the bounds let a finished system stop; `InteractionTx`,
`InteractionLocks`, `FollowTx` and `FeedCards`, which never stop, are checked for deadlock.

### InteractionTx and InteractionLedger — `persistence/interaction/gorm.go`

State: the rows of one video (`published`, `action`, `comment`, the counters `tally` and `commentTally`) and,
per goroutine, the request, program counter, locked rows and locals of its transaction. One action per
statement that takes a lock or writes: `SetAction` is LockVideo, LockAction, LockStat, Commit; `CreateComment`
starts with the unlocked lookup of its key; `DeleteComment` locks comment, video, counters. Writes become
visible at Commit. `Abort` rolls back anywhere: errors, cancelled requests, deadlock victims. One video is
enough for the values: no transaction reads or writes rows of two. Who waits for whom does reach across
videos, and is the matter of `InteractionLocks`; here the look at an action row that does not exist locks
nothing, which the lock of the video makes harmless.

Run `interaction_tx` (a behaviour of `MCInteractionTx` is of this module or of the next). The rows (two
goroutines, two users, one action type, one key, two comment ids, an author who may delete other users'
comments): counters equal the rows they count, whatever interleaves or rolls back; a retried key never makes
two comments; nothing changes once a video is withdrawn; and every step is a step of `InteractionLedger`, in
which each call is atomic. Two goroutines suffice for a lost update and a duplicate creation, both of which
the mutants produce.

### InteractionLocks — `persistence/interaction/gorm.go`, `model.go`

State: which rows the two unique indexes have, over all videos, by whom they were inserted and not yet
committed, and per session its call, its next statement, the records it has locked and the gaps. The database
is opened with MySQL's default isolation, repeatable read. There a `SELECT ... FOR UPDATE` that finds no row
(`gorm.go:116`) locks the gap the row would stand in; several sessions may lock one gap, and each then waits for
the others to insert into it (135). An insertion that meets an uncommitted row with its key waits for its
transaction, holding on to its request for the row and the gap before it, so that of several creations with
one key those left behind wait for each other when the first is rolled back (204). A row has a place, its rank
in the index; inserting and rolling back split and join gaps.

Run `interaction_tx`, the locks (three sessions, three videos, two neighbouring places in each index, seven
calls: first and later actions on two videos, one key commented on three videos, its neighbour, and the
deletion of a comment): transactions do wait in circles. InnoDB then rolls one back: the worker's event is
retried, a request is answered with the error. `CirclesAreOfInserts` says which circles there are: whatever
set of transactions waits for one another, insertions of that set, on different videos, already do; whoever
waits for a video or a comment may stand behind such a circle and is in none of its own, though deletions lock
the comment first and the others the video; looking for an action and locking counters wait for nobody.
Three sessions are the least for two creations left behind by a third, two neighbouring places for a gap that
splits and joins. Left out: the gaps locked by searches for a video, a comment or counters that are not
there, whose transactions end at once. A comment without a key is a call whose place nobody else has.

### ActionPipeline — `application/interaction`, `action_state_cache.go`, `feed_stat_cache.go`

State: database rows, Redis hashes, base and the sum of the shards, the queue and its dead letters, per
request and per worker a program counter with what was read earlier, acks in flight, and what each user was
last told. `Begin` reads the counters, `SetState` is the WATCH/MULTI/EXEC, `Publish` or `PublishFails` and
`SyncApply` follow; the worker's steps are `Apply`, `ReadStat`, `SetBase`, `DropShards`, `Ack`. The sixteen
shards are one sum per counter: readers add them up and one DEL removes them all. `Crash` puts every message
without a received ack back at its place in the queue. Keys expire only while no request runs: a request
lasts milliseconds, a key at least a day. Every write renews the base's life along with its shard's, so the
shards expire first.

| run | setting | shows |
|---|---|---|
| pipeline_counters | 2 users, 2 concurrent requests, 1 worker, all eight kinds of fault | when nothing is under way Redis shows the database's counts (`DrainedCountersMatch`), and everything sent ends handled or dead-lettered (`EventuallyDrained`) |
| pipeline_answers | 1 user, 4 requests one after the other, 2 keys, crashes, failing resets, a withdrawn video | what the user was last told is what the row becomes, through redeliveries of several handled and unhandled events |

`happened` records the kinds of faults a run has met, so that `DrainedCountersMatch` can say which of them it
does not survive: a request that ends without publishing (`interrupt`), a failed publication (`publish`, the
fallback writes only the database), a reset given up (`reconcile`), and a dead-lettered event.

Two behaviours of the code lie outside these runs. An Unlike after the hash's 30 days starts from an unset
status: its delta is zero, and it is answered with success and publishes nothing (`action.go:17`,
`action_state_cache.go:54`). And with two workers on the queue a reset with an older count may be the last one,
since each reads the counters and writes them later (`worker.go:79-84`); `StartWorkers` starts one consumer
per queue and process, so this needs a second worker process.

Two users and two requests are the least for a stale `initialStat` to meet a reset; four requests and two
faults the least for a redelivered event to be overtaken by a newer one of the same user. The first event of
a user after any number of others behaves as in these runs, because rows and hashes only keep the last status
and key.

### RabbitDelivery — `infra/mq/consumer.go`, `publisher.go`

State: per queue the ready deliveries, dead letters, processed events and failures, per worker and queue the
delivery in hand. A handler either can process an event or never can (`Poison`), or fails by a fault; what it
does is the other modules' matter. Prefetch is one: a larger prefetch only reorders, and no property here
speaks of order. Run `broker` (two workers; a good, a poisonous and an undecodable message; failing handlers
and republications, crashes): nothing is lost, no message exceeds its retry budget without a fault, and the
queue drains. `MCBroker` starts to deliver where the processes of `QueueTopology` have ended with both workers
consuming a queue that has its dead-letter exchange. The retry goes to the *exchange*: when two queues are bound
to it with one key, as `gcfeed.video.published` and `gcfeed.video.embedding` are, retries of either are delivered
to both, and an event may fail more than MaxRetries + 1 times in one queue without any fault
(`consumer.go:109`). `RetryBudget` is checked for one queue.

### QueueTopology — `infra/mq/topology.go`, `rabbitmq.go`

State: one business queue (does it exist, has it the dead-letter argument, is it bound, how many messages are
ready), its dead-letter queue, the consumers, and where each starting process is. The broker's rules (406,
404, if-unused, if-empty) are external and written in the module's head. Run `broker`, at its beginning (an API
process and two workers start over a queue of an older version while messages arrive): when all have ended the
queue exists and is bound, the migration deleted no message that had reached the queue and no queue in use, and
every start ends. A start may fail (404 while binding) when another process has just deleted the queue, and
messages published between deletion and binding are dropped by the broker (`dropped`); both are behaviours of
the code that no comment denies.

### WorkerProcess — `cmd/worker/main.go`, `bootstrap/worker.go`

The run `worker_stops_at_once` shows that the calls `StartWorkers` defers (rabbitMQ.Close, line 59;
sqlDB.Close, line 45) run when it returns, which is before `main` starts to wait: the connection of the
consumers is closed while the process reports that it is running. The other modules describe a worker whose
connections are open, that is, the code with these calls moved to the end of `main`.

### ViewEvents — `application/exposure`, `event_dedup_cache.go`, `user_interest_cache.go`, `persistence/recommendation/gorm.go`

State: committed rows, events about to be published, the queue, idempotency keys, the cached vector (how often
each event counts in it) with its remaining life, per worker the delivery, step and vector read, per
recommendation request the vector it has aggregated, and the number of faults of each kind. Run `view_events`
(two workers, one reader, an event with and one without weight, two faults of any kind, one retry): an event
is applied once, plus once for each Redis call without an answer (`AppliedOnce`); an event that is neither
applied nor dead-lettered was lost by a failed publication, a crash or a failed release, one event per fault
(`LossesExplained`); and the queue drains although the SET XX on an expired vector fails an event without any
fault. A rebuilt vector may already
contain an event the worker then adds again; the model reaches this without a fault, and no property is stated
of it (`user_interest_cache.go:34` calls the cache an optimisation).

### FollowingFeed — `application/relation`, `application/video/fanout_worker.go`, `following_index_cache.go`

State: the active follow rows (follower_count is their number), how far each video's publication has come, the
queue, the inboxes and outboxes, and per request and worker its next step with what it has read. One action per
call to a store: `Follow` and `Unfollow` are the transaction, then `SkipBackfill` or `CountForBackfill`,
`ListRecent` and one `BackfillOne` per video, or `FindInboxAuthor` (ZRANGE) and `RemoveFound` (ZREM); the worker
decides between push and pull in `Deliver` and then takes `ListFollowers` and `AddBatch` in turn. Requests that
fail before the transaction commits change nothing and are left out. Two history variables that the code does
not have say what it answers for: `covered` holds the pairs whose `Follow` has been answered with success and
which have met nothing since that the index does not survive. What that is, is written where it happens, with
`Spoil`: an Unfollow crossing the Follow, a big author losing his last follower too many, entries pushed out
of a full inbox or outbox, an author with more videos than a backfill takes, an expired key. A new follower of
an author who has just become big is covered only if the outbox has all his videos.

Run `following_feed` (two users, two authors with three videos, two requests at a time, batches of one,
boxes of two videos, one fault of any kind; one of the users follows both at the start): a video whose fan-out has ended is in the index of every covered
follower. A video reaches a follower by the fan-out or by the backfill, and the order "row before listing,
video before event" must hold on both sides; batches of one and two users are the least in which a follower
comes or goes between two batches, and `BigCreator = 2` lets an author grow big and small again. Handlers are
interchangeable (SYMMETRY; no liveness is checked in this run). A read takes the index as
complete as soon as the inbox has anything, or any outbox when all authors are big (`TakenAsComplete`,
`following_index_cache.go:136-142`), even when an author is missing from it; in the model such a pair is not in
`covered`. The comment at line 87 promises more, and run `index_completeness` (the same instance with larger
boxes and expiring keys only) shows that it does not hold: the outbox of a big author who has not published for
30 days has expired, that of another has not, and the feed has none of the first one's videos.

### FollowTx and FollowLedger — `persistence/relation/gorm.go`

State: the accounts in use, the follow rows, the two counters of every user, and per goroutine the request,
program counter, locked rows and what its transaction has decided. One action per statement that locks:
`LockUser`, `LockTarget` (account rows), `EnsureUserStat`, `EnsureTargetStat` (counter rows), `FindFollow`,
then `UpdateStats` and `Commit`. `Victim` is InnoDB's rollback of a transaction in a circle of waiting ones;
`Abort` any other error. The gap that looking for a missing follow row locks (`gorm.go:62`) is left out: first
follows of neighbouring rows may wait for each other's insertions as in `InteractionLocks`, and InnoDB breaks
that circle in the same way. Run `follow_tx` (two goroutines; Ann and Bob follow each other, Cid follows Ann; one
key; one account taken out of use): the counters count the rows, every request ends although Ann and Bob wait
for each other's account, and every step is a step of `FollowLedger`, in which a follow and its two counters
change together. Two transactions are the least for a circle, three pairs the least for one counter to be
changed by two users.

### Videos, CardCache and FeedCards — `application/video`, `application/account`, `feed_card_cache.go`, `page_loader.go`

State: the rows and the profile of one author (`Videos`), the cards and the author's set of cards in Redis with
their remaining lives (`CardCache`), and per goroutine its next step with what it has read (`FeedCards`). A
request is its sequence of statements and Redis commands: `Lookup`, `Save`, `Relookup`, `Announce`; `Find`,
`Delete`, `Drop`; `LoadUser`, `Write`, `Collect`, `Purge`; `ReadCards`, `LoadCards`, then `StoreCard`,
`AddCard`, `Renew` per card. Two history variables: `before` holds the cards stored before the last change of
what they show, `excused` those an invalidation may miss for a reason the code leaves open, each written where
it happens.

Run `feed_cards` (two videos, one key, two profiles, two requests at a time, cards that live for two ticks,
one fault): creations with one key agree and announce once (`KeyNamesOneVideo`); a change reaches every card
stored before it, with the exceptions `excused` names (`ChangesReachCards`); a reader may still store a card of
a deleted video after its invalidation, but when requests stop no stale card outlives its time (`CardsSettle`).
Two requests are the least for a reader to cross a writer or for two creations to clash; two videos the least
for the author's set to outlive one of its cards.

### Hub, Messages and Realtime — `infra/realtime`, `interfaces/http/message/stream.go`, `application/message`

`Hub` is the registry of connections: clients by user, buffers, closed channels, and what callers still
have to do between two locks: the clients a caller has taken out and not closed (`closing`), and those counted
in or out of the registry and not yet in the gauge (`joined`, `left`). `Messages` has the rows and the goroutines that
count and notify. `Realtime` composes them with tickets, the handlers of streams, Redis Pub/Sub with lost
connections, and the end of the process. Run `realtime` (one user, two streams of whom one is allowed at a
time, buffers of one event, two changes of messages, one fault or the end): a connection is registered or about
to be closed, never both, and the gauge counts those registered (`StreamsAccountedFor`); nothing is sent on a
closed channel (`NothingSentOnClosed`); without a fault whoever has a stream open has been told every message
since it registered and the present unread count (`ToldEverything`); a stream the hub closes ends
(`ClosedStreamsEnd`). One connection in place of the code's five makes every second stream kick the first; a
buffer of one in place of sixteen makes slow clients common.

A stream that registers after `Close` has swept the registry is not closed by it (`hub.go:132-143`): shutdown then
waits for its deadline. Notifications are not ordered, within one process or between several: each reads the
count in a goroutine of its own (`message/service.go:195`, 212), and the client takes the last it gets as the
newest. `ToldEverything` says that the present count was sent, not that it was sent last.

### StatCache, FeedPages, HotWindow, Recommend, Playback, Upload, Embeddings, Accounts, RateLimit — `MCApiParts`

Nine parts of the API share no state; `MCApiParts` runs one of them in each behaviour, so that one run checks
all. Each keeps its variables, operations and properties in its own module, and its bounds are in
`ApiParts.cfg`.

| module | state and actions | property | bounds |
|---|---|---|---|
| `StatCache` | snapshot, base, shards, database, queue; likes, comments, viewers and the worker's reset, one Redis command at a time | `CountsSettle`: wrong counts wear off; likes exactly, comments unless one was written since the base was read | two likers, a commenter, a viewer, three actions, one failing call |
| `Cursors`, `FeedPages` | a list that changes, cached pages, readers and their sessions; the five lists with a cursor of time and id | `EveryRowOnce` (in `ListsShownOnce`): no row twice, none that stays skipped; `PageLoadedOnce`: single flight | two readers, three rows with two times, pages of one |
| `HotWindow` | buckets per minute, windows, sessions; EXISTS, ZUNIONSTORE, trimming and reading are steps | `HotPagesAgree`: pages of one session agree | two videos, two readers, two minutes, two scores, one loss |
| `Recommend` | pool, ranking, exposures, the reader's cursor; `Ranked`, `Behind`, `InterleaveByAuthor` as operators | `RecommendedOnce`; `AuthorsAlternate` | four videos of two authors, pages of one and three, three ticks |
| `Playback` | the videos, the current one, what has been watched; settings; reports and their keys | `PlayedOnce` (in `ListsShownOnce`); `ReportedOnce` (in `KeysNameOneRow`) | three videos with two times, two reporters, one key |
| `Upload` | per upload its step, the file on disk, its temporary copy, its answer | `UploadsSettle`: only whole, accepted files are announced, nothing else is left | two uploads; files at and past every limit; two failures or crashes |
| `Embeddings` | vectors per video, the cursor of the rebuild, the worker's events | `RebuildCovers`: what was published throughout has its vector | three videos, pages of two, one error |
| `Accounts` | rows, clients registering and logging in, tokens and the clock | `AccountsHaveOneUser` (in `KeysNameOneRow`) | two clients, two spellings of one account, one failing call |
| `RateLimit` | the bucket of one address, its last use | `AdmissionsBounded`: any stretch of at most `visitorIdleTTL`, and any stretch when the bucket fills within it | the buckets of login and registration, nine ticks |

Page sizes of one make every row a page boundary. Two rows of one time and a row that is added with the time of
an older one are the cases in which a cursor of time alone repeats or skips (the mutant of `After`).

What these modules show besides their properties, as behaviour of the code:

* `StatCache`: a comment's new count lives in the snapshot for 15 seconds; then the base shows the old count
  until the next change of a like. An action with delta zero renews the base without a reset. A reader who
  finds a shard and no base stores the shard's sum and zero comments as the counts for 15 seconds.
* `HotWindow`: the window may expire between EXISTS and ZREVRANGE (`hot_rank_cache.go:43-52`): the page is empty
  and ends the list. A window whose trimming failed has no time to live.
* `Recommend`: freshness is computed from the minute, so a page asked for in the next minute ranks anew; and
  the windows of the pool and of the exposure decisions differ by up to a minute.
* `Playback`: the list starts anew when the current video has gone.
* `RateLimit`: the bucket of registration fills in 60 minutes and is forgotten after ten idle ones, so the
  code contradicts the "five times an hour on average" of `rate_limit.go:20`: five registrations, a pause until the
  second tick of the cleanup, and five more, within twenty minutes. Login, whose bucket fills in one minute,
  keeps its rate.
* `Upload`: what a crash or a failed removal (also the deferred one of the temporary file, `ffmpeg.go:68`) leaves
  on disk stays; no code looks for it.
* `Accounts`: registering again after a lost answer gets "already exists"; creations with a key get their row.

### Fairness

Weak fairness of each handler's, worker's and starting process's own steps: a goroutine that can run is
scheduled by the Go runtime, and none of these steps waits for anything but its own calls. Two modules wait:
in `FollowTx` a transaction waits for locks that come and go, so its steps are strongly fair (InnoDB serves
the requests for a row in their order) and `Victim` weakly (deadlock detection is on by default); in `Realtime`
a stream waits for the hub's locks, which are held for one step. `FeedCards` also lets time pass. Faults,
arriving requests, expiring keys and publications by users have no fairness. Liveness properties are of the
form `<>[]P`, reached because requests and faults are bounded, or, in `FollowTx`, of the form `P ~> Q` for
each request.

## 4. What is proved

TLAPS checks the following for every value of the constants, within the assumptions named in the modules
(the action types, users and comment ids are as in the code; `Users` and `CommentIds` finite because counters
are cardinalities; `None` is no record).

| theorem | argument |
|---|---|
| `InteractionTxProofs`: TypeCorrect, CountersAgree, CommentsAreCounted, RetriesCreateOneComment, WithdrawnVideosAreFrozen, LedgerIsImplemented | The invariant says what a transaction past a lock knows: it holds the rows it has read, each row has at most one holder, `delta` is the delta of the row it holds, and `count` is the counter plus that delta while the counter row is held. Commit then changes row and counter by the same amount, and is the atomic step of the ledger; all other steps stutter. |
| `InteractionTxProofs` (InteractionLocks): OnlyInsertsWaitInCircles | `LocksIInv`: a record has one holder; gaps are locked and rows inserted only by transactions that hold their video, and each record locked belongs to the transaction's own call. So whoever waits for a comment holds nothing, whoever waits for a video holds at most a comment, which insertions do not wait for, and looking for an action and locking counters wait for nobody. A set in which everybody waits therefore has insertions, which wait only for insertions of the set, each holding a video of its own. Needs that an action's place tells its video. |
| `ActionPipelineProofs`: TypeCorrect, CountersConverge, AnswersAreCarried | `IInv` of `ActionPipeline`: whenever base, shards or a request's `initialStat` differ from the database, a reset from the database is *owed*: an event is queued or in a worker's hands before it sets the base, or a request is about to publish one. It needs a single consumer, and says that a worker about to write the base has read the current counters. Without "owed" the property is not inductive: a request may increment a shard a reset has just emptied. What has been missed stays missed, so the invariant only speaks of states in which nothing has been; crashes, expiry, failed handlings and redeliveries are all in it. `AnswersAreCarried` (`AnswersInv`) is for one consumer, one request of a user at a time (`Serial`) and a queue that keeps its order (`Orderly`: no failed handling, whose retry goes to the tail, no answer that is not published, no expired hash): the newest event of a user in queue and hand carries his last answer, and when there is none the row does; a redelivered older event finds its key behind it. |
| `BrokerProofs` (RabbitDelivery): TypeCorrect, NoMessageLost, RetriesAreBounded | A delivery about to be acknowledged does not count as a place where the event is; so each step that moves a delivery to "ack" must already have put the event somewhere else. `RetriesAreBounded` counts, for each message, the handlings that have failed and those that may still fail: every copy queued or in hand has as many left as its retry header allows (`Within`). A failure spends one, a crash or a failed republication adds at most one whole budget. Holds for any queues, workers, poison and faults; the retries for one queue and finitely many workers. |
| `BrokerProofs` (QueueTopology): TopologyTypeCorrect, TopologyEndsReady, MigrationLosesNothing, ConsumersAreSafe | `Owed`: while the queue is missing some process has yet to declare it, while it is not bound some process has yet to bind it, and a binding needs the queue. The process that deletes the queue still has both steps to do, so a bind that fails on a missing queue always leaves another process that will succeed. Holds with and without an old queue, for any processes as long as there is one. |
| `ViewEventsProofs`: TypeCorrect, AppliedAtMostOnce, LossesAreExplained | `Permits`: applications so far, plus workers between claim and release, plus one if the key is free, are at most one plus the unanswered calls. A free key permits one application; the worker that takes it holds the permit until it has applied the event or given the key back. Needs finitely many workers, since they are counted. `LossesAreExplained`: an event of a committed row is about to be published, queued, in a worker's hands, applied, or lost by a fault that was counted for it (`LossesCounted`); a key without its application is a worker's or such a loss. |
| `FollowingFeedProofs`: TypesAreKept, CoveredFind | `IInv` of `FollowingFeed`: a covered follower has his row, and no removal under way takes what he is covered for (`RemovalsHarmless`). Each video of the author is in his index, or on its way: its event is queued, or a fan-out has still to come to him in the order of its batches, or a backfill has still to write it (`Reached`). The crossing is in `BackfillsReach`: what a backfill has listed is what it will write, and a video published after it listed has its event still to be read by a fan-out that finds the new row. Needs finitely many users and authors, videos numbered in the order of their publication, and positive sizes of boxes and batches. |
| `FeedCardsProofs`: TypesAreKept, KeysNameTheirVideo, ChangesReachTheirCards | `IInv` of `FeedCards`. Keys: no two videos have one key, whoever is about to announce a video has created it and is the only one, and every answer names the video of its key. Cards: a cached card that nothing excuses is in the author's set, which lives at least as long as the card, except while the SADD or the EXPIRE of that card is still to come (`CardsInSet`). So SMEMBERS finds every card stored before the change, and between SMEMBERS and DEL the invalidation has the card in its hands (`Pending`). Needs videos numbered in the order of their ids and a positive time to live. |
| `RealtimeProofs`: TypesAreKept, StreamsUseTheHub, StreamsAreAccountedFor, ClosedGetNothing, StreamsAreToldEverything | Every step of `Realtime` is a step of the hub or leaves it alone, so the hub's invariant (`HubIInv`: a client is registered, or in the hands of the one caller that will close it, or closed; the gauge differs from the registry by those in `joined` and `left`) carries over. `ToldEverything`: what a stream has not been told is in its buffer, or a notification that carries it is on its way to the hub, counted after the change. Needs that frames are events, that every user of a stream is a user, and positive sizes of buffers. |
| `ApiProofs` (FollowTx): TypeCorrect, CountersAreExact, LedgerIsImplemented | A transaction past its first two locks holds both account rows and nobody else does, so no two such transactions share a user and what each has decided stays true until it commits. Commit moves the follow row and both counters by the same amount, and is the atomic step of `FollowLedger`. Needs finitely many users, since counters are cardinalities. |
| `ApiProofs` (FeedPages): RowsAreShownOnce, PagesAreLoadedOnce | `PagesIInv`. `RankedBy` lists a finite set in a strict total order (`EveryRankIsTaken`, `RowsAreRanked`), so a page holds the first rows behind its cursor, in order, and names the last of them (`PageIsFor`). A cursor is the last row shown; what may yet be offered, from the list or from any cached page, has one row per id and never one that moved back behind what was shown (`NoneMovesBack`): so no id comes twice, and a row that was there is shown or still behind the cursor (`ShownOrBehind`). Loads: one reader at a time leads for a cursor, and one that is about to query has seen the cache empty since (`LoadsAreCounted`). |
| `ApiProofs` (Recommend): RecommendationsAreShownOnce, AuthorsAreSpread | `RecommendIInv`. While scores stand still, the cursor is what its video would be ranked as now, everything seen is ranked no later (`CursorIsCurrent`), and what was offered at each page and not seen is behind the cursor and in the pool (`OfferedIsAhead`). Needs that the pool's cut keeps the hottest, by the same ranks. `InterleaveByAuthor` permutes its page, and after as many passes as there are candidates the last one has placed nothing: those that remain are all of the author shown last. A fold is a function of the elements read so far (`FoldIsDefined`), and what each of its steps keeps it keeps (`FoldKeeps`), by the least step that would not. |
| `ApiProofs` (HotWindow): HotVideosAreShownOnce | `HotIInv`: a session with an up-to-date window and unchanged scores goes by the sum of its minutes. A video with a positive score has a place in that sum (`PlaceIn`); each that was seen was seen at its place, and all places up to the offset were seen. Every window another reader stores, trims or loses under the session agrees with the same sum (`Agrees`), so ranks in the window up to the last positive score are places. |
| `ApiProofs` (StatCache): CountsAreSettled | `StatIInv`: unless a reset from the database is owed (an event queued or just read, or a like about to publish) or half done, the shards are empty and the base has the database's likes; what the worker has read stays true, since nobody else changes the likes in the database. Comments of the base are right or known to be behind. |
| `ApiProofs` (Playback): ReportsAreLoggedOnce, VideosArePlayedOnce | An answer names a row of the log with its key, which is unique. The player asks behind the last video it has played, and what it has loaded ahead comes behind that, in order (`WatchedInOrder`). |
| `ApiProofs` (Accounts, Upload, Embeddings): AccountsAreHeldOnce, UploadsAreSettled, RebuildsCoverPublished | What a client knows of its account stays true, since rows are only added and never two for one account; an upload under way has checked its file as far as its step says, and a temporary file is in its hands; up to the last id saved every promised vector is written, and what is not on the page comes after it (`RestIsBehind`). |
| `ApiProofs` (RateLimit): AdmissionsAreBounded | `BucketBalance`: for every instant in reach, the calls admitted since, times the interval, plus what is left in the bucket, are at most a full bucket and the time gone by. A forgotten bucket starts full: either it was full, or no call of the stretch came before. |
| `ApiProofs` (MCApiParts): ListsAreShownOnce, KeysAreRows | Each step of the parts together is a step of one part and leaves the others alone, so their invariants carry over to the two properties that speak of two parts. |

The theorems about the parts are about each part's own specification (`PagesSpec`, `HotSpec`, ...), whose steps
`PartsNext` interleaves. They assume what the modules name: ids, times, ages, heats and scores are numbers, the
sets that are ranked or counted are finite, a page has at least one element where the code says so, and what
stands for nothing (`NoPage`, `NoStat`, `NoWindow`, `NoVisitor`, `NoCandidate`) is not a value of its kind.

With these, every invariant, action property and refinement the passing runs check is a theorem. Only TLC has
checked the liveness properties (`EventuallyDrained`, `EventuallySettled`, `StartsEnd`, `RequestsEnd`,
`CardsSettle`, `ClosedStreamsEnd`), which are out of the prover's reach, as is the violation of
`worker_stops_at_once`, which is one. `WorkerProcess` has nothing else to prove. What `index_completeness` refutes
is said of every follower; `CoveredFind` proves what holds of the covered ones.

## 5. Findings

`worker_stops_at_once`: TLC refutes that a running worker consumes. The worker closes its own connections as
soon as it has started (see `WorkerProcess` above).

`index_completeness`: TLC refutes that an index taken as complete covers all followed authors, as
`following_index_cache.go:87` says (see `FollowingFeed` above).

`rate_limit.go:20` is contradicted as well, by a behaviour `AdmissionsBounded` leaves out (see `RateLimit` above);
no run refutes it.

Section 3 names, at their modules, further behaviours the models reach and no line of the repository denies:
the Unlike after the hash has expired, the drift of two workers' resets, retries that reach other queues, the
insertions that wait for each other, the comment count that goes back, the stream that outlives `Close`.

## 6. Not modelled, and why

`PROJECT.json` lists every component with its status. Of the components modelled in part:

* Pipeline and delivery: the broker losing a publication that returned no error (publisher confirms are off),
  which no code can notice; replays of dead letters, which are manual; prefetch beyond one.
* View events: the 24-hour life of idempotency keys and the 30-day, 200-row window of the aggregation, which
  are longer than any run of the models; a change of the vectors' dimension.
* Following feed: the merged page and its cursor (item 13 of the plan).
* Feed: the hot list from the database, which serves when Redis does not; buckets that end after two hours.
* Recommendation: the statements that gather the pool from several sources, and scores as floats; scores
  closer than the cursor's tolerance of 1e-9 count as equal.
* Embedding: the arithmetic of `hash_ngram`, whose result is a vector of floats; a vector is known by its model.
* Videos: drafts and offline videos, states no code enters.
* Row deadlocks between two `SaveExposures` of one user in opposite orders (`persistence/recommendation/gorm.go:262`),
  and two updates of one profile that overwrite each other's fields (`domain/account/entity.go:117`): each is
  one call's own retry or last writer, and no state depends on it. An UPDATE that changes nothing within the
  millisecond of `updated_at` reports no row and is answered with "not found" (`NotFound` in `FeedCards`).

Components left out for good: HTTP decoding and DTOs, the encoding of cursors in bytes, configuration, metrics
and the wiring of the processes (plain input and output), password hashing and the signing of tokens (library
calls), and the React frontend.
