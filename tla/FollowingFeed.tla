----------------------------- MODULE FollowingFeed -----------------------------
(***************************************************************************)
(* The index of the following feed. Each user has an inbox of videos in    *)
(* Redis, each author an outbox. A published video is pushed by a worker   *)
(* into the inboxes of the author's followers or, once the author has      *)
(* BigCreator followers, written to the outbox, which readers then pull.   *)
(* Following an author backfills the inbox with recent videos, unfollowing *)
(* removes the author's videos from it.                                    *)
(*                                                                         *)
(* SetFollow is one transaction here, with the follow row and the counter  *)
(* follower_count; a request with a key already used repeats a status the  *)
(* row already has. A video is the number that orders the feed (time of    *)
(* publication, then id). The pre-heating of cards, notifications and the  *)
(* lists of users touch nothing the index depends on.                      *)
(*                                                                         *)
(* Source: internal/application/relation/service.go,                       *)
(* internal/application/video/fanout_worker.go and service.go,             *)
(* internal/infra/cache/following_index_cache.go,                          *)
(* internal/infra/persistence/feed/gorm.go and relation/gorm.go.           *)
(***************************************************************************)
EXTENDS Naturals, FiniteSets, FiniteSetsExt

CONSTANTS
    Users,        \* followers, numbered: the fan-out goes through them in order
    Authors,
    Videos,       \* numbered in the order of the feed
    AuthorOf,     \* AuthorOf[v]: the author of a video
    Handlers,     \* concurrent follow and unfollow requests
    Workers,      \* consumers of the queue of published videos
    None,
    BigCreator,   \* BigCreatorFollowerThreshold
    BatchSize,    \* followers read at once by the fan-out
    InboxMax, OutboxMax, BackfillMax,
    Start,        \* the active follows at the beginning
    MaxCalls,     \* bound: requests of the whole run
    MaxFaults,    \* bound: faults of the whole run
    Faults        \* the kinds of faults that may happen

VARIABLES
    following,      \* the active rows of user_follow
    status,         \* status[v]: how far the publication of a video has come
    withdrawn,      \* videos their author has deleted
    pending,        \* the queue of published videos
    inbox, outbox,  \* the Redis sorted sets of users and of authors
    pc, pair, todo, \* per request: next step, <<user, author>>, videos to go
    wpc, event,     \* per worker: next step and video
    cursor, batch,  \*   last follower read, followers to write to
    covered,        \* history: pairs whose Follow has been answered, and
                    \*   nothing the index does not survive has happened since
    clean,          \* history, per request: no such thing since it began
    calls, faults   \* requests and faults so far, for the bounds

db      == <<following, status, withdrawn>>
redis   == <<inbox, outbox>>
request == <<pc, pair, todo>>
work    == <<wpc, event, cursor, batch>>
history == <<covered, clean>>
bounds  == <<calls, faults>>
vars    == <<following, status, withdrawn, pending, inbox, outbox, pc, pair, todo,
             wpc, event, cursor, batch, covered, clean, calls, faults>>

Pairs == Users \X Authors

ASSUME UsersAreNumbers == Users \subseteq Nat \ {0} /\ IsFiniteSet(Users)
ASSUME VideosAreNumbers == Videos \subseteq Nat \ {0} /\ IsFiniteSet(Videos)
ASSUME AuthorsTyped == AuthorOf \in [Videos -> Authors] /\ IsFiniteSet(Authors)
ASSUME SizesPositive == {BigCreator, BatchSize, InboxMax, OutboxMax, BackfillMax} \subseteq Nat \ {0}
ASSUME StartIsPairs == Start \subseteq Pairs
ASSUME NoneIsNew == None \notin Pairs \cup Videos

Init ==
    /\ following = Start
    /\ status = [v \in Videos |-> "none"]
    /\ withdrawn = {}
    /\ pending = {}
    /\ inbox = [u \in Users |-> {}]
    /\ outbox = [a \in Authors |-> {}]
    /\ pc = [h \in Handlers |-> "idle"]
    /\ pair = [h \in Handlers |-> None]
    /\ todo = [h \in Handlers |-> {}]
    /\ wpc = [w \in Workers |-> "idle"]
    /\ event = [w \in Workers |-> None]
    /\ cursor = [w \in Workers |-> 0]
    /\ batch = [w \in Workers |-> {}]
    /\ covered = following
    /\ clean = [h \in Handlers |-> TRUE]
    /\ calls = 0
    /\ faults = 0

FollowersOf(a) == {u \in Users : <<u, a>> \in following}

\* follower_count of the author, in the row the transaction keeps.
CountFollowers(a) == Cardinality(FollowersOf(a))

Big(a) == CountFollowers(a) >= BigCreator

\* Videos the repository lists: status published, with a publication time.
Public == {v \in Videos : status[v] # "none"} \ withdrawn

VideosOf(a) == {v \in Videos : AuthorOf[v] = a}

\* The `n` newest videos of a set.
Later(S, v) == {x \in S : x > v}
Newest(S, n) == {v \in S : Cardinality(Later(S, v)) < n}

\* The `n` lowest numbers of a set.
Earlier(S, u) == {x \in S : x < u}
First(S, n) == {u \in S : Cardinality(Earlier(S, u)) < n}

Fault(kind) ==
    /\ kind \in Faults
    /\ faults < MaxFaults
    /\ faults' = faults + 1
    /\ UNCHANGED calls

Goto(h, label) == pc' = [pc EXCEPT ![h] = label]

\* The history of a step after which the index may miss videos of the `lost`
\* pairs: they are no longer covered, nor by the requests now running.
Spoil(lost) ==
    /\ covered' = covered \ lost
    /\ clean' = [h \in Handlers |-> clean[h] /\ pair[h] \notin lost]

\* ZADD, then ZREMRANGEBYRANK: of the inboxes of `users` what does not fit falls
\* out, perhaps the new video itself.
Inboxed(u, v) == Newest(inbox[u] \cup {v}, InboxMax)

CutFrom(users, v) ==
    {p \in users \X Authors :
        \E x \in (inbox[p[1]] \cup {v}) \ Inboxed(p[1], v) : AuthorOf[x] = p[2]}

AddInboxItems(users, v) ==
    inbox' = [u \in Users |-> IF u \in users THEN Inboxed(u, v) ELSE inbox[u]]

--------------------------------------------------------------------------------
(* Requests: setFollow *)

Removing(h) == pc[h] \in {"find", "remove"}

\* Another request is removing the author's videos from the user's inbox.
Clashes(p) == \E g \in Handlers : Removing(g) /\ pair[g] = p

Follow(h, p) ==
    /\ pc[h] = "idle"
    /\ calls < MaxCalls
    /\ calls' = calls + 1
    /\ following' = following \cup {p}
    /\ pair' = [pair EXCEPT ![h] = p]
    /\ clean' = [clean EXCEPT ![h] = ~Clashes(p)]
    /\ Goto(h, "count")
    /\ UNCHANGED <<status, withdrawn, pending, redis, todo, work, covered, faults>>

\* The last follower to leave makes a big author small: his outbox, where the
\* videos of his big time are, is no longer read.
Unfollow(h, p) ==
    /\ pc[h] = "idle"
    /\ calls < MaxCalls
    /\ calls' = calls + 1
    /\ following' = following \ {p}
    /\ pair' = [pair EXCEPT ![h] = p]
    /\ Spoil(IF Big(p[2]) /\ ~Big(p[2])' THEN Users \X {p[2]} ELSE {p})
    /\ Goto(h, "find")
    /\ UNCHANGED <<status, withdrawn, pending, redis, todo, work, faults>>

Reply(h) ==
    /\ pc' = [pc EXCEPT ![h] = "idle"]
    /\ pair' = [pair EXCEPT ![h] = None]
    /\ todo' = [todo EXCEPT ![h] = {}]

\* Follow is answered with success: from here on the pair is covered.
Followed(h) ==
    /\ Reply(h)
    /\ covered' = IF clean[h] THEN covered \cup {pair[h]} ELSE covered
    /\ UNCHANGED clean

\* backfillFollowFeed: a big author's videos are pulled, not copied, but what
\* he published before he was big is in no outbox.
SkipBackfill(h) ==
    /\ pc[h] = "count"
    /\ Big(pair[h][2])
    /\ Reply(h)
    /\ covered' = IF clean[h] /\ VideosOf(pair[h][2]) \cap Public \subseteq outbox[pair[h][2]]
                  THEN covered \cup {pair[h]} ELSE covered
    /\ UNCHANGED <<db, pending, redis, work, clean, bounds>>

CountForBackfill(h) ==
    /\ pc[h] = "count"
    /\ ~Big(pair[h][2])
    /\ Goto(h, "list")
    /\ UNCHANGED <<db, pending, redis, pair, todo, work, history, bounds>>

ListRecent(h) ==
    LET mine == VideosOf(pair[h][2]) \cap Public
        recent == Newest(mine, BackfillMax)
    IN
    /\ pc[h] = "list"
    /\ Goto(h, "add")
    /\ todo' = [todo EXCEPT ![h] = recent]
    /\ IF recent = mine THEN UNCHANGED history ELSE Spoil({pair[h]})
    /\ UNCHANGED <<db, pending, redis, pair, work, bounds>>

\* One AddInboxItems per video, the newest first.
BackfillOne(h) ==
    LET v == Max(todo[h])
        u == pair[h][1]
    IN
    /\ pc[h] = "add"
    /\ todo[h] # {}
    /\ AddInboxItems({u}, v)
    /\ Spoil(CutFrom({u}, v))
    /\ todo' = [todo EXCEPT ![h] = @ \ {v}]
    /\ UNCHANGED <<db, pending, outbox, pc, pair, work, bounds>>

BackfillDone(h) ==
    /\ pc[h] = "add"
    /\ todo[h] = {}
    /\ Followed(h)
    /\ UNCHANGED <<db, pending, redis, work, bounds>>

\* The follow stays, the request is answered with an error.
BackfillFails(h) ==
    /\ pc[h] \in {"count", "list", "add"}
    /\ Fault("backfill")
    /\ Reply(h)
    /\ UNCHANGED <<db, pending, redis, work, history>>

\* Wrong variant: the whole inbox is dropped.
FindInboxOfAll(h) ==
    /\ pc[h] = "find"
    /\ Goto(h, "remove")
    /\ todo' = [todo EXCEPT ![h] = inbox[pair[h][1]]]
    /\ UNCHANGED <<db, pending, redis, pair, work, history, bounds>>

\* RemoveInboxAuthor: ZRANGE finds the members of the author, ...
FindInboxAuthor(h) ==
    /\ pc[h] = "find"
    /\ Goto(h, "remove")
    /\ todo' = [todo EXCEPT ![h] = inbox[pair[h][1]] \cap VideosOf(pair[h][2])]
    /\ UNCHANGED <<db, pending, redis, pair, work, history, bounds>>

\* ... ZREM removes those that were found.
RemoveFound(h) ==
    /\ pc[h] = "remove"
    /\ inbox' = [inbox EXCEPT ![pair[h][1]] = @ \ todo[h]]
    /\ Reply(h)
    /\ UNCHANGED <<db, pending, outbox, work, history, bounds>>

\* An error of the removal is ignored.
RemoveFails(h) ==
    /\ pc[h] \in {"find", "remove"}
    /\ Fault("remove")
    /\ Reply(h)
    /\ UNCHANGED <<db, pending, redis, work, history>>

--------------------------------------------------------------------------------
(* Publication and fan-out *)

\* CreatePublished saves the row, ...
Save(v) ==
    /\ status[v] = "none"
    /\ status' = [status EXCEPT ![v] = "saved"]
    /\ UNCHANGED <<following, withdrawn, pending, redis, request, work, history, bounds>>

\* ... then publishes the event.
Announce(v) ==
    /\ status[v] = "saved"
    /\ status' = [status EXCEPT ![v] = "sent"]
    /\ pending' = pending \cup {v}
    /\ UNCHANGED <<following, withdrawn, redis, request, work, history, bounds>>

\* An error of the publication is ignored, or the process dies before it.
AnnounceFails(v) ==
    /\ status[v] = "saved"
    /\ Fault("announce")
    /\ status' = [status EXCEPT ![v] = "lost"]
    /\ UNCHANGED <<following, withdrawn, pending, redis, request, work, history>>

\* The author deletes the video; the index keeps it.
Withdraw(v) ==
    /\ v \in Public
    /\ Fault("withdraw")
    /\ withdrawn' = withdrawn \cup {v}
    /\ UNCHANGED <<following, status, pending, redis, request, work, history>>

WGoto(w, label) == wpc' = [wpc EXCEPT ![w] = label]

\* HandleVideoPublished: push or pull, by the number of followers now. (What
\* happens between the delivery and this read might as well happen before.)
Deliver(w) ==
    \E v \in pending :
        /\ wpc[w] = "idle"
        /\ event' = [event EXCEPT ![w] = v]
        /\ pending' = pending \ {v}
        /\ WGoto(w, IF Big(AuthorOf[v]) THEN "outbox" ELSE "list")
        /\ UNCHANGED <<db, redis, request, cursor, batch, history, bounds>>

\* The handler ends: the worker is free, the event acknowledged.
Finish(w) ==
    /\ wpc' = [wpc EXCEPT ![w] = "idle"]
    /\ event' = [event EXCEPT ![w] = None]
    /\ cursor' = [cursor EXCEPT ![w] = 0]
    /\ batch' = [batch EXCEPT ![w] = {}]

AddAuthorOutboxItem(w) ==
    LET v == event[w]
        a == AuthorOf[v]
        kept == Newest(outbox[a] \cup {v}, OutboxMax)
    IN
    /\ wpc[w] = "outbox"
    /\ outbox' = [outbox EXCEPT ![a] = kept]
    /\ IF kept = outbox[a] \cup {v} THEN UNCHANGED history ELSE Spoil(Users \X {a})
    /\ Finish(w)
    /\ UNCHANGED <<db, pending, inbox, request, bounds>>

\* The first BatchSize followers after the cursor, by id.
Ahead(w) == {u \in FollowersOf(AuthorOf[event[w]]) : u > cursor[w]}
NextBatch(w) == First(Ahead(w), BatchSize)

\* ListFollowerIDs; without followers left the handler ends.
ListFollowers(w) ==
    /\ wpc[w] = "list"
    /\ IF NextBatch(w) = {}
       THEN Finish(w)
       ELSE /\ batch' = [batch EXCEPT ![w] = NextBatch(w)]
            /\ WGoto(w, "add")
            /\ UNCHANGED <<event, cursor>>
    /\ UNCHANGED <<db, pending, redis, request, history, bounds>>

\* AddInboxItems for the batch; a batch that is not full was the last one.
AddBatch(w) ==
    /\ wpc[w] = "add"
    /\ AddInboxItems(batch[w], event[w])
    /\ Spoil(CutFrom(batch[w], event[w]))
    /\ IF Cardinality(batch[w]) < BatchSize
       THEN Finish(w)
       ELSE /\ cursor' = [cursor EXCEPT ![w] = Max(batch[w])]
            /\ batch' = [batch EXCEPT ![w] = {}]
            /\ WGoto(w, "list")
            /\ UNCHANGED event
    /\ UNCHANGED <<db, pending, outbox, request, bounds>>

\* The handler fails or the worker dies: the event comes again, ...
Again(w) ==
    /\ wpc[w] # "idle"
    /\ Fault("again")
    /\ pending' = pending \cup {event[w]}
    /\ Finish(w)
    /\ UNCHANGED <<db, redis, request, history>>

\* ... or, its retries used up, is dead-lettered.
DeadLetter(w) ==
    /\ wpc[w] # "idle"
    /\ Fault("dead")
    /\ status' = [status EXCEPT ![event[w]] = "lost"]
    /\ Finish(w)
    /\ UNCHANGED <<following, withdrawn, pending, redis, request, history>>

\* An event is delivered twice: an ack is lost, or another queue bound to the
\* exchange has retried it.
Redeliver(v) ==
    /\ status[v] = "sent"
    /\ v \notin pending
    /\ Fault("again")
    /\ pending' = pending \cup {v}
    /\ UNCHANGED <<db, redis, request, work, history>>

\* A key expires 30 days after its last write; no request lasts as long.
Idle == (\A h \in Handlers : pc[h] = "idle") /\ (\A w \in Workers : wpc[w] = "idle")

ExpireInbox(u) ==
    /\ Idle
    /\ inbox[u] # {}
    /\ Fault("expire")
    /\ inbox' = [inbox EXCEPT ![u] = {}]
    /\ Spoil({u} \X Authors)
    /\ UNCHANGED <<db, pending, outbox, request, work>>

ExpireOutbox(a) ==
    /\ Idle
    /\ outbox[a] # {}
    /\ Fault("expire")
    /\ outbox' = [outbox EXCEPT ![a] = {}]
    /\ Spoil(Users \X {a})
    /\ UNCHANGED <<db, pending, inbox, request, work>>

Serve(h) ==
    \/ SkipBackfill(h) \/ CountForBackfill(h) \/ ListRecent(h) \/ BackfillOne(h)
    \/ BackfillDone(h) \/ FindInboxAuthor(h) \/ RemoveFound(h)

Fanout(w) ==
    \/ Deliver(w) \/ AddAuthorOutboxItem(w) \/ ListFollowers(w) \/ AddBatch(w)

Next ==
    \/ \E h \in Handlers :
          \/ \E p \in Pairs : Follow(h, p) \/ Unfollow(h, p)
          \/ Serve(h) \/ BackfillFails(h) \/ RemoveFails(h)
    \/ \E v \in Videos :
          Save(v) \/ Announce(v) \/ AnnounceFails(v) \/ Withdraw(v) \/ Redeliver(v)
    \/ \E w \in Workers : Fanout(w) \/ Again(w) \/ DeadLetter(w)
    \/ \E u \in Users : ExpireInbox(u)
    \/ \E a \in Authors : ExpireOutbox(a)

Spec == Init /\ [][Next]_vars

--------------------------------------------------------------------------------
(* Reading *)

PullAuthors(u) == {a \in Authors : <<u, a>> \in following /\ Big(a)}

FollowedAuthors(u) == {a \in Authors : <<u, a>> \in following}

\* What the index can show a user, before it is cut to a page.
Indexed(u) ==
    {v \in inbox[u] \cup UNION {outbox[a] : a \in PullAuthors(u)} :
        AuthorOf[v] \in FollowedAuthors(u)}

\* ListFollowingIndexPage answers from the index, and not from the database: the
\* inbox has something, or all authors are big and an outbox has.
TakenAsComplete(u) ==
    \/ inbox[u] # {}
    \/ /\ FollowedAuthors(u) \subseteq PullAuthors(u)
       /\ \E a \in PullAuthors(u) : outbox[a] # {}

--------------------------------------------------------------------------------
(* Properties *)

TypeOK ==
    /\ following \subseteq Pairs
    /\ status \in [Videos -> {"none", "saved", "sent", "lost"}]
    /\ withdrawn \subseteq Videos
    /\ pending \subseteq Videos
    /\ inbox \in [Users -> SUBSET Videos]
    /\ outbox \in [Authors -> SUBSET Videos]
    /\ pc \in [Handlers -> {"idle", "count", "list", "add", "find", "remove"}]
    /\ pair \in [Handlers -> Pairs \cup {None}]
    /\ todo \in [Handlers -> SUBSET Videos]
    /\ wpc \in [Workers -> {"idle", "outbox", "list", "add"}]
    /\ event \in [Workers -> Videos \cup {None}]
    /\ cursor \in [Workers -> Users \cup {0}]
    /\ batch \in [Workers -> SUBSET Users]
    /\ covered \subseteq Pairs
    /\ clean \in [Handlers -> BOOLEAN]
    /\ calls \in Nat
    /\ faults \in Nat

\* The event of the video has been handled, and none is on its way again.
Handled(v) == status[v] = "sent" /\ v \notin pending /\ \A w \in Workers : event[w] # v

(* fanout_worker.go:160 and service.go:155: a video whose fan-out has ended  *)
(* is in the index of every user whose Follow has been answered, although    *)
(* the fan-out reads the followers in batches while users follow and leave,  *)
(* backfills read the videos while more are published, the author grows big  *)
(* in between, and events are delivered again.                               *)
CoveredIsIndexed ==
    \A p \in covered, v \in Public :
        AuthorOf[v] = p[2] /\ Handled(v) => v \in Indexed(p[1])

--------------------------------------------------------------------------------
(* Why it holds: the strengthening that the steps preserve                   *)

Backfilling(h) == pc[h] \in {"count", "list", "add"}

\* A request at work has a pair, a worker at work a video; a worker that waits
\* starts from the first follower.
AtWork ==
    /\ \A h \in Handlers : pc[h] # "idle" => pair[h] \in Pairs
    /\ \A w \in Workers :
          IF wpc[w] = "idle" THEN cursor[w] = 0 ELSE event[w] \in Videos

\* Who is covered follows, and so does who may become covered.
CoveredFollow ==
    /\ covered \subseteq following
    /\ \A h \in Handlers : Backfilling(h) /\ clean[h] => pair[h] \in following

\* A removal takes videos of its author only, and nobody relies on them.
RemovalsHarmless ==
    \A h \in Handlers : Removing(h) =>
        /\ pc[h] = "remove" => todo[h] \subseteq VideosOf(pair[h][2])
        /\ pair[h] \notin covered
        /\ \A g \in Handlers : Backfilling(g) /\ pair[g] = pair[h] => ~clean[g]

\* The follower p[1] of p[2] finds the video where reads look for it.
Shown(p, v) == v \in inbox[p[1]] \/ (Big(p[2]) /\ v \in outbox[p[2]])

\* The worker has still to write the video where the follower will find it: in
\* the outbox of an author who is big, or it has not come to this follower yet.
OnItsWay(w, p, v) ==
    /\ event[w] = v
    /\ \/ wpc[w] = "outbox" /\ Big(p[2])
       \/ wpc[w] = "list" /\ p[1] > cursor[w]
       \/ wpc[w] = "add" /\ p[1] \in batch[w]
       \/ /\ wpc[w] = "add"
          /\ Cardinality(batch[w]) >= BatchSize
          /\ \A u \in batch[w] : u < p[1]

Reached(p, v) ==
    status[v] = "sent" /\ v \notin pending => Shown(p, v) \/ \E w \in Workers : OnItsWay(w, p, v)

CoveredReached ==
    \A p \in covered, v \in Public : AuthorOf[v] = p[2] => Reached(p, v)

\* What a backfill has not read was published after the row of the follow was
\* there, and is the fan-out's matter.
BackfillsReach ==
    \A h \in Handlers, v \in Public :
        pc[h] = "add" /\ clean[h] /\ AuthorOf[v] = pair[h][2]
            => v \in todo[h] \/ Reached(pair[h], v)

IInv ==
    /\ TypeOK /\ AtWork
    /\ CoveredFollow /\ RemovalsHarmless
    /\ CoveredReached /\ BackfillsReach

================================================================================
