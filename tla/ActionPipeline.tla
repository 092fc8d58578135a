---------------------------- MODULE ActionPipeline ----------------------------
(***************************************************************************)
(* A like or favorite on one video from the HTTP request to the database:  *)
(* the API writes the Redis hash of the user and a counter shard in one    *)
(* MULTI/EXEC, publishes an event, and answers; a worker consumes the      *)
(* event, writes the database row and counter, and resets the Redis        *)
(* counters to the database's value.                                       *)
(*                                                                         *)
(* SetAction is one step here; InteractionTx shows that the transaction    *)
(* behaves like one and that the counters of video_stat are the numbers of *)
(* active rows. The sixteen counter shards appear as their sum: readers    *)
(* add them up and the reconciliation deletes them with one DEL. The JSON  *)
(* snapshot of the counters (15 seconds) and the hot score are left out:   *)
(* nothing on this path reads them back.                                   *)
(*                                                                         *)
(* Source: internal/application/interaction/action.go and worker.go,       *)
(* internal/infra/cache/action_state_cache.go and feed_stat_cache.go,      *)
(* internal/infra/mq/consumer.go and publisher.go.                         *)
(***************************************************************************)
EXTENDS ActionRules, FiniteSets, SequencesExt

CONSTANTS
    Users, Types,
    LikeKeys,    \* the keys clients attach to activations; a key has one intent
    Handlers,    \* concurrent API requests
    Workers,     \* consumers of the action queue
    None,        \* no request, no message, no Redis counter hash
    MaxRetries,  \* redeliveries of a failing message before it is dead-lettered
    MaxCalls,    \* bound: requests of the whole run
    MaxFaults,   \* bound: faults of the whole run
    Faults,      \* the kinds of faults that may happen
    Serial       \* a user waits for an answer before repeating an action

VARIABLES
    published,       \* the video is published
    row,             \* row[t][u]: the row of interaction_action
    hash,            \* hash[t][u]: the Redis hash of the user's action
    base,            \* the Redis base counters, or None
    shard,           \* shard[t]: sum of the Redis counter shards
    queue, dead,     \* the action queue and its dead-letter queue
    pc, call, stat,  \* per handler: next step, request, initialStat
    wpc, msg, seen,  \* per worker: next step, message, GetVideoStat result
    acking,          \* per worker: handled messages whose ack is in flight
    answer,          \* answer[t][u]: what the last answer told the user
    happened,        \* the kinds of faults that have happened
    calls, faults    \* requests and faults so far, for the bounds

db     == <<published, row>>
redis  == <<hash, base, shard>>
broker == <<queue, dead, acking>>
api    == <<pc, call, stat, answer>>
work   == <<wpc, msg, seen>>
bounds == <<happened, calls, faults>>
vars   == <<published, row, hash, base, shard, queue, dead, pc, call, stat,
            wpc, msg, seen, acking, answer, happened, calls, faults>>

Unknown == "unknown"   \* the last request failed: the user cannot tell

Call    == [user : Users, type : Types, active : BOOLEAN, key : Key]
Message == [user : Users, type : Types, active : BOOLEAN, key : Key,
            retries : 0..MaxRetries]
Counts  == [Types -> Nat]
Zeros   == [t \in Types |-> 0]

Kinds == {"crash", "expire", "withdraw", "interrupt", "publish", "requeue", "db", "reconcile"}

ASSUME UsersFinite == IsFiniteSet(Users)
ASSUME RetriesNat  == MaxRetries \in Nat
ASSUME NoneIsNew   == None \notin Counts /\ None \notin Call /\ None \notin Message

Init ==
    /\ published = TRUE
    /\ row = [t \in Types |-> [u \in Users |-> Absent]]
    /\ hash = [t \in Types |-> [u \in Users |-> Absent]]
    /\ base = None
    /\ shard = Zeros
    /\ queue = <<>>
    /\ dead = <<>>
    /\ pc = [h \in Handlers |-> "idle"]
    /\ call = [h \in Handlers |-> None]
    /\ stat = [h \in Handlers |-> Zeros]
    /\ wpc = [w \in Workers |-> "idle"]
    /\ msg = [w \in Workers |-> None]
    /\ seen = [w \in Workers |-> Zeros]
    /\ acking = [w \in Workers |-> <<>>]
    /\ answer = [t \in Types |-> [u \in Users |-> Unset]]
    /\ happened = {}
    /\ calls = 0
    /\ faults = 0

On(record) == record.status = Active

\* GetVideoStat: the counters of video_stat (ActionCountsAgree of InteractionTx).
DbCounts == [t \in Types |-> Cardinality({u \in Users : On(row[t][u])})]

Fault(kind) ==
    /\ kind \in Faults
    /\ faults < MaxFaults
    /\ faults' = faults + 1
    /\ happened' = happened \cup {kind}
    /\ UNCHANGED calls

Goto(h, label) == pc' = [pc EXCEPT ![h] = label]

\* The handler of `h` ends; the user is told `status`.
Answer(h, status) ==
    /\ pc' = [pc EXCEPT ![h] = "idle"]
    /\ call' = [call EXCEPT ![h] = None]
    /\ stat' = [stat EXCEPT ![h] = Zeros]
    /\ answer' = [answer EXCEPT ![call[h].type][call[h].user] = status]

Busy(t, u) == \E h \in Handlers : pc[h] # "idle" /\ call[h].type = t /\ call[h].user = u

--------------------------------------------------------------------------------
(* The API: setActionAsync and its fallback setActionSync *)

\* A request arrives and reads the counters; a withdrawn video is refused.
Begin(h, r) ==
    /\ pc[h] = "idle"
    /\ calls < MaxCalls
    /\ published
    /\ Serial => ~Busy(r.type, r.user)
    /\ r.key # NoKey => r.active = (r.key \in LikeKeys)
    /\ call' = [call EXCEPT ![h] = r]
    /\ stat' = [stat EXCEPT ![h] = DbCounts]
    /\ Goto(h, "state")
    /\ calls' = calls + 1
    /\ UNCHANGED <<db, redis, broker, work, answer, happened, faults>>

\* SetActionState: one MULTI/EXEC under WATCH of the hash. Without a change
\* of the count nothing is published and the request is answered at once.
SetState(h) ==
    LET r == call[h]
        d == RowDelta(hash[r.type][r.user], r.active, r.key)
    IN
    /\ pc[h] = "state"
    /\ hash' = [hash EXCEPT ![r.type][r.user] = RowAfter(hash[r.type][r.user], r.active, r.key)]
    /\ base' = IF base = None THEN stat[h] ELSE base
    /\ shard' = [shard EXCEPT ![r.type] = @ + d]
    /\ IF d = 0
       THEN Answer(h, hash'[r.type][r.user].status)
       ELSE Goto(h, "publish") /\ UNCHANGED <<call, stat, answer>>
    /\ UNCHANGED <<db, broker, work, bounds>>

\* Redis fails, or the WATCH is broken by another request of the same user.
Refuse(h) ==
    /\ pc[h] = "state"
    /\ Answer(h, Unknown)
    /\ UNCHANGED <<db, redis, broker, work, bounds>>

\* After EXEC the request ends without publishing: reading the counters back
\* fails (SetActionState returns an error), or the process dies.
Interrupt(h) ==
    /\ pc[h] = "publish"
    /\ Fault("interrupt")
    /\ Answer(h, Unknown)
    /\ UNCHANGED <<db, redis, broker, work>>

MessageOf(r) == [user |-> r.user, type |-> r.type, active |-> r.active, key |-> r.key,
                 retries |-> 0]

Publish(h) ==
    LET r == call[h] IN
    /\ pc[h] = "publish"
    /\ queue' = Append(queue, MessageOf(r))
    /\ Answer(h, StatusFromActive(r.active))
    /\ UNCHANGED <<db, redis, dead, acking, work, bounds>>

PublishFails(h) ==
    /\ pc[h] = "publish"
    /\ Fault("publish")
    /\ Goto(h, "sync")
    /\ UNCHANGED <<db, redis, broker, work, call, stat, answer>>

\* setActionSync: the request writes the database itself; nothing resets Redis.
SyncApply(h) ==
    LET r == call[h] IN
    /\ pc[h] = "sync"
    /\ published
    /\ row' = [row EXCEPT ![r.type][r.user] = RowAfter(row[r.type][r.user], r.active, r.key)]
    /\ Answer(h, row'[r.type][r.user].status)
    /\ UNCHANGED <<published, redis, broker, work, bounds>>

SyncFails(h) ==
    /\ pc[h] = "sync"
    /\ Answer(h, Unknown)
    /\ \/ ~published /\ UNCHANGED bounds
       \/ Fault("db")
    /\ UNCHANGED <<db, redis, broker, work>>

--------------------------------------------------------------------------------
(* The worker: consumeJSON and HandleActionChanged *)

WGoto(w, label) == wpc' = [wpc EXCEPT ![w] = label]

Deliver(w) ==
    /\ wpc[w] = "idle"
    /\ queue # <<>>
    /\ msg' = [msg EXCEPT ![w] = Head(queue)]
    /\ queue' = Tail(queue)
    /\ WGoto(w, "apply")
    /\ UNCHANGED <<db, redis, dead, acking, api, seen, bounds>>

\* Wrong variant: a redelivered event, already in the row, is acknowledged
\* without resetting the counters.
ApplySkipsReplay(w) ==
    LET m == msg[w]
        d == RowDelta(row[m.type][m.user], m.active, m.key)
    IN
    /\ wpc[w] = "apply"
    /\ published
    /\ row' = [row EXCEPT ![m.type][m.user] = RowAfter(row[m.type][m.user], m.active, m.key)]
    /\ WGoto(w, IF d = 0 THEN "ack" ELSE "read")
    /\ UNCHANGED <<published, redis, broker, api, msg, seen, bounds>>

\* SetAction commits.
Apply(w) ==
    LET m == msg[w] IN
    /\ wpc[w] = "apply"
    /\ published
    /\ row' = [row EXCEPT ![m.type][m.user] = RowAfter(row[m.type][m.user], m.active, m.key)]
    /\ WGoto(w, "read")
    /\ UNCHANGED <<published, redis, broker, api, msg, seen, bounds>>

\* SetAction fails: the video is withdrawn, or the database has an error.
ApplyFails(w) ==
    /\ wpc[w] = "apply"
    /\ WGoto(w, "failed")
    /\ \/ ~published /\ UNCHANGED bounds
       \/ Fault("db")
    /\ UNCHANGED <<db, redis, broker, api, msg, seen>>

\* reconcileStat reads the authoritative counters.
ReadStat(w) ==
    /\ wpc[w] = "read"
    /\ published
    /\ seen' = [seen EXCEPT ![w] = DbCounts]
    /\ WGoto(w, "base")
    /\ UNCHANGED <<db, redis, broker, api, msg, bounds>>

\* GetVideoStat finds no published video: the counters are not reset.
ReadStatFails(w) ==
    /\ wpc[w] = "read"
    /\ ~published
    /\ WGoto(w, "ack")
    /\ UNCHANGED <<db, redis, broker, api, msg, seen, bounds>>

\* ReconcileActionStat is a pipeline, not a transaction: HSET of the base, ...
SetBase(w) ==
    /\ wpc[w] = "base"
    /\ base' = seen[w]
    /\ WGoto(w, "shards")
    /\ UNCHANGED <<db, hash, shard, broker, api, msg, seen, bounds>>

\* ... then one DEL of all the shards.
DropShards(w) ==
    /\ wpc[w] = "shards"
    /\ shard' = Zeros
    /\ WGoto(w, "ack")
    /\ UNCHANGED <<db, hash, base, broker, api, msg, seen, bounds>>

\* A database or Redis error during the reconciliation is ignored.
ReconcileFails(w) ==
    /\ wpc[w] \in {"read", "base", "shards"}
    /\ Fault("reconcile")
    /\ WGoto(w, "ack")
    /\ UNCHANGED <<db, redis, broker, api, msg, seen>>

Drop(w) ==
    /\ wpc' = [wpc EXCEPT ![w] = "idle"]
    /\ msg' = [msg EXCEPT ![w] = None]
    /\ seen' = [seen EXCEPT ![w] = Zeros]

\* The worker sends the ack and goes on; the broker has not seen it yet.
Ack(w) ==
    /\ wpc[w] = "ack"
    /\ acking' = [acking EXCEPT ![w] = Append(@, msg[w])]
    /\ Drop(w)
    /\ UNCHANGED <<db, redis, queue, dead, api, bounds>>

AckArrives(w) ==
    /\ acking[w] # <<>>
    /\ acking' = [acking EXCEPT ![w] = Tail(@)]
    /\ UNCHANGED <<db, redis, queue, dead, api, work, bounds>>

\* Wrong variant: the retry count is not carried over to the new message.
RepublishUncounted(w) ==
    /\ wpc[w] = "failed"
    /\ msg[w].retries < MaxRetries
    /\ queue' = Append(queue, msg[w])
    /\ WGoto(w, "ack")
    /\ UNCHANGED <<db, redis, dead, acking, api, msg, seen, bounds>>

\* retryOrDeadLetter: publish the message again, at the tail, and ack it, ...
Republish(w) ==
    /\ wpc[w] = "failed"
    /\ msg[w].retries < MaxRetries
    /\ queue' = Append(queue, [msg[w] EXCEPT !.retries = @ + 1])
    /\ WGoto(w, "ack")
    /\ UNCHANGED <<db, redis, dead, acking, api, msg, seen, bounds>>

\* ... or, if publishing fails, give it back with nack(requeue), ...
Requeue(w) ==
    /\ wpc[w] = "failed"
    /\ msg[w].retries < MaxRetries
    /\ Fault("requeue")
    /\ queue' = <<msg[w]>> \o queue
    /\ Drop(w)
    /\ UNCHANGED <<db, redis, dead, acking, api>>

\* ... or, when the retries are used up, dead-letter it.
DeadLetter(w) ==
    /\ wpc[w] = "failed"
    /\ msg[w].retries >= MaxRetries
    /\ dead' = Append(dead, msg[w])
    /\ Drop(w)
    /\ UNCHANGED <<db, redis, queue, acking, api, bounds>>

Holding(w) == IF msg[w] = None THEN <<>> ELSE <<msg[w]>>

\* Wrong variant: unacknowledged messages go back behind the others.
CrashRequeuesAtTail(w) ==
    /\ wpc[w] # "idle" \/ acking[w] # <<>>
    /\ Fault("crash")
    /\ queue' = queue \o acking[w] \o Holding(w)
    /\ acking' = [acking EXCEPT ![w] = <<>>]
    /\ Drop(w)
    /\ UNCHANGED <<db, redis, dead, api>>

\* The worker dies and restarts: the broker puts every message it has no ack
\* for back at its place in the queue.
Crash(w) ==
    /\ wpc[w] # "idle" \/ acking[w] # <<>>
    /\ Fault("crash")
    /\ queue' = acking[w] \o Holding(w) \o queue
    /\ acking' = [acking EXCEPT ![w] = <<>>]
    /\ Drop(w)
    /\ UNCHANGED <<db, redis, dead, api>>

--------------------------------------------------------------------------------
(* The environment: key expiry and the author *)

\* No request lasts as long as a time to live, so none is running.
Quiescent == \A h \in Handlers : pc[h] = "idle"

\* The hash of a user's action expires 30 days after its last write, ...
ExpireHash(t, u) ==
    /\ Quiescent
    /\ hash[t][u] # Absent
    /\ Fault("expire")
    /\ hash' = [hash EXCEPT ![t][u] = Absent]
    /\ UNCHANGED <<db, base, shard, broker, api, work>>

\* ... the counters one day after theirs: every write renews the base and its
\* own shard, so that the shards go first.
ExpireBase ==
    /\ Quiescent
    /\ base # None
    /\ shard = Zeros
    /\ Fault("expire")
    /\ base' = None
    /\ UNCHANGED <<db, hash, shard, broker, api, work>>

ExpireShards ==
    /\ Quiescent
    /\ shard # Zeros
    /\ Fault("expire")
    /\ shard' = Zeros
    /\ UNCHANGED <<db, hash, base, broker, api, work>>

Expire == ExpireBase \/ ExpireShards \/ \E t \in Types, u \in Users : ExpireHash(t, u)

Withdraw ==
    /\ published
    /\ Fault("withdraw")
    /\ published' = FALSE
    /\ UNCHANGED <<row, redis, broker, api, work>>

Respond(h) == SetState(h) \/ Publish(h) \/ SyncApply(h)

HandlerNext(h) ==
    \/ \E r \in Call : Begin(h, r)
    \/ Respond(h) \/ Refuse(h) \/ Interrupt(h) \/ PublishFails(h) \/ SyncFails(h)

Proceed(w) ==
    \/ Deliver(w) \/ Apply(w) \/ ReadStat(w) \/ ReadStatFails(w)
    \/ SetBase(w) \/ DropShards(w) \/ Ack(w) \/ Republish(w) \/ DeadLetter(w)

WorkerNext(w) ==
    \/ Proceed(w) \/ ApplyFails(w) \/ ReconcileFails(w)
    \/ AckArrives(w) \/ Requeue(w) \/ Crash(w)

Next ==
    \/ \E h \in Handlers : HandlerNext(h)
    \/ \E w \in Workers : WorkerNext(w)
    \/ Expire
    \/ Withdraw

Spec == Init /\ [][Next]_vars

\* A handler and a consumer goroutine that can take a step take one.
FairSpec ==
    /\ Spec
    /\ \A h \in Handlers : WF_vars(Respond(h) \/ SyncFails(h))
    /\ \A w \in Workers : WF_vars(Proceed(w) \/ ApplyFails(w))

--------------------------------------------------------------------------------
(* Properties *)

TypeOK ==
    /\ published \in BOOLEAN
    /\ row \in [Types -> [Users -> Record]]
    /\ hash \in [Types -> [Users -> Record]]
    /\ base \in Counts \cup {None}
    /\ shard \in [Types -> Int]
    /\ queue \in Seq(Message)
    /\ dead \in Seq(Message)
    /\ pc \in [Handlers -> {"idle", "state", "publish", "sync"}]
    /\ call \in [Handlers -> Call \cup {None}]
    /\ stat \in [Handlers -> Counts]
    /\ wpc \in [Workers -> {"idle", "apply", "failed", "read", "base", "shards", "ack"}]
    /\ msg \in [Workers -> Message \cup {None}]
    /\ seen \in [Workers -> Counts]
    /\ acking \in [Workers -> Seq(Message)]
    /\ answer \in [Types -> [Users -> Status \cup {Unknown}]]
    /\ happened \in SUBSET Kinds
    /\ calls \in Nat
    /\ faults \in Nat

\* Nothing is under way: every request answered, every event handled.
Drained ==
    /\ Quiescent
    /\ queue = <<>>
    /\ \A w \in Workers : wpc[w] = "idle"

\* actionStatWithPresence: what readers add up. Without a base they add the
\* shards to nothing, and without either they load the database's counters.
Shown(t) ==
    IF base = None /\ shard = Zeros THEN DbCounts[t]
    ELSE Clamp((IF base = None THEN 0 ELSE base[t]) + shard[t])

CountersMatch == \A t \in Types : Shown(t) = DbCounts[t]

\* Every change of a count was published, and every event has reset the
\* counters or still will.
NothingMissed ==
    /\ happened \cap {"interrupt", "publish", "reconcile"} = {}
    /\ dead = <<>>

(* worker.go:79: resetting Redis from the database after every event keeps   *)
(* base and shards from drifting. Whenever nothing is under way, the counts  *)
(* readers get from Redis are those of the database, although the reset is   *)
(* not atomic and crosses requests, redeliveries and expiring keys, unless   *)
(* an event or a reset was given up on the way.                              *)
DrainedCountersMatch == Drained /\ published /\ NothingMissed => CountersMatch

Mine(m, t, u) == m.type = t /\ m.user = u

\* Messages of the action in a sequence, and what the newest of them asks for.
Has(s, t, u) == \E i \in DOMAIN s : Mine(s[i], t, u)

Newest(s, t, u, on) ==
    \A i \in DOMAIN s :
        Mine(s[i], t, u) /\ (\A j \in DOMAIN s : Mine(s[j], t, u) => j <= i) => s[i].active = on

\* The status user u's row is heading for: that of the newest message of the
\* action in the queue, else of the one in a worker's hands, else its own.
HeadsFor(t, u, on) ==
    LET held == {w \in Workers : wpc[w] \in {"apply", "failed"} /\ Mine(msg[w], t, u)}
    IN  IF Has(queue, t, u) THEN Newest(queue, t, u, on)
        ELSE IF held # {} THEN \A w \in held : msg[w].active = on
        ELSE On(row[t][u]) = on

(* action.go:12-30: Like sets the user's like, Unlike clears it. What the    *)
(* last successful answer told the user is what the row will become.         *)
AnswerIsCarried ==
    \A t \in Types, u \in Users :
        published /\ ~Busy(t, u) /\ answer[t][u] # Unknown =>
            HeadsFor(t, u, answer[t][u] = Active)

(* consumer.go:73-77: a message that can never be handled is not redelivered *)
(* for ever. When requests and faults stop, all that was sent is handled or  *)
(* dead-lettered, whatever failed on the way.                                *)
EventuallyDrained == <>[]Drained

(* A handler at work holds its request, a worker exactly then a message.      *)
Engaged ==
    /\ \A h \in Handlers : pc[h] # "idle" => call[h] # None
    /\ \A w \in Workers : wpc[w] # "idle" <=> msg[w] # None

(* The strengthening under which DrainedCountersMatch is inductive, for one  *)
(* consumer.                                                                 *)
OneConsumer == \A v, w \in Workers : v = w

\* A reset of the counters from the database is still to come.
Owed == queue # <<>> \/ \E w \in Workers : wpc[w] \in {"apply", "failed", "read", "base"}

OnPath ==
    /\ \A h \in Handlers : pc[h] # "sync"
    /\ \A w \in Workers : wpc[w] = "base" => seen[w] = DbCounts

BaseOwed == base \in {None, DbCounts} \/ Owed

StatOwed == \A h \in Handlers :
                pc[h] = "state" => base # None \/ stat[h] = DbCounts \/ Owed

ShardOwed == \/ shard = Zeros
             \/ Owed
             \/ \E w \in Workers : wpc[w] = "shards"
             \/ \E h \in Handlers : pc[h] = "publish"

Undisturbed == published /\ NothingMissed

Safe == Undisturbed => OnPath /\ BaseOwed /\ StatOwed /\ ShardOwed

IInv == TypeOK /\ Engaged /\ Safe

(* The strengthening under which AnswerIsCarried is inductive, for one       *)
(* consumer and without the faults that break it.                            *)
Orderly == Faults \cap {"db", "expire", "interrupt", "publish"} = {}

\* A key is only ever sent with the intent it was made for.
Keyed(m)     == m.key # NoKey => m.active = (m.key \in LikeKeys)
KeyedRow(r)  == r.key # NoKey => r.status = StatusFromActive(r.key \in LikeKeys)
KeyedSeq(s)  == \A i \in DOMAIN s : Keyed(s[i])

Intents ==
    /\ \A h \in Handlers : pc[h] # "idle" => Keyed(call[h])
    /\ \A w \in Workers : wpc[w] # "idle" => Keyed(msg[w])
    /\ KeyedSeq(queue) /\ \A w \in Workers : KeyedSeq(acking[w])
    /\ \A t \in Types, u \in Users : KeyedRow(row[t][u])

\* A user's requests for one action come one after the other.
Alone ==
    \A g, h \in Handlers :
        pc[g] # "idle" /\ pc[h] # "idle" /\ Mine(call[g], call[h].type, call[h].user) => g = h

\* No detours: nobody writes the database past the queue, no event is retried.
Straight ==
    /\ \A h \in Handlers : pc[h] # "sync"
    /\ \A w \in Workers : wpc[w] # "failed"
    /\ \A h \in Handlers : pc[h] = "publish" =>
           On(hash[call[h].type][call[h].user]) = call[h].active

\* What the user's published requests ask for: the hash, but for a change that
\* is about to be published.
Sent(t, u) ==
    On(hash[t][u]) # \E h \in Handlers : pc[h] = "publish" /\ Mine(call[h], t, u)

HoldsMine(w, t, u) == msg[w] # None /\ Mine(msg[w], t, u)

\* The row is heading there, and will again if the worker dies now and all that
\* is not acknowledged is delivered again.
Carried(t, u) ==
    /\ HeadsFor(t, u, Sent(t, u))
    /\ ~Has(queue, t, u) => \A w \in Workers :
           IF HoldsMine(w, t, u) THEN msg[w].active = Sent(t, u)
           ELSE Newest(acking[w], t, u, Sent(t, u))
    /\ ~Busy(t, u) /\ answer[t][u] # Unknown => (answer[t][u] = Active) = On(hash[t][u])

AnswersInv ==
    /\ Intents /\ Alone
    /\ published => Straight /\ \A t \in Types, u \in Users : Carried(t, u)
================================================================================
