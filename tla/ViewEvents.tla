------------------------------ MODULE ViewEvents ------------------------------
(***************************************************************************)
(* Viewing behaviour of one user on its way into the interest vector that  *)
(* ranks recommendations. The API writes a row and publishes an event; a   *)
(* worker claims the event's idempotency key in Redis and adds its weight  *)
(* to the cached vector, if there is one; a recommendation request that    *)
(* finds none aggregates the rows and stores the result. Rows, events and  *)
(* cache are not tied together: any of these steps may interleave.         *)
(*                                                                         *)
(* A vector is abstracted to how often each event counts in it. The retry  *)
(* of a failed event is RabbitDelivery's.                                  *)
(*                                                                         *)
(* Source: internal/application/exposure, internal/infra/cache/            *)
(* event_dedup_cache.go and user_interest_cache.go, and internal/infra/    *)
(* persistence/recommendation/gorm.go.                                     *)
(***************************************************************************)
EXTENDS Naturals, Sequences, FiniteSets, FiniteSetsExt

CONSTANTS
    Events,      \* view events of the user, each a row
    Positive,    \* those that carry weight: of a positive type, on a video with a vector
    Workers, Readers,
    None,
    MaxRetries,
    TTL,         \* life of a cached vector, in ticks of the clock
    MaxFaults    \* bound: faults of the whole run

VARIABLES
    saved,       \* events whose row is committed
    toPublish,   \* events the API is about to publish
    queue, dead, \* the event queue and its dead-letter queue
    key,         \* key[e]: e's idempotency key is taken
    snap,        \* the cached vector, or None
    ttl,         \* ticks of the clock until the vector expires
    hand, at, read,  \* per worker: its delivery, its next step, the vector it read
    miss, base,  \* per reader: it has found no vector; the one it has aggregated, or None
    applied,     \* applied[e]: times e's weight was added, or found nothing to add to
    faults       \* faults[k]: faults of kind k so far

api    == <<saved, toPublish>>
cache  == <<snap, ttl>>
worker == <<hand, at, read>>
reader == <<miss, base>>
vars   == <<api, queue, dead, key, cache, worker, reader, applied, faults>>

Kinds == {"publish", "claim", "apply", "reply", "release", "crash"}

Message == [event : Events, retries : 0..MaxRetries]
Vector  == [Events -> Nat]

ASSUME NoneIsNew  == None \notin Message \cup Vector
ASSUME RetriesNat == MaxRetries \in Nat
ASSUME TTLPos     == TTL \in Nat \ {0}

Init ==
    /\ saved = {} /\ toPublish = {}
    /\ queue = <<>> /\ dead = {}
    /\ key = [e \in Events |-> FALSE]
    /\ snap = None /\ ttl = 0
    /\ hand = [w \in Workers |-> None]
    /\ at = [w \in Workers |-> "idle"]
    /\ read = [w \in Workers |-> None]
    /\ miss = [r \in Readers |-> FALSE]
    /\ base = [r \in Readers |-> None]
    /\ applied = [e \in Events |-> 0]
    /\ faults = [k \in Kinds |-> 0]

MayFail == MapThenSumSet(LAMBDA k : faults[k], Kinds) < MaxFaults

Fault(kind) ==
    /\ MayFail
    /\ faults' = [faults EXCEPT ![kind] = @ + 1]

(* The API: RecordViewEvent *)

SaveViewEvent(e) ==
    /\ e \notin saved
    /\ saved' = saved \cup {e}
    /\ toPublish' = toPublish \cup {e}
    /\ UNCHANGED <<queue, dead, key, cache, worker, reader, applied, faults>>

\* The outcome of publishing is ignored.
PublishViewEvent(e) ==
    /\ e \in toPublish
    /\ toPublish' = toPublish \ {e}
    /\ \/ queue' = Append(queue, [event |-> e, retries |-> 0]) /\ UNCHANGED faults
       \/ Fault("publish") /\ UNCHANGED queue
    /\ UNCHANGED <<saved, dead, key, cache, worker, reader, applied>>

(* The worker: HandleViewEventRecorded *)

Event(w) == hand[w].event

Goto(w, label) == at' = [at EXCEPT ![w] = label]

Deliver(w) ==
    /\ at[w] = "idle"
    /\ queue # <<>>
    /\ hand' = [hand EXCEPT ![w] = Head(queue)]
    /\ queue' = Tail(queue)
    /\ Goto(w, "claim")
    /\ UNCHANGED <<api, dead, key, cache, read, reader, applied, faults>>

\* Wrong variant: the key is only taken once the event has been applied.
ClaimChecks(w) ==
    /\ at[w] = "claim"
    /\ key' = key
    /\ IF key[Event(w)] THEN Goto(w, "ack") ELSE Goto(w, "get")
    /\ UNCHANGED <<api, queue, dead, cache, hand, read, reader, applied, faults>>

\* SETNX: an event whose key is taken is a duplicate.
Claim(w) ==
    /\ at[w] = "claim"
    /\ key' = [key EXCEPT ![Event(w)] = TRUE]
    /\ IF key[Event(w)] THEN Goto(w, "ack") ELSE Goto(w, "get")
    /\ UNCHANGED <<api, queue, dead, cache, hand, read, reader, applied, faults>>

\* Without an answer from Redis, which may have taken the key or not, the
\* event is processed.
ClaimFails(w) ==
    /\ at[w] = "claim"
    /\ Fault("claim")
    /\ key' \in {key, [key EXCEPT ![Event(w)] = TRUE]}
    /\ Goto(w, "get")
    /\ UNCHANGED <<api, queue, dead, cache, hand, read, reader, applied>>

Count(e) == applied' = [applied EXCEPT ![e] = @ + 1]

\* UserInterestCache.Apply reads the vector; an event without weight, or a
\* vector that is not cached, is nothing to update.
GetVector(w) ==
    /\ at[w] = "get"
    /\ IF Event(w) \in Positive /\ snap # None
       THEN read' = [read EXCEPT ![w] = snap] /\ Goto(w, "set") /\ UNCHANGED applied
       ELSE Count(Event(w)) /\ Goto(w, "ack") /\ UNCHANGED read
    /\ UNCHANGED <<api, queue, dead, key, cache, hand, reader, faults>>

\* Loading the video's vector or the cached one fails.
GetFails(w) ==
    /\ at[w] = "get"
    /\ Event(w) \in Positive
    /\ Fault("apply")
    /\ Goto(w, "release")
    /\ UNCHANGED <<api, queue, dead, key, cache, hand, read, reader, applied>>

Updated(w) == [read[w] EXCEPT ![Event(w)] = @ + 1]

Write(vector) == snap' = vector /\ ttl' = TTL

\* SET XX: a vector that has expired since is not written, which go-redis
\* reports as the error redis.Nil.
SetVector(w) ==
    /\ at[w] = "set"
    /\ IF snap # None
       THEN Write(Updated(w)) /\ Count(Event(w)) /\ Goto(w, "ack")
       ELSE UNCHANGED <<snap, ttl, applied>> /\ Goto(w, "release")
    /\ read' = [read EXCEPT ![w] = None]
    /\ UNCHANGED <<api, queue, dead, key, hand, reader, faults>>

\* The answer of a SET XX is lost.
SetUnanswered(w) ==
    /\ at[w] = "set"
    /\ snap # None
    /\ Fault("reply")
    /\ Write(Updated(w))
    /\ Count(Event(w))
    /\ Goto(w, "release")
    /\ read' = [read EXCEPT ![w] = None]
    /\ UNCHANGED <<api, queue, dead, key, hand, reader>>

\* Wrong variant: a failed event keeps its key.
ReleaseForgotten(w) ==
    /\ at[w] = "release"
    /\ Goto(w, "failed")
    /\ UNCHANGED <<api, queue, dead, key, cache, hand, read, reader, applied, faults>>

\* The event failed: its key is given back, unless that fails as well.
Release(w) ==
    /\ at[w] = "release"
    /\ \/ key' = [key EXCEPT ![Event(w)] = FALSE] /\ UNCHANGED faults
       \/ Fault("release") /\ UNCHANGED key
    /\ Goto(w, "failed")
    /\ UNCHANGED <<api, queue, dead, cache, hand, read, reader, applied>>

Drop(w) == hand' = [hand EXCEPT ![w] = None] /\ Goto(w, "idle")

\* Wrong variant: a retried event keeps its retry count.
RetryUncounted(w) ==
    /\ at[w] = "failed"
    /\ queue' = Append(queue, hand[w])
    /\ Goto(w, "ack")
    /\ UNCHANGED <<api, dead, key, cache, hand, read, reader, applied, faults>>

Retry(w) ==
    LET m == hand[w] IN
    /\ at[w] = "failed"
    /\ IF m.retries < MaxRetries
       THEN /\ queue' = Append(queue, [m EXCEPT !.retries = m.retries + 1])
            /\ Goto(w, "ack")
            /\ UNCHANGED <<dead, hand>>
       ELSE /\ dead' = dead \cup {m.event}
            /\ Drop(w)
            /\ UNCHANGED queue
    /\ UNCHANGED <<api, key, cache, read, reader, applied, faults>>

Ack(w) ==
    /\ at[w] = "ack"
    /\ Drop(w)
    /\ UNCHANGED <<api, queue, dead, key, cache, read, reader, applied, faults>>

\* The process dies; the broker requeues its delivery, Redis keeps its key.
Crash(w) ==
    /\ hand[w] # None
    /\ Fault("crash")
    /\ queue' = <<hand[w]>> \o queue
    /\ Drop(w)
    /\ read' = [read EXCEPT ![w] = None]
    /\ UNCHANGED <<api, dead, key, cache, reader, applied>>

Work(w) ==
    \/ Deliver(w) \/ Claim(w) \/ ClaimFails(w) \/ GetVector(w) \/ GetFails(w)
    \/ SetVector(w) \/ SetUnanswered(w) \/ Release(w) \/ Retry(w) \/ Ack(w)

(* A recommendation request: LoadUserInterestVector *)

Load(r) ==
    /\ ~miss[r]
    /\ snap = None
    /\ miss' = [miss EXCEPT ![r] = TRUE]
    /\ UNCHANGED <<api, queue, dead, key, cache, worker, base, applied, faults>>

Rows == [e \in Events |-> IF e \in saved \cap Positive THEN 1 ELSE 0]

\* Without a row that has weight there is nothing to store.
Aggregate(r) ==
    /\ miss[r] /\ base[r] = None
    /\ IF saved \cap Positive = {}
       THEN miss' = [miss EXCEPT ![r] = FALSE] /\ UNCHANGED base
       ELSE base' = [base EXCEPT ![r] = Rows] /\ UNCHANGED miss
    /\ UNCHANGED <<api, queue, dead, key, cache, worker, applied, faults>>

Store(r) ==
    /\ base[r] # None
    /\ Write(base[r])
    /\ miss' = [miss EXCEPT ![r] = FALSE]
    /\ base' = [base EXCEPT ![r] = None]
    /\ UNCHANGED <<api, queue, dead, key, worker, applied, faults>>

\* Time passes, and a vector nobody has written for TTL ticks expires.
Tick ==
    /\ snap # None
    /\ IF ttl > 1
       THEN ttl' = ttl - 1 /\ UNCHANGED snap
       ELSE ttl' = 0 /\ snap' = None
    /\ UNCHANGED <<api, queue, dead, key, worker, reader, applied, faults>>

Next ==
    \/ \E e \in Events : SaveViewEvent(e) \/ PublishViewEvent(e)
    \/ \E w \in Workers : Work(w) \/ Crash(w)
    \/ \E r \in Readers : Load(r) \/ Aggregate(r) \/ Store(r)
    \/ Tick

Spec == Init /\ [][Next]_vars

\* Requests under way and the worker's goroutine go on.
FairSpec ==
    /\ Spec
    /\ \A e \in Events : WF_vars(PublishViewEvent(e))
    /\ \A w \in Workers : WF_vars(Work(w))

--------------------------------------------------------------------------------
(* Properties *)

Steps == {"idle", "claim", "get", "set", "release", "failed", "ack"}

TypeOK ==
    /\ saved \in SUBSET Events
    /\ toPublish \in SUBSET saved
    /\ queue \in Seq(Message)
    /\ dead \in SUBSET Events
    /\ key \in [Events -> BOOLEAN]
    /\ snap \in Vector \cup {None}
    /\ ttl \in 0..TTL
    /\ hand \in [Workers -> Message \cup {None}]
    /\ at \in [Workers -> Steps]
    /\ read \in [Workers -> Vector \cup {None}]
    /\ miss \in [Readers -> BOOLEAN]
    /\ base \in [Readers -> Vector \cup {None}]
    /\ applied \in [Events -> Nat]
    /\ faults \in [Kinds -> Nat]

(* worker.go:33: a redelivered event must not add its weight again. Whatever *)
(* is retried, duplicated by a crash or processed by two workers at a time,  *)
(* an event is applied once, and once more for each call to Redis that has   *)
(* not been answered.                                                        *)
AppliedOnce ==
    \A e \in Events : applied[e] <= 1 + faults["claim"] + faults["reply"]

\* The workers that process e and answer for its key.
Processing(e) == {w \in Workers : at[w] \in {"get", "set", "release"} /\ hand[w].event = e}

\* The strengthening under which AppliedOnce is inductive: a free key permits
\* one application, which the worker that takes the key holds until it has
\* applied the event or given the key back.
Permits ==
    \A e \in Events :
        applied[e] + Cardinality(Processing(e)) + (IF key[e] THEN 0 ELSE 1)
            <= 1 + faults["claim"] + faults["reply"]

\* A worker is at work exactly while it holds a delivery.
Engaged == \A w \in Workers : at[w] # "idle" <=> hand[w] # None

\* A worker about to write has read a vector.
HasRead == \A w \in Workers : at[w] = "set" => read[w] # None

\* The API and the workers have nothing left to do.
Settled == toPublish = {} /\ queue = <<>> /\ \A w \in Workers : at[w] = "idle"

Missed == {e \in saved : applied[e] = 0 /\ e \notin dead}

(* worker.go:88, 99: events are not dropped. A recorded event is applied or  *)
(* dead-lettered in the end; each event that is not was lost by one failed   *)
(* publication, one crash under a claimed key or one failed release.         *)
LossesExplained ==
    Settled => Cardinality(Missed) <= faults["publish"] + faults["crash"] + faults["release"]

\* Events in the queue.
Queued == {queue[i].event : i \in DOMAIN queue}

\* An event that may still be applied: it is about to be published, a worker
\* answers for its key, or its key is free and a copy of it is on its way.
Live(e) ==
    \/ e \in toPublish
    \/ Processing(e) # {}
    \/ /\ ~key[e]
       /\ \/ e \in Queued
          \/ \E w \in Workers : at[w] \in {"claim", "failed"} /\ hand[w].event = e

Lost == {e \in Missed : ~Live(e)}

\* The strengthening under which LossesExplained is inductive: no event is lost
\* without a fault, at any time, and nobody knows of an unpublished one.
LossesCounted ==
    /\ Cardinality(Lost) <= faults["publish"] + faults["crash"] + faults["release"]
    /\ \A e \in Events :
        e \notin saved \/ e \in toPublish =>
            ~key[e] /\ e \notin Queued /\ \A w \in Workers : hand[w] = None \/ hand[w].event # e

(* A failing event does not circulate for ever, although a vector that       *)
(* expires between reading and writing fails it without any fault.           *)
EventuallySettled == <>[]Settled
================================================================================
