---------------------------- MODULE RabbitDelivery ----------------------------
(***************************************************************************)
(* The message delivery every worker relies on: an event is published to a *)
(* topic exchange and routed to each queue bound to its routing key;       *)
(* consumers acknowledge by hand, a failed event is published again with a *)
(* retry count, and one that has used up its retries is dead-lettered.     *)
(*                                                                         *)
(* gcfeed.video.published and gcfeed.video.embedding are bound to the same *)
(* exchange with the same key, so Queues may have several members; the     *)
(* other two topics have one queue each. Consumers have no prefetch limit  *)
(* but handle one delivery at a time, in order.                            *)
(*                                                                         *)
(* Source: internal/infra/mq/consumer.go, publisher.go and topology.go.    *)
(***************************************************************************)
EXTENDS Naturals, Sequences, FiniteSets

CONSTANTS
    Queues,       \* the queues bound to the routing key
    DeadLettered, \* those declared with a dead-letter exchange
    Workers,      \* worker processes; each consumes every queue
    Events,
    Malformed,    \* events whose body does not decode
    Poison,       \* Poison[q]: events the handler of q can never process
    None,
    MaxRetries,
    MaxFaults,    \* bound: faults of the whole run
    Faults        \* the kinds of faults that may happen

VARIABLES
    published,  \* events the API has published
    queue,      \* queue[q]: ready messages
    dead,       \* dead[q]: events in the dead-letter queue
    hand, step, \* hand[w][q], step[w][q]: unacknowledged delivery, what comes next
    handled,    \* handled[q]: events the handler of q has processed
    failures,   \* failures[q][e]: failed runs of the handler, as the metrics count them
    faults

vars == <<published, queue, dead, hand, step, handled, failures, faults>>

Delivery == [event : Events, retries : 0..MaxRetries]

ASSUME RetriesNat  == MaxRetries \in Nat
ASSUME NoneIsNew   == None \notin Delivery
ASSUME PoisonTyped == Poison \in [Queues -> SUBSET Events]

Init ==
    /\ published = {}
    /\ queue = [q \in Queues |-> <<>>]
    /\ dead = [q \in Queues |-> {}]
    /\ hand = [w \in Workers |-> [q \in Queues |-> None]]
    /\ step = [w \in Workers |-> [q \in Queues |-> "idle"]]
    /\ handled = [q \in Queues |-> {}]
    /\ failures = [q \in Queues |-> [e \in Events |-> 0]]
    /\ faults = 0

Fault(kind) ==
    /\ kind \in Faults
    /\ faults < MaxFaults
    /\ faults' = faults + 1

\* The exchange copies a message to every queue bound to its routing key.
Route(m) == queue' = [q \in Queues |-> Append(queue[q], m)]

Publish(e) ==
    /\ e \notin published
    /\ published' = published \cup {e}
    /\ Route([event |-> e, retries |-> 0])
    /\ UNCHANGED <<dead, hand, step, handled, failures, faults>>

Goto(w, q, label) == step' = [step EXCEPT ![w][q] = label]

\* The delivery is settled and the consumer free again.
Drop(w, q) ==
    /\ hand' = [hand EXCEPT ![w][q] = None]
    /\ Goto(w, q, "idle")

Deliver(w, q) ==
    /\ step[w][q] = "idle"
    /\ queue[q] # <<>>
    /\ hand' = [hand EXCEPT ![w][q] = Head(queue[q])]
    /\ queue' = [queue EXCEPT ![q] = Tail(@)]
    /\ Goto(w, q, "handle")
    /\ UNCHANGED <<published, dead, handled, failures, faults>>

\* nack without requeue: the broker dead-letters the message, if it can.
Reject(w, q) ==
    /\ dead' = IF q \in DeadLettered
               THEN [dead EXCEPT ![q] = @ \cup {hand[w][q].event}]
               ELSE dead
    /\ Drop(w, q)
    /\ UNCHANGED <<published, queue, handled, failures, faults>>

\* Wrong variant: a body that does not decode is requeued.
DecodeFailsRequeues(w, q) ==
    /\ step[w][q] = "handle"
    /\ hand[w][q].event \in Malformed
    /\ queue' = [queue EXCEPT ![q] = <<hand[w][q]>> \o @]
    /\ Drop(w, q)
    /\ UNCHANGED <<published, dead, handled, failures, faults>>

\* A body that does not decode will not decode later either.
DecodeFails(w, q) ==
    /\ step[w][q] = "handle"
    /\ hand[w][q].event \in Malformed
    /\ Reject(w, q)

Handle(w, q) ==
    LET e == hand[w][q].event IN
    /\ step[w][q] = "handle"
    /\ e \notin Malformed \cup Poison[q]
    /\ handled' = [handled EXCEPT ![q] = @ \cup {e}]
    /\ Goto(w, q, "ack")
    /\ UNCHANGED <<published, queue, dead, hand, failures, faults>>

HandleFails(w, q) ==
    LET e == hand[w][q].event IN
    /\ step[w][q] = "handle"
    /\ e \notin Malformed
    /\ IF e \in Poison[q] THEN UNCHANGED faults ELSE Fault("handler")
    /\ failures' = [failures EXCEPT ![q][e] = @ + 1]
    /\ Goto(w, q, "failed")
    /\ UNCHANGED <<published, queue, dead, hand, handled>>

\* retryOrDeadLetter: give up after MaxRetries redeliveries, ...
DeadLetter(w, q) ==
    /\ step[w][q] = "failed"
    /\ hand[w][q].retries >= MaxRetries
    /\ Reject(w, q)

\* Wrong variant: the header of the new message keeps the old count.
RepublishUncounted(w, q) ==
    /\ step[w][q] = "failed"
    /\ hand[w][q].retries < MaxRetries
    /\ Route(hand[w][q])
    /\ Goto(w, q, "ack")
    /\ UNCHANGED <<published, dead, hand, handled, failures, faults>>

\* ... otherwise publish it again, to the exchange it came from, ...
Republish(w, q) ==
    LET m == hand[w][q] IN
    /\ step[w][q] = "failed"
    /\ m.retries < MaxRetries
    /\ Route([m EXCEPT !.retries = m.retries + 1])
    /\ Goto(w, q, "ack")
    /\ UNCHANGED <<published, dead, hand, handled, failures, faults>>

\* Wrong variant: the message is acknowledged although publishing failed.
RequeueDrops(w, q) ==
    /\ step[w][q] = "failed"
    /\ hand[w][q].retries < MaxRetries
    /\ Fault("publish")
    /\ Drop(w, q)
    /\ UNCHANGED <<published, queue, dead, handled, failures>>

\* ... or, when publishing fails, give it back uncounted.
Requeue(w, q) ==
    /\ step[w][q] = "failed"
    /\ hand[w][q].retries < MaxRetries
    /\ Fault("publish")
    /\ queue' = [queue EXCEPT ![q] = <<hand[w][q]>> \o @]
    /\ Drop(w, q)
    /\ UNCHANGED <<published, dead, handled, failures>>

Ack(w, q) ==
    /\ step[w][q] = "ack"
    /\ Drop(w, q)
    /\ UNCHANGED <<published, queue, dead, handled, failures, faults>>

Holding(w, q) == IF hand[w][q] = None THEN <<>> ELSE <<hand[w][q]>>

\* A worker dies and restarts; the broker requeues what it had not acknowledged.
Crash(w) ==
    /\ \E q \in Queues : hand[w][q] # None
    /\ Fault("crash")
    /\ queue' = [q \in Queues |-> Holding(w, q) \o queue[q]]
    /\ hand' = [hand EXCEPT ![w] = [q \in Queues |-> None]]
    /\ step' = [step EXCEPT ![w] = [q \in Queues |-> "idle"]]
    /\ UNCHANGED <<published, dead, handled, failures>>

Consume(w, q) ==
    \/ Deliver(w, q) \/ DecodeFails(w, q) \/ Handle(w, q) \/ HandleFails(w, q)
    \/ DeadLetter(w, q) \/ Republish(w, q) \/ Requeue(w, q) \/ Ack(w, q)

Next ==
    \/ \E e \in Events : Publish(e)
    \/ \E w \in Workers, q \in Queues : Consume(w, q)
    \/ \E w \in Workers : Crash(w)

Spec == Init /\ [][Next]_vars

\* A consumer goroutine with work to do goes on.
FairSpec == Spec /\ \A w \in Workers, q \in Queues : WF_vars(Consume(w, q))

--------------------------------------------------------------------------------
(* Properties *)

TypeOK ==
    /\ published \in SUBSET Events
    /\ queue \in [Queues -> Seq(Delivery)]
    /\ dead \in [Queues -> SUBSET Events]
    /\ hand \in [Workers -> [Queues -> Delivery \cup {None}]]
    /\ step \in [Workers -> [Queues -> {"idle", "handle", "failed", "ack"}]]
    /\ handled \in [Queues -> SUBSET Events]
    /\ failures \in [Queues -> [Events -> Nat]]
    /\ faults \in Nat

Contains(s, e) == \E i \in DOMAIN s : s[i].event = e
Queued(q, e)   == Contains(queue[q], e)
AtWork(q, e)   == \E w \in Workers : /\ step[w][q] \in {"handle", "failed"}
                                     /\ hand[w][q].event = e

(* consumer.go:92, topology.go:39: better to consume twice than to lose a    *)
(* message in silence. A published event is processed, dead-lettered, queued *)
(* or in a consumer's hands, for each queue, whatever fails; a delivery      *)
(* about to be acknowledged does not count.                                  *)
NothingLost ==
    \A q \in DeadLettered \cap Queues : \A e \in published :
        e \in handled[q] \/ e \in dead[q] \/ Queued(q, e) \/ AtWork(q, e)

(* options.go:22: MaxRetries is the number of redeliveries of a message. A   *)
(* handler that fails on an event does so at most MaxRetries + 1 times, and  *)
(* as many times again for each crash or failed republication on the way.    *)
RetryBudget ==
    \A q \in Queues, e \in Events :
        failures[q][e] <= (MaxRetries + 1) * (1 + faults)

(* consumer.go:75: a message that always fails must not circulate for ever.  *)
(* Once publishing ends, every queue is empty and every consumer idle.       *)
Settled == \A q \in Queues : queue[q] = <<>> /\ \A w \in Workers : hand[w][q] = None
EventuallySettled == <>[]Settled

\* A consumer is idle exactly when it holds nothing.
Engaged == \A w \in Workers, q \in Queues : step[w][q] = "idle" <=> hand[w][q] = None

\* The strengthening under which NothingLost is inductive.
IInv == TypeOK /\ Engaged /\ NothingLost
================================================================================
