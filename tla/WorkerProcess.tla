---------------------------- MODULE WorkerProcess ----------------------------
(***************************************************************************)
(* The life of the worker process: it opens the database and the broker,   *)
(* starts the consumers one after the other, closes what it has deferred   *)
(* when the start function returns, and waits for a signal. The goroutine  *)
(* of a consumer ends when its connection is closed. What becomes of the   *)
(* messages is RabbitDelivery's matter.                                    *)
(*                                                                         *)
(* Source: cmd/worker/main.go, internal/bootstrap/worker.go and            *)
(* internal/infra/mq/consumer.go.                                          *)
(***************************************************************************)
EXTENDS Naturals, Sequences

CONSTANT Consumers   \* the topics, in the order their consumers are started

VARIABLES
    pc,       \* what main and StartWorkers do next
    db, mq,   \* the connections: "none", "open" or "closed"
    started,  \* how many consumers have been started
    work      \* work[t]: the goroutine of t is "none", "waiting", "handling" or "ended"

vars == <<pc, db, mq, started, work>>

Topics == {Consumers[i] : i \in DOMAIN Consumers}

Init ==
    /\ pc = "database"
    /\ db = "none"
    /\ mq = "none"
    /\ started = 0
    /\ work = [t \in Topics |-> "none"]

OpenDatabase ==
    /\ pc = "database"
    /\ \/ db' = "open" /\ pc' = "migrate"
       \/ UNCHANGED db /\ pc' = "failed"
    /\ UNCHANGED <<mq, started, work>>

\* A failed start closes what it has opened, and log.Fatalf ends the process.
Migrate ==
    /\ pc = "migrate"
    /\ \/ pc' = "broker" /\ UNCHANGED db
       \/ pc' = "failed" /\ db' = "closed"
    /\ UNCHANGED <<mq, started, work>>

OpenBroker ==
    /\ pc = "broker"
    /\ \/ mq' = "open" /\ pc' = "consume" /\ UNCHANGED db
       \/ db' = "closed" /\ pc' = "failed" /\ UNCHANGED mq
    /\ UNCHANGED <<started, work>>

StartConsumer ==
    /\ pc = "consume"
    /\ started < Len(Consumers)
    /\ started' = started + 1
    /\ work' = [work EXCEPT ![Consumers[started + 1]] = "waiting"]
    /\ UNCHANGED <<pc, db, mq>>

ConsumeFails ==
    /\ pc = "consume"
    /\ started < Len(Consumers)
    /\ mq' = "closed" /\ db' = "closed"
    /\ work' = [t \in Topics |-> "ended"]
    /\ pc' = "failed"
    /\ UNCHANGED started

\* startWorkers returns, and StartWorkers runs its deferred calls: it closes
\* the broker connection, under running handlers or not, ...
CloseBroker ==
    /\ pc = "consume"
    /\ started = Len(Consumers)
    /\ mq' = "closed"
    /\ work' = [t \in Topics |-> IF work[t] = "handling" THEN "handling" ELSE "ended"]
    /\ pc' = "close"
    /\ UNCHANGED <<db, started>>

\* ... then the database, ...
CloseDatabase ==
    /\ pc = "close"
    /\ db' = "closed"
    /\ pc' = "running"
    /\ UNCHANGED <<mq, started, work>>

\* ... and main waits for a signal.
Signal ==
    /\ pc = "running"
    /\ pc' = "stopped"
    /\ work' = [t \in Topics |-> "ended"]
    /\ UNCHANGED <<db, mq, started>>

Deliver(t) ==
    /\ mq = "open"
    /\ work[t] = "waiting"
    /\ work' = [work EXCEPT ![t] = "handling"]
    /\ UNCHANGED <<pc, db, mq, started>>

\* After a message, the goroutine takes the next, if the connection is open.
Handle(t) ==
    /\ work[t] = "handling"
    /\ work' = [work EXCEPT ![t] = IF mq = "open" THEN "waiting" ELSE "ended"]
    /\ UNCHANGED <<pc, db, mq, started>>

Next ==
    \/ OpenDatabase \/ Migrate \/ OpenBroker \/ StartConsumer \/ ConsumeFails
    \/ CloseBroker \/ CloseDatabase \/ Signal
    \/ \E t \in Topics : Deliver(t) \/ Handle(t)

Spec == Init /\ [][Next]_vars

--------------------------------------------------------------------------------
(* Property *)

(* worker.go:31: StartWorkers starts all the background consumers. While the *)
(* process runs, waiting for its signal, every consumer is alive and both    *)
(* connections it needs are open.                                            *)
RunningConsumes ==
    pc = "running" =>
        db = "open" /\ mq = "open" /\ \A t \in Topics : work[t] \in {"waiting", "handling"}
================================================================================
