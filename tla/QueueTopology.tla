---------------------------- MODULE QueueTopology ----------------------------
(***************************************************************************)
(* Starting processes declare one business queue: its dead-letter queue,   *)
(* the queue itself (migrated in place when an older version declared it   *)
(* without a dead-letter exchange), and its binding. Several API and       *)
(* worker processes start at the same time while others publish; workers   *)
(* then consume.                                                           *)
(*                                                                         *)
(* The broker's rules: declaring a queue with other arguments fails with   *)
(* 406, using one that does not exist fails with 404, both close the       *)
(* channel; a delete with if-unused and if-empty fails otherwise; a        *)
(* message no queue is bound for is dropped.                               *)
(*                                                                         *)
(* Source: internal/infra/mq/topology.go, rabbitmq.go and consumer.go.     *)
(***************************************************************************)
EXTENDS Naturals, FiniteSets

CONSTANTS
    Procs,       \* starting processes
    Subscribers, \* those that will consume
    OldQueue,    \* a queue without dead-letter exchange exists at the start
    MaxPublish   \* bound: messages published

VARIABLES
    exists, dlx, bound,  \* the business queue, its arguments and binding
    ready,               \* messages in the queue
    deadLetter,          \* the dead-letter exchange and queue exist
    consumers,           \* processes that consume
    pc,
    sent, taken, dropped \* messages published, consumed, and dropped by the exchange

business == <<exists, dlx, bound, ready>>
topologyVars == <<exists, dlx, bound, ready, deadLetter, consumers, pc, sent, taken, dropped>>

ASSUME SubscribersStart == Subscribers \subseteq Procs
ASSUME OldQueueKnown    == OldQueue \in BOOLEAN
ASSUME BoundNat         == MaxPublish \in Nat

TopologyInit ==
    /\ exists = OldQueue
    /\ bound = OldQueue
    /\ dlx = FALSE
    /\ ready \in IF OldQueue THEN {0, 1} ELSE {0}
    /\ deadLetter = FALSE
    /\ consumers = {}
    /\ pc = [p \in Procs |-> "deadLetter"]
    /\ sent = ready
    /\ taken = 0
    /\ dropped = 0

MoveTo(p, label) == pc' = [pc EXCEPT ![p] = label]

DeclareDeadLetter(p) ==
    /\ pc[p] = "deadLetter"
    /\ deadLetter' = TRUE
    /\ MoveTo(p, "declare")
    /\ UNCHANGED <<business, consumers, sent, taken, dropped>>

\* QueueDeclare succeeds: it creates the queue, or finds it as wanted.
QueueDeclare ==
    /\ ~exists \/ dlx
    /\ exists' = TRUE
    /\ dlx' = TRUE
    /\ UNCHANGED <<bound, ready>>

Declare(p) ==
    /\ pc[p] = "declare"
    /\ IF exists /\ ~dlx
       THEN MoveTo(p, "delete") /\ UNCHANGED business
       ELSE QueueDeclare /\ MoveTo(p, "bind")
    /\ UNCHANGED <<deadLetter, consumers, sent, taken, dropped>>

Deletable == consumers = {} /\ ready = 0

\* Wrong variant: the delete does not ask for an unused queue.
DeleteInUse(p) ==
    /\ pc[p] = "delete"
    /\ IF ready = 0
       THEN exists' = FALSE /\ dlx' = FALSE /\ bound' = FALSE
       ELSE UNCHANGED <<exists, dlx, bound>>
    /\ MoveTo(p, "redeclare")
    /\ UNCHANGED <<ready, deadLetter, consumers, sent, taken, dropped>>

\* Wrong variant: the delete does not ask for an empty queue.
DeleteFull(p) ==
    /\ pc[p] = "delete"
    /\ IF consumers = {}
       THEN exists' = FALSE /\ dlx' = FALSE /\ bound' = FALSE /\ ready' = 0
       ELSE UNCHANGED <<exists, dlx, bound, ready>>
    /\ MoveTo(p, "redeclare")
    /\ UNCHANGED <<deadLetter, consumers, sent, taken, dropped>>

\* QueueDelete(ifUnused, ifEmpty), whose failure is only remembered.
Delete(p) ==
    /\ pc[p] = "delete"
    /\ IF Deletable
       THEN exists' = FALSE /\ dlx' = FALSE /\ bound' = FALSE
       ELSE UNCHANGED <<exists, dlx, bound>>
    /\ MoveTo(p, "redeclare")
    /\ UNCHANGED <<ready, deadLetter, consumers, sent, taken, dropped>>

\* Wrong variant: a queue that was deleted is taken for bound.
RedeclareUnbound(p) ==
    /\ pc[p] = "redeclare"
    /\ IF exists /\ ~dlx THEN UNCHANGED business ELSE QueueDeclare
    /\ MoveTo(p, "ready")
    /\ UNCHANGED <<deadLetter, consumers, sent, taken, dropped>>

\* Wrong variant: the migration is tried until it succeeds.
RedeclareRetries(p) ==
    /\ pc[p] = "redeclare"
    /\ IF exists /\ ~dlx
       THEN MoveTo(p, "delete") /\ UNCHANGED business
       ELSE QueueDeclare /\ MoveTo(p, "bind")
    /\ UNCHANGED <<deadLetter, consumers, sent, taken, dropped>>

\* A queue that could not be deleted keeps its old arguments.
Redeclare(p) ==
    /\ pc[p] = "redeclare"
    /\ IF exists /\ ~dlx THEN UNCHANGED business ELSE QueueDeclare
    /\ MoveTo(p, "bind")
    /\ UNCHANGED <<deadLetter, consumers, sent, taken, dropped>>

\* Binding a queue another process has just deleted fails the whole start.
Bind(p) ==
    /\ pc[p] = "bind"
    /\ IF exists
       THEN bound' = TRUE /\ MoveTo(p, "ready")
       ELSE UNCHANGED bound /\ MoveTo(p, "failed")
    /\ UNCHANGED <<exists, dlx, ready, deadLetter, consumers, sent, taken, dropped>>

\* A worker starts to consume; without the queue it fails.
Subscribe(p) ==
    /\ p \in Subscribers
    /\ pc[p] = "ready"
    /\ IF exists
       THEN consumers' = consumers \cup {p} /\ MoveTo(p, "consuming")
       ELSE UNCHANGED consumers /\ MoveTo(p, "failed")
    /\ UNCHANGED <<business, deadLetter, sent, taken, dropped>>

Take(p) ==
    /\ p \in consumers
    /\ ready > 0
    /\ ready' = ready - 1
    /\ taken' = taken + 1
    /\ UNCHANGED <<exists, dlx, bound, deadLetter, consumers, pc, sent, dropped>>

\* An API process publishes; without a binding the message is dropped.
Send ==
    /\ sent < MaxPublish
    /\ sent' = sent + 1
    /\ IF bound
       THEN ready' = ready + 1 /\ UNCHANGED dropped
       ELSE dropped' = dropped + 1 /\ UNCHANGED ready
    /\ UNCHANGED <<exists, dlx, bound, deadLetter, consumers, pc, taken>>

Start(p) ==
    \/ DeclareDeadLetter(p) \/ Declare(p) \/ Delete(p) \/ Redeclare(p) \/ Bind(p)
    \/ Subscribe(p) \/ Take(p)

TopologyNext == Send \/ \E p \in Procs : Start(p)

TopologySpec == TopologyInit /\ [][TopologyNext]_topologyVars

\* A starting process goes on until it is ready, consumes or has failed.
TopologyFairSpec == TopologySpec /\ \A p \in Procs : WF_topologyVars(Start(p))

--------------------------------------------------------------------------------
(* Properties *)

TopologyTypeOK ==
    /\ {exists, dlx, bound, deadLetter} \subseteq BOOLEAN
    /\ {ready, sent, taken, dropped} \subseteq Nat
    /\ consumers \subseteq Subscribers
    /\ pc \in [Procs -> {"deadLetter", "declare", "delete", "redeclare", "bind",
                         "ready", "consuming", "failed"}]

Ended ==
    \A p \in Procs :
        \/ pc[p] \in {"consuming", "failed"}
        \/ pc[p] = "ready" /\ p \notin Subscribers

(* rabbitmq.go:21-51: a started process can rely on its topology. However    *)
(* the starts cross, with one deleting what another has declared, when all   *)
(* have ended the queue exists and is bound, so the exchange drops nothing.  *)
TopologyReady == Ended => exists /\ bound

(* topology.go:70: the migration deletes no message that reached the queue.  *)
NothingDiscarded == sent = ready + taken + dropped

(* topology.go:71: nor does it take the queue away from a consumer.          *)
ConsumersKeepQueue == consumers # {} => exists

(* Every start ends, and a worker that consumes empties the queue.           *)
StartsEnd == <>[](Ended /\ (consumers # {} => ready = 0))
================================================================================
