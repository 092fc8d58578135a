-------------------------------- MODULE MCBroker --------------------------------
(* Model-checking instance of the broker's clients. One API process and two    *)
(* workers start at the same time, over a queue of an older version. Where both*)
(* workers have come to consume the queue with its dead-letter exchange, and   *)
(* what was published meanwhile is through, events are delivered: one every    *)
(* handler can process, one that a handler never can, one that does not decode.*)
EXTENDS RabbitDelivery, QueueTopology

CONSTANTS api, w1, w2, good, bad, broken, action_q

PoisonEverywhere == [q \in Queues |-> {bad}]

\* No step of the topology is left to do; of the states it may end in, the regular one.
Serving ==
    /\ Ended /\ consumers = Workers
    /\ exists /\ bound /\ dlx
    /\ sent = MaxPublish /\ ready = 0 /\ dropped = 0

BrokerVars == <<vars, topologyVars>>

BrokerInit == Init /\ TopologyInit

BrokerNext ==
    \/ TopologyNext /\ UNCHANGED vars
    \/ Serving /\ Next /\ UNCHANGED topologyVars

BrokerSpec ==
    /\ BrokerInit /\ [][BrokerNext]_BrokerVars
    /\ \A p \in Procs : WF_topologyVars(Start(p))
    /\ \A w \in Workers, q \in Queues : WF_vars(Consume(w, q))
================================================================================
