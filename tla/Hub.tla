---------------------------------- MODULE Hub ----------------------------------
(***************************************************************************)
(* The registry of the SSE connections one API process holds. A connection *)
(* (client) is a buffered channel that only the hub closes. Handlers       *)
(* register and unregister, one goroutine dispatches the events that come  *)
(* from Redis, another one closes everything when the process stops; they  *)
(* meet at two locks, the hub's and the client's.                          *)
(*                                                                         *)
(* An action is what one of them does under one hold of a lock. register   *)
(* closes the clients it throws out while it still holds the hub's lock;   *)
(* what others do to such a client meanwhile (a send, a receive) might as  *)
(* well have come before, so this is one step. The order in which a call   *)
(* closes several clients, or a dispatch serves them, is left open, as Go  *)
(* leaves the order of a map.                                              *)
(*                                                                         *)
(* Source: internal/infra/realtime/hub.go.                                 *)
(***************************************************************************)
EXTENDS Integers, FiniteSets, Sequences

CONSTANTS
    Users,
    Callers,          \* goroutines that call the hub
    Dispatcher,       \* the one that runs the Redis subscription
    Events,           \* what may be sent to a client
    None,
    MaxConnections,   \* sseMaxConnectionsPerUser
    BufferSize,       \* sseClientBuffer
    MaxClients        \* bound: connections of the whole run

VARIABLES
    members,          \* members[u]: the registered clients of a user
    nextID,           \* clients are numbered in the order they register
    owner,            \* owner[c]: whose client it is
    buffer,           \* buffer[c]: events sent and not yet received
    closed,           \* clients whose channel has been closed
    closing,          \* per caller: clients it is about to close,
    left,             \*   and those it has yet to count off the gauge
    joined,           \* callers that have yet to count on the client they made
    targets, event,   \* the dispatch under way: clients to go, and the event
    gauge             \* the metric of open connections

hubVars == <<members, nextID, owner, buffer, closed, closing, left, joined,
             targets, event, gauge>>

Clients == 1..MaxClients

ASSUME DispatcherCalls == Dispatcher \in Callers
ASSUME SizesPositive == {MaxConnections, BufferSize} \subseteq Nat \ {0}
ASSUME MaxClientsNat == MaxClients \in Nat
ASSUME NoneIsNothing == None \notin Users \cup Events

HubInit ==
    /\ members = [u \in Users |-> {}]
    /\ nextID = 0
    /\ owner = [c \in Clients |-> None]
    /\ buffer = [c \in Clients |-> <<>>]
    /\ closed = {}
    /\ closing = [p \in Callers |-> {}]
    /\ left = [p \in Callers |-> {}]
    /\ joined = {}
    /\ targets = {}
    /\ event = None
    /\ gauge = 0

\* The caller is not within a call of the hub.
Free(p) == closing[p] = {} /\ left[p] = {} /\ p \notin joined

\* Clients of the set that came after `c`.
Later(S, c) == {d \in S : d > c}

\* The oldest clients, which make room for a new one.
Kicked(u) ==
    {c \in members[u] : Cardinality(Later(members[u], c)) >= MaxConnections - 1}

ShutNone(u) == {}

\* victim.close().
Shut(u) == Kicked(u)

Register(p, u) ==
    /\ Free(p)
    /\ nextID < MaxClients
    /\ nextID' = nextID + 1
    /\ members' = [members EXCEPT ![u] = (@ \ Kicked(u)) \cup {nextID + 1}]
    /\ owner' = [owner EXCEPT ![nextID + 1] = u]
    /\ closed' = closed \cup Shut(u)
    /\ left' = [left EXCEPT ![p] = Kicked(u)]
    /\ joined' = joined \cup {p}
    /\ UNCHANGED <<buffer, closing, targets, event, gauge>>

\* What an unregister that takes `c` out of the registry owes the gauge.
Removed(c) == {c} \cap members[owner[c]]

Unregister(p, c) ==
    /\ Free(p)
    /\ members' = [members EXCEPT ![owner[c]] = @ \ {c}]
    /\ closing' = [closing EXCEPT ![p] = {c}]
    /\ left' = [left EXCEPT ![p] = Removed(c)]
    /\ UNCHANGED <<nextID, owner, buffer, closed, joined, gauge>>

Registered == UNION {members[u] : u \in Users}

Close(p) ==
    /\ Free(p)
    /\ closing' = [closing EXCEPT ![p] = Registered]
    /\ left' = [left EXCEPT ![p] = Registered]
    /\ members' = [u \in Users |-> {}]
    /\ UNCHANGED <<nextID, owner, buffer, closed, joined, targets, event, gauge>>

\* streamClient.close, after the hub's lock has been released.
CloseOne(p) ==
    /\ \E c \in closing[p] :
        /\ closed' = closed \cup {c}
        /\ closing' = [closing EXCEPT ![p] = @ \ {c}]
    /\ UNCHANGED <<members, nextID, owner, buffer, left, joined, targets, event, gauge>>

\* ObserveSSEConnection: the clients that have gone, then the one that has come.
ObserveLeft(p) ==
    /\ closing[p] = {}
    /\ left[p] # {}
    /\ gauge' = gauge - Cardinality(left[p])
    /\ left' = [left EXCEPT ![p] = {}]
    /\ UNCHANGED <<members, nextID, owner, buffer, closed, closing, joined, targets, event>>

ObserveJoined(p) ==
    /\ left[p] = {}
    /\ p \in joined
    /\ gauge' = gauge + 1
    /\ joined' = joined \ {p}
    /\ UNCHANGED <<members, nextID, owner, buffer, closed, closing, left, targets, event>>

\* OnEvent, up to the end of the read lock: whom the event will go to.
OnEvent(u, e) ==
    /\ Free(Dispatcher)
    /\ targets = {}
    /\ targets' = members[u]
    /\ event' = IF members[u] = {} THEN None ELSE e
    /\ UNCHANGED <<members, nextID, owner, buffer, closed, closing, left, joined, gauge>>

OpenAlways(c) == TRUE

\* streamClient.trySend.
Open(c) == c \notin closed

HasRoom(c) == Len(buffer[c]) < BufferSize

Sent(c) ==
    /\ Open(c) /\ HasRoom(c)
    /\ buffer' = [buffer EXCEPT ![c] = Append(@, event)]
    /\ UNCHANGED <<members, nextID, owner, closed, closing, left, joined, gauge>>

Skipped(c) ==
    /\ ~ Open(c)
    /\ UNCHANGED <<members, nextID, owner, buffer, closed, closing, left, joined, gauge>>

DroppedSilently(c) ==
    /\ Open(c) /\ ~ HasRoom(c)
    /\ UNCHANGED <<members, nextID, owner, buffer, closed, closing, left, joined, gauge>>

Dropped(c) ==
    /\ Open(c) /\ ~ HasRoom(c)
    /\ Unregister(Dispatcher, c)

TrySend(c) ==
    /\ Free(Dispatcher)
    /\ c \in targets
    /\ targets' = targets \ {c}
    /\ event' = IF targets = {c} THEN None ELSE event
    /\ Sent(c) \/ Skipped(c) \/ Dropped(c)

\* The holder of a subscription takes the next event from its channel.
Receive(c) ==
    /\ buffer[c] # <<>>
    /\ buffer' = [buffer EXCEPT ![c] = Tail(@)]
    /\ UNCHANGED <<members, nextID, owner, closed, closing, left, joined, targets, event, gauge>>

\* What a caller does by itself once it has begun a call.
Within(p) == CloseOne(p) \/ ObserveLeft(p) \/ ObserveJoined(p)

HubNext ==
    \/ \E p \in Callers, u \in Users : Register(p, u)
    \/ \E p \in Callers, c \in 1..nextID : Unregister(p, c) /\ UNCHANGED <<targets, event>>
    \/ \E p \in Callers : Close(p) \/ Within(p)
    \/ \E u \in Users, e \in Events : OnEvent(u, e)
    \/ \E c \in targets : TrySend(c)
    \/ \E c \in 1..nextID : Receive(c)

HubSpec == HubInit /\ [][HubNext]_hubVars

--------------------------------------------------------------------------------

\* The type invariant of the hub. No user ever has more clients than allowed.
HubTypeOK ==
    /\ nextID \in 0..MaxClients
    /\ members \in [Users -> SUBSET (1..nextID)]
    /\ \A u \in Users : Cardinality(members[u]) <= MaxConnections
    /\ owner \in [Clients -> Users \cup {None}]
    /\ \A c \in 1..nextID : owner[c] \in Users
    /\ buffer \in [Clients -> Seq(Events)]
    /\ \A c \in Clients : Len(buffer[c]) <= BufferSize
    /\ closed \subseteq 1..nextID
    /\ closing \in [Callers -> SUBSET (1..nextID)]
    /\ left \in [Callers -> SUBSET (1..nextID)]
    /\ joined \subseteq Callers
    /\ targets \subseteq 1..nextID
    /\ event \in Events \cup {None}
    /\ event = None <=> targets = {}
    /\ gauge \in Int

Doomed(c) == c \in closed \/ \E p \in Callers : c \in closing[p]

\* A client is in the registry, or its channel is closed, or somebody is about to
\* close it, and never two of these: no handler is left waiting on a channel
\* nobody closes, and no event is offered in the registry to a closed one. Kicks,
\* dropped slow clients, handlers that leave and Close compete for the same
\* client between their two locks (hub.go:86, 108, 132, 170).
ClientsAccountedFor ==
    \A c \in 1..nextID : Doomed(c) <=> c \notin members[owner[c]]

\* Who has yet to count which client off the gauge.
Leaving == {t \in Callers \X (1..nextID) : t[2] \in left[t[1]]}

\* The gauge is the number of registered connections, up to what the goroutines
\* that have already changed the registry are still going to report: a kicked
\* client is counted off by the one who kicks, one that Close has taken by Close,
\* and never again by the handler that leaves (hub.go:100, 146).
GaugeAgrees ==
    gauge = Cardinality(Registered) + Cardinality(Leaving) - Cardinality(joined)

\* Both together: whatever kicks, dropped slow clients, leaving handlers and Close
\* do to the same client between their two locks, it is closed exactly when it is
\* out of the registry, and counted off exactly once (hub.go:86, 100, 132, 146).
StreamsAccountedFor == ClientsAccountedFor /\ GaugeAgrees

(* The strengthening under which StreamsAccountedFor is inductive: clients    *)
(* are registered for their owner only, and few calls are under way.         *)
OwnersMatch == \A u \in Users : \A c \in members[u] : owner[c] = u

CallsFinite == IsFiniteSet(Leaving) /\ IsFiniteSet(joined)

HubIInv == HubTypeOK /\ OwnersMatch /\ CallsFinite /\ StreamsAccountedFor

\* Nothing is ever sent on a closed channel, which would end the process with a
\* panic: a dispatch works on a snapshot of the registry and may meet clients
\* closed since (hub.go:44, 161). A closed channel only ever loses events.
NothingSentOnClosed ==
    [][\A c \in closed : Len(buffer'[c]) <= Len(buffer[c])]_hubVars
================================================================================
