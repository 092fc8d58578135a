-------------------------------- MODULE Realtime --------------------------------
(***************************************************************************)
(* How a user is told of messages while connected: one API process with    *)
(* its hub, its subscription of all channels of Redis, and the handlers of *)
(* the streams; messages and notifications come from any process. A stream *)
(* is opened with a ticket, registers with the hub, then reads the unread  *)
(* count for its first frame, then passes on what the hub sends it.        *)
(*                                                                         *)
(* Redis keeps nothing for a process that is not subscribed. go-redis      *)
(* subscribes again by itself after a lost connection, and `ready` does    *)
(* not notice; the loop of Run only turns when the channel is closed.      *)
(*                                                                         *)
(* Source: internal/interfaces/http/message/stream.go,                     *)
(* internal/infra/realtime/message_stream.go, internal/bootstrap/api.go.   *)
(***************************************************************************)
EXTENDS Hub, Messages

CONSTANTS
    Handlers,       \* requests for a stream
    Closer,         \* the goroutine that waits for the end of the process
    MaxCalls,       \* bound: tickets and changes of messages in the whole run
    MaxFaults,      \* bound: faults of the whole run
    Faults          \* the kinds of faults that may happen

VARIABLES
    subscribed,     \* Redis sends this process what is published
    ready,          \* MessageStream.ready
    pubsub,         \* sent by Redis and not yet taken: a FIFO queue of events
    tickets,        \* in Redis: records with id and user
    issued,         \* tickets so far
    pc, client,     \* per handler: next step and client (0: none yet)
    visitor, hello, \*   its user, and the count for the first frame
    stopping,       \* the context of the process has been cancelled
    faults,         \* faults so far
    fresh,          \* history: clients told the unread count their user has now
    awaited         \* history, per client: messages made since it registered
                    \*   and not yet written to it

redis    == <<subscribed, ready, pubsub>>
ticket   == <<tickets, issued>>
handler  == <<pc, client, visitor, hello>>
process  == <<stopping, faults>>
history  == <<fresh, awaited>>
vars == <<hubVars, messageVars, redis, ticket, handler, process, history>>

ASSUME UsersHaveStreams == Addressees \subseteq Users
ASSUME FramesAreEvents == Frames \subseteq Events
ASSUME BoundsNat == {MaxCalls, MaxFaults} \subseteq Nat
ASSUME HandlersCall == Callers = Handlers \cup {Dispatcher, Closer}
ASSUME RolesDiffer == Dispatcher # Closer /\ {Dispatcher, Closer} \cap Handlers = {}

Init ==
    /\ HubInit
    /\ MessagesInit
    /\ subscribed = FALSE
    /\ ready = FALSE
    /\ pubsub = <<>>
    /\ tickets = {}
    /\ issued = 0
    /\ pc = [h \in Handlers |-> "idle"]
    /\ client = [h \in Handlers |-> 0]
    /\ visitor = [h \in Handlers |-> None]
    /\ hello = [h \in Handlers |-> Unknown]
    /\ stopping = FALSE
    /\ faults = 0
    /\ fresh = {}
    /\ awaited = [c \in Clients |-> {}]

MoreCalls == issued + changes < MaxCalls

Fault(kind) ==
    /\ kind \in Faults
    /\ faults < MaxFaults
    /\ faults' = faults + 1

Goto(h, label) == pc' = [pc EXCEPT ![h] = label]

ClientsOf(u) == {c \in 1..nextID : owner[c] = u}

--------------------------------------------------------------------------------
(* Tickets and the life of a stream.                                         *)

\* IssueTicket: SET NX with a fresh random name. A process that stops accepts no
\* new requests.
IssueTicket(u) ==
    /\ ready
    /\ ~ stopping
    /\ MoreCalls
    /\ issued' = issued + 1
    /\ tickets' = tickets \cup {[id |-> issued + 1, user |-> u]}
    /\ UNCHANGED <<redis, handler, process, history, hubVars, messageVars>>

ExpireTicket(t) ==
    /\ tickets' = tickets \ {t}
    /\ UNCHANGED <<redis, issued, handler, process, history, hubVars, messageVars>>

\* GETDEL takes the ticket out of Redis while it reads it.
Kept(t) == tickets \ {t}

\* Stream, to the consumed ticket. Without one the request ends with an error.
ConsumeTicket(h, t) ==
    /\ pc[h] = "idle"
    /\ ready
    /\ ~ stopping
    /\ tickets' = Kept(t)
    /\ visitor' = [visitor EXCEPT ![h] = t.user]
    /\ Goto(h, "admitted")
    /\ UNCHANGED <<redis, issued, client, hello, process, history, hubVars,
                   messageVars>>

Subscribe(h) ==
    /\ pc[h] = "admitted"
    /\ Register(h, visitor[h])
    /\ client' = [client EXCEPT ![h] = nextID + 1]
    /\ Goto(h, "registered")
    /\ UNCHANGED <<redis, ticket, visitor, hello, process, history, messageVars>>

\* readyPayload: a count that cannot be read is sent as Unknown.
ReadUnread(h) ==
    /\ pc[h] = "registered"
    /\ Free(h)
    /\ hello' = [hello EXCEPT ![h] = CountUnread(visitor[h])]
    /\ Goto(h, "greeting")
    /\ UNCHANGED <<redis, ticket, client, visitor, process, history, hubVars,
                   messageVars>>

ReadUnreadFails(h) ==
    /\ pc[h] = "registered"
    /\ Free(h)
    /\ Fault("count")
    /\ Goto(h, "greeting")
    /\ UNCHANGED <<redis, ticket, client, visitor, hello, stopping, history,
                   hubVars, messageVars>>

\* A frame with the count `n` has been written to the client of `h`.
Told(h, n) ==
    IF n = CountUnread(visitor[h]) THEN fresh \cup {client[h]} ELSE fresh

WriteReady(h) ==
    /\ pc[h] = "greeting"
    /\ fresh' = Told(h, hello[h])
    /\ Goto(h, "live")
    /\ hello' = [hello EXCEPT ![h] = Unknown]
    /\ UNCHANGED <<redis, ticket, client, visitor, process, awaited, hubVars,
                   messageVars>>

\* An event from the channel, written to the response.
WriteEvent(h) ==
    /\ pc[h] = "live"
    /\ Receive(client[h])
    /\ LET e == Head(buffer[client[h]])
       IN  /\ fresh' = Told(h, e.count)
           /\ awaited' = [awaited EXCEPT ![client[h]] = @ \ {e.id}]
    /\ UNCHANGED <<redis, ticket, handler, process, messageVars>>

DrainedNever(h) == FALSE

\* The loop ends: the client has gone (context, failed write of an event or of a
\* heartbeat), or the channel has been closed and has no more events.
Drained(h) == pc[h] = "live" /\ client[h] \in closed /\ buffer[client[h]] = <<>>

Leave(h) ==
    /\ Unregister(h, client[h])
    /\ UNCHANGED <<targets, event>>
    /\ Goto(h, "leaving")
    /\ UNCHANGED <<redis, ticket, client, visitor, hello, process, history,
                   messageVars>>

Disconnect(h) == pc[h] \in {"greeting", "live"} /\ Leave(h)

ChannelClosed(h) == Drained(h) /\ Leave(h)

Ended(h) == pc[h] = "leaving" /\ Free(h)

--------------------------------------------------------------------------------
(* Messages and notifications. What a user has been told is out of date when *)
(* the number of unread messages changes.                                    *)

Outdate(u) == fresh' = fresh \ ClientsOf(u)

Create(s) ==
    /\ MoreCalls
    /\ CreateFromEvent(s)
    /\ IF Inserted(s)
       THEN /\ Outdate(s.user)
            /\ awaited' = [c \in Clients |-> awaited[c] \cup
                              (IF c \in ClientsOf(s.user) THEN {changes} ELSE {})]
       ELSE UNCHANGED history
    /\ UNCHANGED <<redis, ticket, handler, process, hubVars>>

Read(u, ids) ==
    /\ MoreCalls
    /\ MarkRead(u, ids)
    /\ Outdate(u)
    /\ UNCHANGED <<redis, ticket, handler, process, awaited, hubVars>>

Count(n) ==
    /\ CountForNotice(n, CurrentCount(n))
    /\ UNCHANGED <<redis, ticket, handler, process, history, hubVars>>

CountFails(n) ==
    /\ CountForNotice(n, Unknown)
    /\ Fault("count")
    /\ UNCHANGED <<redis, ticket, handler, stopping, history, hubVars>>

\* PUBLISH: Redis sends the event to the processes that are subscribed.
Publish(n) ==
    /\ NoticeEnds(n)
    /\ pubsub' = IF subscribed THEN Append(pubsub, n) ELSE pubsub
    /\ UNCHANGED <<subscribed, ready, ticket, handler, process, history, hubVars>>

\* The error of Notify, or its timeout, is ignored.
PublishFails(n) ==
    /\ NoticeEnds(n)
    /\ Fault("publish")
    /\ UNCHANGED <<redis, ticket, handler, stopping, history, hubVars>>

--------------------------------------------------------------------------------
(* The subscription, one goroutine, and the end of the process.              *)

\* PSubscribe, the confirmation Receive waits for, and ready.
RunOnce ==
    /\ ~ ready
    /\ ~ stopping
    /\ subscribed' = TRUE
    /\ ready' = TRUE
    /\ UNCHANGED <<pubsub, ticket, handler, process, history, hubVars, messageVars>>

\* go-redis has subscribed again after a lost connection.
Reconnect ==
    /\ ready
    /\ ~ subscribed
    /\ subscribed' = TRUE
    /\ UNCHANGED <<ready, pubsub, ticket, handler, process, history, hubVars,
                   messageVars>>

Dispatch ==
    /\ ready
    /\ pubsub # <<>>
    /\ OnEvent(Head(pubsub).user, Head(pubsub))
    /\ pubsub' = Tail(pubsub)
    /\ UNCHANGED <<subscribed, ready, ticket, handler, process, history, messageVars>>

Send(c) == TrySend(c) /\ UNCHANGED <<redis, ticket, handler, process, history, messageVars>>

\* The connection breaks; go-redis will subscribe again.
LoseConnection ==
    /\ Fault("connection")
    /\ subscribed
    /\ subscribed' = FALSE
    /\ pubsub' = <<>>
    /\ UNCHANGED <<ready, ticket, handler, stopping, history, hubVars, messageVars>>

\* runOnce returns between two events: the context is done, or the channel closed.
RunOnceEnds ==
    /\ targets = {} /\ Free(Dispatcher)
    /\ ready
    /\ \/ stopping /\ UNCHANGED faults
       \/ Fault("connection")
    /\ ready' = FALSE
    /\ subscribed' = FALSE
    /\ pubsub' = <<>>
    /\ UNCHANGED <<ticket, handler, stopping, history, hubVars, messageVars>>

Stop ==
    /\ ~ stopping
    /\ Fault("stop")
    /\ stopping' = TRUE
    /\ Close(Closer)
    /\ UNCHANGED <<redis, ticket, handler, history, messageVars>>

Proceed(p) == Within(p) /\ UNCHANGED <<redis, ticket, handler, process, history, messageVars>>

--------------------------------------------------------------------------------

Stream(h) ==
    \/ Subscribe(h) \/ ReadUnread(h) \/ WriteReady(h) \/ WriteEvent(h)
    \/ ChannelClosed(h) \/ Proceed(h)

Ids(u) == {{}} \cup {{m.id} : m \in UnreadOf(u)}

Next ==
    \/ \E u \in Users : IssueTicket(u) \/ \E ids \in Ids(u) : Read(u, ids)
    \/ \E t \in tickets : ExpireTicket(t) \/ \E h \in Handlers : ConsumeTicket(h, t)
    \/ \E h \in Handlers : Stream(h) \/ ReadUnreadFails(h) \/ Disconnect(h)
    \/ \E s \in Sources : Create(s)
    \/ \E n \in notices : Count(n) \/ CountFails(n)
    \/ \E n \in counted : Publish(n) \/ PublishFails(n)
    \/ RunOnce \/ Reconnect \/ Dispatch \/ LoseConnection \/ RunOnceEnds \/ Stop
    \/ \E c \in targets : Send(c)
    \/ \E p \in {Dispatcher, Closer} : Proceed(p)

\* A goroutine of the hub or of a stream that can run does run: a write to a
\* connection returns, at the latest when TCP gives the peer up.
Fairness ==
    /\ \A h \in Handlers : WF_vars(Stream(h))
    /\ \A p \in {Dispatcher, Closer} : WF_vars(Proceed(p))

Spec == Init /\ [][Next]_vars /\ Fairness

--------------------------------------------------------------------------------

PCs == {"idle", "admitted", "registered", "greeting", "live", "leaving"}

StreamTypeOK ==
    /\ subscribed \in BOOLEAN /\ ready \in BOOLEAN /\ stopping \in BOOLEAN
    /\ pubsub \in Seq(Frames)
    /\ tickets \subseteq [id : 1..issued, user : Users]
    /\ issued \in Nat
    /\ pc \in [Handlers -> PCs]
    /\ client \in [Handlers -> 0..nextID]
    /\ visitor \in [Handlers -> Users \cup {None}]
    /\ \A h \in Handlers :
        /\ pc[h] \in {"idle", "admitted"} <=> client[h] = 0
        /\ pc[h] # "idle" <=> visitor[h] \in Users
        /\ client[h] # 0 => owner[client[h]] = visitor[h]
    /\ hello \in [Handlers -> 0..MaxChanges \cup {Unknown}]
    /\ faults \in 0..MaxFaults
    /\ fresh \subseteq 1..nextID
    /\ awaited \in [Clients -> SUBSET (0..MaxChanges)]
    /\ \A c \in Clients : awaited[c] # {} => c <= nextID

\* The type invariant of the composition.
TypeOK == HubTypeOK /\ MessagesTypeOK /\ StreamTypeOK

\* Nothing is under way that could still reach a stream of `u`.
Settled(u) ==
    /\ {n \in notices \cup counted : n.user = u} = {}
    /\ pubsub = <<>>
    /\ targets = {}

\* Unless something has failed, whoever has a stream open is told of every message
\* made since it registered, and has been told the unread count that is true now:
\* the first frame reads the count after registering, and a notification reads it
\* after the change it reports, so no change falls between the two
\* (stream.go:64, 68; service.go:195).
ToldEverything ==
    \A h \in Handlers :
        (/\ pc[h] = "live"
         /\ ~ Doomed(client[h])
         /\ buffer[client[h]] = <<>>
         /\ Settled(visitor[h])
         /\ faults = 0)
        => /\ client[h] \in fresh
           /\ awaited[client[h]] = {}

(* The strengthening under which ToldEverything is inductive. Connected: as  *)
(* long as nothing fails, whoever has a stream open has a subscription.      *)
Connected ==
    faults = 0 => /\ ~ stopping
                  /\ ready => subscribed
                  /\ nextID > 0 => ready
                  /\ \A h \in Handlers : pc[h] # "idle" => ready

\* Notices of `u` whose goroutine has not read the count.
Uncounted(u) == {n \in notices : n.user = u}

In(e, queue) == \E i \in 1..Len(queue) : queue[i] = e

\* What may still be written to the client `c`, wherever it is.
OnItsWay(c, e) ==
    \/ e \in counted /\ e.user = owner[c]
    \/ In(e, pubsub) /\ e.user = owner[c]
    \/ c \in targets /\ e = event
    \/ In(e, buffer[c])

(* A message a client waits for is on its way to it.                         *)
AwaitedComes ==
    faults = 0 =>
    \A c \in 1..nextID : ~ Doomed(c) =>
        \A k \in awaited[c] :
            \/ \E n \in Uncounted(owner[c]) : n.id = k
            \/ \E e \in Events : OnItsWay(c, e) /\ e.id = k

(* The count of now has been told, or is on its way.                         *)
CountComes ==
    faults = 0 =>
    \A h \in Handlers : pc[h] \in {"greeting", "live"} /\ ~ Doomed(client[h]) =>
        \/ client[h] \in fresh
        \/ pc[h] = "greeting" /\ hello[h] = CountUnread(visitor[h])
        \/ Uncounted(visitor[h]) # {}
        \/ \E e \in Events : OnItsWay(client[h], e) /\ e.count = CountUnread(visitor[h])

IInv == TypeOK /\ HubIInv /\ Connected /\ AwaitedComes /\ CountComes

\* A stream whose channel the hub closes ends: its handler reads what is left and
\* returns, whoever closed it (stream.go:81, hub.go:35).
ClosedStreamsEnd ==
    <>[](\A h \in Handlers : client[h] \in closed => Ended(h))
================================================================================
