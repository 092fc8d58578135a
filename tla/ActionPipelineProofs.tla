-------------------------- MODULE ActionPipelineProofs --------------------------
(***************************************************************************)
(* Proofs about ActionPipeline, for any number of users, action types,     *)
(* requests and messages:                                                  *)
(*   TypeCorrect       Spec => []TypeOK                                    *)
(*   CountersConverge  with one consumer, Spec => []DrainedCountersMatch   *)
(*   AnswersAreCarried with one consumer, clients that wait and no detours *)
(*                     of events, Spec => []AnswerIsCarried                *)
(***************************************************************************)
EXTENDS ActionPipeline, SequenceTheorems, FiniteSetTheorems, TLAPS

(* The rules of a row yield rows and small deltas.                           *)
LEMMA RowTypes ==
    ASSUME NEW r \in Record, NEW active \in BOOLEAN, NEW key \in Key
    PROVE  /\ RowAfter(r, active, key) \in Record
           /\ RowDelta(r, active, key) \in {-1, 0, 1}
           /\ StatusFromActive(active) \in Status
  BY DEF RowAfter, RowDelta, ResolveActionDelta, IsReplay, StatusFromActive,
         Record, Status, Unset, Active, Canceled

LEMMA AbsentIsRecord == Absent \in Record
  BY DEF Absent, Record, Status, Key

(* A queue that a message was added to is not empty.                         *)
LEMMA NotEmptied ==
    ASSUME NEW q \in Seq(Message), NEW m \in Message
    PROVE  Append(q, m) # <<>>
  BY AppendProperties, EmptySeq

(* The number of active rows is a natural number.                            *)
LEMMA DbCountsType == DbCounts \in Counts
  <1>1. \A t \in Types : Cardinality({u \in Users : On(row[t][u])}) \in Nat
    BY UsersFinite, FS_Subset, FS_CardinalityType
  <1>2. QED
    BY <1>1 DEF DbCounts, Counts

(* It depends on the rows only.                                              *)
LEMMA DbCountsKept == UNCHANGED row => DbCounts' = DbCounts
  BY DEF DbCounts, On

--------------------------------------------------------------------------------
(* Types *)

Typed == TypeOK /\ Engaged

LEMMA InitTypes == Init => Typed
  <1> SUFFICES ASSUME Init PROVE Typed
    OBVIOUS
  <1>1. Zeros \in Counts /\ Zeros \in [Types -> Int]
    BY DEF Zeros, Counts
  <1>2. <<>> \in Seq(Message)
    BY EmptySeq
  <1>3. TypeOK
    BY <1>1, <1>2, AbsentIsRecord DEF Init, TypeOK, Status
  <1>4. Engaged
    BY DEF Init, Engaged
  <1>5. QED
    BY <1>3, <1>4 DEF Typed

(* A fault only adds its kind to what has happened and counts itself.        *)
LEMMA FaultTypes ==
    ASSUME TypeOK, NEW kind \in Kinds, Fault(kind)
    PROVE  happened' \in SUBSET Kinds /\ faults' \in Nat /\ UNCHANGED calls
  BY DEF TypeOK, Fault

(* Answering a request keeps the types of what it touches.                   *)
LEMMA AnswerTypes ==
    ASSUME Typed, NEW h \in Handlers, NEW s \in Status \cup {Unknown}, Answer(h, s)
    PROVE  /\ pc' \in [Handlers -> {"idle", "state", "publish", "sync"}]
           /\ call' \in [Handlers -> Call \cup {None}]
           /\ stat' \in [Handlers -> Counts]
           /\ answer' \in [Types -> [Users -> Status \cup {Unknown}]]
           /\ \A g \in Handlers : pc'[g] # "idle" => call'[g] # None
  <1>1. Zeros \in Counts
    BY DEF Zeros, Counts
  <1>2. QED
    BY <1>1 DEF Typed, TypeOK, Engaged, Answer

LEMMA HandlerTypes ==
    ASSUME Typed, NEW h \in Handlers, HandlerNext(h)
    PROVE  Typed'
  <1> USE DEF db, redis, broker, work, bounds
  <1>1. CASE \E r \in Call : Begin(h, r)
    <2>1. PICK r \in Call : Begin(h, r)
      BY <1>1
    <2>2. TypeOK'
      BY <2>1, DbCountsType DEF Typed, TypeOK, Begin, Goto
    <2>3. Engaged'
      BY <2>1, NoneIsNew DEF Typed, TypeOK, Engaged, Begin, Goto
    <2>4. QED
      BY <2>2, <2>3 DEF Typed
  <1>2. CASE SetState(h)
    <2> DEFINE r == call[h]
               old == hash[r.type][r.user]
    <2>1. r \in Call /\ old \in Record
      BY <1>2 DEF Typed, TypeOK, Engaged, SetState, Call
    <2>2. RowAfter(old, r.active, r.key) \in Record /\ RowDelta(old, r.active, r.key) \in Int
      BY <2>1, RowTypes DEF Call
    <2>3. hash' \in [Types -> [Users -> Record]] /\ shard' \in [Types -> Int] /\ base' \in Counts \cup {None}
      <3> HIDE DEF old
      <3>1. /\ hash' = [hash EXCEPT ![r.type][r.user] = RowAfter(old, r.active, r.key)]
            /\ shard' = [shard EXCEPT ![r.type] = shard[r.type] + RowDelta(old, r.active, r.key)]
            /\ base' = IF base = None THEN stat[h] ELSE base
        BY <1>2 DEF SetState, old
      <3>2. QED
        BY <2>1, <2>2, <3>1 DEF Typed, TypeOK, Call
    <2>4. hash'[r.type][r.user].status \in Status
      BY <2>1, <2>3 DEF Call, Record
    <2>5. CASE RowDelta(old, r.active, r.key) = 0
      <3>1. Answer(h, hash'[r.type][r.user].status)
        BY <1>2, <2>5 DEF SetState
      <3>2. QED
        BY <1>2, <2>3, <2>4, <3>1, AnswerTypes DEF Typed, TypeOK, Engaged, SetState
    <2>6. CASE RowDelta(old, r.active, r.key) # 0
      BY <1>2, <2>3, <2>6 DEF Typed, TypeOK, Engaged, SetState, Goto
    <2>7. QED
      BY <2>5, <2>6
  <1>3. CASE Publish(h)
    <2>1. call[h] \in Call
      BY <1>3 DEF Typed, TypeOK, Engaged, Publish
    <2>2. queue' \in Seq(Message)
      <3>1. MessageOf(call[h]) \in Message
        BY <2>1, RetriesNat DEF Call, Message, MessageOf
      <3>2. QED
        BY <1>3, <3>1 DEF Typed, TypeOK, Publish
    <2>3. StatusFromActive(call[h].active) \in Status
      BY DEF StatusFromActive, Status
    <2>4. QED
      BY <1>3, <2>2, <2>3, AnswerTypes DEF Typed, TypeOK, Engaged, Publish
  <1>4. CASE SyncApply(h)
    <2> DEFINE r == call[h]
               old == row[r.type][r.user]
    <2>1. r \in Call /\ old \in Record
      BY <1>4 DEF Typed, TypeOK, Engaged, SyncApply, Call
    <2>2. row' \in [Types -> [Users -> Record]]
      <3>1. RowAfter(old, r.active, r.key) \in Record
        BY <2>1, RowTypes DEF Call
      <3>2. QED
        BY <1>4, <2>1, <3>1 DEF Typed, TypeOK, SyncApply, Call
    <2>3. row'[r.type][r.user].status \in Status
      BY <2>1, <2>2 DEF Call, Record
    <2>4. QED
      BY <1>4, <2>2, <2>3, AnswerTypes DEF Typed, TypeOK, Engaged, SyncApply
  <1>5. CASE Refuse(h)
    BY <1>5, AnswerTypes DEF Typed, TypeOK, Engaged, Refuse
  <1>6. CASE Interrupt(h)
    BY <1>6, AnswerTypes DEF Typed, TypeOK, Engaged, Interrupt, Fault, Kinds
  <1>7. CASE PublishFails(h)
    BY <1>7 DEF Typed, TypeOK, Engaged, PublishFails, Goto, Fault, Kinds
  <1>8. CASE SyncFails(h)
    <2>1. happened' \in SUBSET Kinds /\ faults' \in Nat /\ UNCHANGED calls
      BY <1>8, FaultTypes DEF SyncFails, Kinds, Typed, TypeOK
    <2>2. QED
      BY <1>8, <2>1, AnswerTypes DEF Typed, TypeOK, Engaged, SyncFails
  <1>9. QED
    BY <1>1, <1>2, <1>3, <1>4, <1>5, <1>6, <1>7, <1>8 DEF HandlerNext, Respond

(* Letting go of a message keeps the types of the worker's state.            *)
LEMMA DropTypes ==
    ASSUME Typed, NEW w \in Workers, Drop(w)
    PROVE  /\ wpc' \in [Workers -> {"idle", "apply", "failed", "read", "base", "shards", "ack"}]
           /\ msg' \in [Workers -> Message \cup {None}]
           /\ seen' \in [Workers -> Counts]
           /\ \A v \in Workers : wpc'[v] # "idle" <=> msg'[v] # None
  <1>1. Zeros \in Counts
    BY DEF Zeros, Counts
  <1>2. QED
    BY <1>1 DEF Typed, TypeOK, Engaged, Drop

LEMMA WorkerTypes ==
    ASSUME Typed, NEW w \in Workers, WorkerNext(w)
    PROVE  Typed'
  <1> USE DEF Typed, TypeOK, Engaged, db, redis, broker, api, work, bounds, WGoto
  <1>1. CASE Deliver(w)
    <2>1. Head(queue) \in Message /\ Tail(queue) \in Seq(Message)
      BY <1>1, HeadTailProperties DEF Deliver
    <2>2. QED
      BY <1>1, <2>1, NoneIsNew DEF Deliver
  <1>2. CASE Apply(w)
    <2> DEFINE m == msg[w]
               old == row[m.type][m.user]
    <2>1. m \in Message /\ old \in Record
      BY <1>2 DEF Apply, Message
    <2>2. RowAfter(old, m.active, m.key) \in Record
      BY <2>1, RowTypes DEF Message
    <2>3. row' \in [Types -> [Users -> Record]]
      BY <1>2, <2>1, <2>2 DEF Apply, Message
    <2>4. QED
      BY <1>2, <2>3 DEF Apply
  <1>3. CASE ReadStat(w)
    BY <1>3, DbCountsType DEF ReadStat
  <1>4. CASE ReadStatFails(w)
    BY <1>4 DEF ReadStatFails
  <1>5. CASE SetBase(w)
    BY <1>5 DEF SetBase
  <1>6. CASE DropShards(w)
    BY <1>6 DEF DropShards, Zeros
  <1>7. CASE Ack(w)
    <2>1. msg[w] \in Message
      BY <1>7 DEF Ack
    <2>2. acking' \in [Workers -> Seq(Message)]
      BY <1>7, <2>1 DEF Ack
    <2>3. QED
      BY <1>7, <2>2, DropTypes DEF Ack
  <1>8. CASE Republish(w)
    <2>1. msg[w] \in Message
      BY <1>8 DEF Republish
    <2> DEFINE again == [msg[w] EXCEPT !.retries = msg[w].retries + 1]
    <2>2. again \in Message
      <3>1. msg[w].retries + 1 \in 0..MaxRetries
        BY <1>8, <2>1, RetriesNat DEF Republish, Message
      <3>2. QED
        BY <2>1, <3>1 DEF Message
    <2>3. queue' \in Seq(Message)
      <3>1. queue' = Append(queue, again)
        BY <1>8 DEF Republish
      <3>2. QED
        BY <2>2, <3>1
    <2>4. QED
      BY <1>8, <2>3 DEF Republish
  <1>9. CASE DeadLetter(w)
    <2>1. dead' \in Seq(Message)
      BY <1>9 DEF DeadLetter
    <2>2. QED
      BY <1>9, <2>1, DropTypes DEF DeadLetter
  <1>10. CASE ApplyFails(w)
    <2>1. happened' \in SUBSET Kinds /\ faults' \in Nat /\ UNCHANGED calls
      BY <1>10, FaultTypes DEF ApplyFails, Kinds
    <2>2. QED
      BY <1>10, <2>1 DEF ApplyFails
  <1>11. CASE ReconcileFails(w)
    <2>1. happened' \in SUBSET Kinds /\ faults' \in Nat /\ UNCHANGED calls
      BY <1>11, FaultTypes DEF ReconcileFails, Kinds
    <2>2. QED
      BY <1>11, <2>1 DEF ReconcileFails
  <1>12. CASE AckArrives(w)
    <2>1. acking' \in [Workers -> Seq(Message)]
      BY <1>12, HeadTailProperties DEF AckArrives
    <2>2. QED
      BY <1>12, <2>1 DEF AckArrives
  <1>13. CASE Requeue(w)
    <2>1. queue' \in Seq(Message)
      <3>1. <<msg[w]>> \in Seq(Message)
        BY <1>13 DEF Requeue
      <3>2. QED
        BY <1>13, <3>1, ConcatProperties DEF Requeue
    <2>2. QED
      BY <1>13, <2>1, DropTypes DEF Requeue, Fault, Kinds
  <1>14. CASE Crash(w)
    <2>1. Holding(w) \in Seq(Message)
      BY DEF Holding
    <2>2. queue' \in Seq(Message)
      BY <1>14, <2>1, ConcatProperties DEF Crash
    <2>3. acking' \in [Workers -> Seq(Message)]
      BY <1>14, EmptySeq DEF Crash
    <2>4. QED
      BY <1>14, <2>2, <2>3, DropTypes DEF Crash, Fault, Kinds
  <1>15. QED
    BY <1>1, <1>2, <1>3, <1>4, <1>5, <1>6, <1>7, <1>8, <1>9, <1>10, <1>11,
       <1>12, <1>13, <1>14 DEF WorkerNext, Proceed

LEMMA EnvironmentTypes ==
    ASSUME Typed, Expire \/ Withdraw
    PROVE  Typed'
  <1> USE DEF Typed, TypeOK, Engaged, Fault, Kinds, db, redis, broker, api, work
  <1>1. ASSUME NEW t \in Types, NEW u \in Users, ExpireHash(t, u) PROVE Typed'
    BY <1>1, AbsentIsRecord DEF ExpireHash
  <1>2. CASE ExpireBase
    BY <1>2 DEF ExpireBase
  <1>3. CASE ExpireShards
    BY <1>3 DEF ExpireShards, Zeros
  <1>4. CASE Withdraw
    <2>1. published' \in BOOLEAN
      BY <1>4, Zenon DEF Withdraw
    <2>2. faults' \in Nat /\ happened' \in SUBSET Kinds /\ UNCHANGED calls
      BY <1>4 DEF Withdraw
    <2>3. UNCHANGED <<row, redis, broker, api, work>>
      BY <1>4, Zenon DEF Withdraw
    <2>4. QED
      BY <2>1, <2>2, <2>3
  <1>5. QED
    BY <1>1, <1>2, <1>3, <1>4 DEF Expire

LEMMA TypesKept == Typed /\ [Next]_vars => Typed'
  <1> SUFFICES ASSUME Typed, [Next]_vars PROVE Typed'
    OBVIOUS
  <1>1. CASE UNCHANGED vars
    BY <1>1 DEF vars, Typed, TypeOK, Engaged
  <1>2. QED
    BY <1>1, HandlerTypes, WorkerTypes, EnvironmentTypes DEF Next

(* Every reachable state is well typed: the counters stay natural numbers,   *)
(* and no message carries more than MaxRetries retries.                      *)
THEOREM TypeCorrect == Spec => []TypeOK
  <1>1. Typed => TypeOK
    BY DEF Typed
  <1>2. QED
    BY <1>1, InitTypes, TypesKept, PTL DEF Spec

--------------------------------------------------------------------------------
(* Convergence of the counters, for one consumer *)

Settles == OnPath /\ BaseOwed /\ StatOwed /\ ShardOwed

LEMMA InitSafe == Init => Safe
  BY DEF Init, Safe, OnPath, BaseOwed, StatOwed, ShardOwed

(* What has been missed stays missed, and a withdrawn video withdrawn.       *)
LEMMA DisturbedForGood ==
    ASSUME TypeOK, [Next]_vars, Undisturbed'
    PROVE  Undisturbed
  <1>1. happened \subseteq happened'
    <2>1. ASSUME NEW h \in Handlers, HandlerNext(h) PROVE happened \subseteq happened'
      BY <2>1 DEF HandlerNext, Respond, Begin, SetState, Publish, SyncApply, Refuse,
                  Interrupt, PublishFails, SyncFails, Fault, bounds
    <2>2. ASSUME NEW w \in Workers, WorkerNext(w) PROVE happened \subseteq happened'
      BY <2>2 DEF WorkerNext, Proceed, Deliver, Apply, ReadStat, ReadStatFails, SetBase,
                  DropShards, Ack, Republish, DeadLetter, ApplyFails, ReconcileFails,
                  AckArrives, Requeue, Crash, Fault, bounds
    <2>3. CASE Expire \/ Withdraw
      BY <2>3 DEF Expire, ExpireHash, ExpireBase, ExpireShards, Withdraw, Fault
    <2>4. QED
      BY <2>1, <2>2, <2>3 DEF Next, vars
  <1>2. published' => published
    BY DEF Next, HandlerNext, Respond, Begin, SetState, Publish, SyncApply, Refuse,
           Interrupt, PublishFails, SyncFails, WorkerNext, Proceed, Deliver, Apply,
           ReadStat, ReadStatFails, SetBase, DropShards, Ack, Republish, DeadLetter,
           ApplyFails, ReconcileFails, AckArrives, Requeue, Crash, Expire, ExpireHash,
           ExpireBase, ExpireShards, Withdraw, db, vars
  <1>3. dead' = <<>> => dead = <<>>
    <2>1. dead' = dead \/ \E w \in Workers : DeadLetter(w)
      BY DEF Next, HandlerNext, Respond, Begin, SetState, Publish, SyncApply, Refuse,
             Interrupt, PublishFails, SyncFails, WorkerNext, Proceed, Deliver, Apply,
             ReadStat, ReadStatFails, SetBase, DropShards, Ack, Republish,
             ApplyFails, ReconcileFails, AckArrives, Requeue, Crash, Expire, ExpireHash,
             ExpireBase, ExpireShards, Withdraw, broker, vars
    <2>2. ASSUME NEW w \in Workers, DeadLetter(w) PROVE dead' # <<>>
      <3>1. msg[w] \in Message \cup {None} /\ dead \in Seq(Message)
        BY DEF TypeOK
      <3>2. QED
        BY <2>2, <3>1 DEF DeadLetter
    <2>3. QED
      BY <2>1, <2>2
  <1>4. QED
    BY <1>1, <1>2, <1>3 DEF Undisturbed, NothingMissed

(* A step after which nothing is missed is none of these.                    *)
LEMMA NotMissed ==
    ASSUME TypeOK, Undisturbed'
    PROVE  /\ ~Fault("interrupt") /\ ~Fault("publish") /\ ~Fault("reconcile")
           /\ \A w \in Workers : ~DeadLetter(w)
  <1>1. ~Fault("interrupt") /\ ~Fault("publish") /\ ~Fault("reconcile")
    BY DEF Undisturbed, NothingMissed, Fault
  <1>2. ASSUME NEW w \in Workers, DeadLetter(w) PROVE FALSE
    <2>1. msg[w] \in Message \cup {None} /\ dead \in Seq(Message)
      BY DEF TypeOK
    <2>2. dead' # <<>>
      BY <1>2, <2>1 DEF DeadLetter
    <2>3. QED
      BY <2>2 DEF Undisturbed, NothingMissed
  <1>3. QED
    BY <1>1, <1>2

(* A request never leaves counters behind that no later event resets: the    *)
(* base it creates is fresh or Owed, and its increment ends in a message.    *)
LEMMA RequestKeepsSafe ==
    ASSUME IInv, Undisturbed, Undisturbed', NEW h \in Handlers, HandlerNext(h)
    PROVE  Settles'
  <1> USE DEF IInv, TypeOK, Typed
  <1>0. /\ OnPath /\ BaseOwed /\ StatOwed /\ ShardOwed
        /\ ~SyncApply(h) /\ ~SyncFails(h) /\ ~Interrupt(h) /\ ~PublishFails(h)
    BY NotMissed DEF Safe, OnPath, SyncApply, SyncFails, Interrupt, PublishFails
  <1>1. UNCHANGED <<wpc, seen>>
    BY <1>0 DEF HandlerNext, Respond, Begin, SetState, Publish, Refuse, work
  <1>2. UNCHANGED row
    BY <1>0 DEF HandlerNext, Respond, Begin, SetState, Publish, Refuse, db
  <1>3. DbCounts' = DbCounts
    BY <1>2, DbCountsKept
  <1>4. Owed => Owed'
    <2>1. queue # <<>> => queue' # <<>>
      BY <1>0 DEF HandlerNext, Respond, Begin, SetState, Publish, Refuse, broker
    <2>2. QED
      BY <1>1, <2>1 DEF Owed
  <1>5. OnPath'
    <2>1. \A g \in Handlers : pc'[g] # "sync"
      BY <1>0 DEF HandlerNext, Respond, Begin, SetState, Publish, Refuse, Answer, Goto, OnPath
    <2>2. QED
      BY <1>0, <1>1, <1>3, <2>1 DEF OnPath
  <1>6. SUFFICES BaseOwed' /\ StatOwed' /\ ShardOwed'
    BY <1>5 DEF Settles
  <1>7. CASE \E r \in Call : Begin(h, r)
    <2>1. PICK r \in Call : Begin(h, r)
      BY <1>7
    <2>2. UNCHANGED <<base, shard>> /\ pc[h] = "idle"
      BY <2>1 DEF Begin, redis
    <2>3. pc' = [pc EXCEPT ![h] = "state"] /\ stat' = [stat EXCEPT ![h] = DbCounts]
      BY <2>1 DEF Begin, Goto
    <2>4. StatOwed'
      BY <1>3, <1>0, <1>4, <2>2, <2>3 DEF StatOwed
    <2>5. BaseOwed' /\ ShardOwed'
      BY <1>1, <1>3, <1>0, <1>4, <2>2, <2>3 DEF BaseOwed, ShardOwed
    <2>6. QED
      BY <2>4, <2>5
  <1>8. CASE SetState(h)
    <2> DEFINE r == call[h]
               d == RowDelta(hash[r.type][r.user], r.active, r.key)
    <2>1. r \in Call /\ hash[r.type][r.user] \in Record
      BY <1>8 DEF SetState, Engaged, Call
    <2>2. d \in {-1, 0, 1}
      BY <2>1, RowTypes DEF Call
    <2> HIDE DEF d
    <2>3. /\ pc[h] = "state"
          /\ base' = IF base = None THEN stat[h] ELSE base
          /\ shard' = [shard EXCEPT ![r.type] = shard[r.type] + d]
          /\ d = 0 => pc' = [pc EXCEPT ![h] = "idle"]
          /\ d # 0 => pc' = [pc EXCEPT ![h] = "publish"]
      BY <1>8 DEF SetState, Answer, Goto, d
    <2>4. base' # None
      BY <2>3, NoneIsNew
    <2>5. BaseOwed'
      BY <1>3, <1>0, <1>4, <2>3 DEF BaseOwed, StatOwed
    <2>6. StatOwed'
      BY <2>4 DEF StatOwed
    <2>7. ShardOwed'
      <3>1. CASE d = 0
        <4>1. shard' = shard
          BY <2>1, <2>3, <3>1 DEF Call
        <4>2. \A g \in Handlers : pc[g] = "publish" => pc'[g] = "publish"
          BY <2>3, <3>1
        <4>3. QED
          BY <1>1, <1>0, <1>4, <4>1, <4>2 DEF ShardOwed
      <3>2. CASE d # 0
        <4>1. pc'[h] = "publish"
          BY <2>3, <3>2
        <4>2. QED
          BY <4>1 DEF ShardOwed
      <3>3. QED
        BY <3>1, <3>2
    <2>8. QED
      BY <2>5, <2>6, <2>7
  <1>9. CASE Publish(h)
    <2>1. queue' # <<>>
      <3>1. queue' = Append(queue, MessageOf(call[h]))
        BY <1>9 DEF Publish
      <3>2. MessageOf(call[h]) \in Message
        BY <1>9, RetriesNat DEF Publish, Engaged, Call, Message, MessageOf
      <3>3. QED
        BY <3>1, <3>2
    <2>2. QED
      BY <2>1 DEF Owed, BaseOwed, StatOwed, ShardOwed
  <1>10. CASE Refuse(h)
    <2>1. /\ UNCHANGED <<base, shard>>
          /\ pc[h] = "state"
          /\ pc' = [pc EXCEPT ![h] = "idle"]
          /\ stat' = [stat EXCEPT ![h] = Zeros]
      BY <1>10 DEF Refuse, Answer, redis
    <2>2. StatOwed'
      BY <1>3, <1>0, <1>4, <2>1 DEF StatOwed
    <2>3. \A g \in Handlers : pc[g] = "publish" => pc'[g] = "publish"
      BY <2>1
    <2>4. BaseOwed' /\ ShardOwed'
      BY <1>1, <1>3, <1>0, <1>4, <2>1, <2>3 DEF BaseOwed, ShardOwed
    <2>5. QED
      BY <2>2, <2>4
  <1>11. QED
    BY <1>0, <1>7, <1>8, <1>9, <1>10 DEF HandlerNext, Respond

LEMMA WorkerKeepsSafe ==
    ASSUME IInv, OneConsumer, Undisturbed, Undisturbed', NEW w \in Workers, WorkerNext(w)
    PROVE  Settles'
  <1> USE DEF IInv, TypeOK, WGoto, Drop
  <1>0. ~ReadStatFails(w) /\ ~ReconcileFails(w) /\ ~DeadLetter(w)
    BY NotMissed DEF Undisturbed, ReadStatFails, ReconcileFails
  <1>1. UNCHANGED <<pc, stat>>
    BY <1>0 DEF WorkerNext, Proceed, Deliver, Apply, ReadStat, SetBase, DropShards, Ack,
           Republish, ApplyFails, AckArrives, Requeue, Crash, api
  <1>2. OnPath'
    <2>1. wpc'[w] = "base" => seen'[w] = DbCounts'
      <3>1. CASE ReadStat(w)
        BY <3>1, DbCountsKept DEF ReadStat, db
      <3>2. CASE AckArrives(w)
        BY <3>2, DbCountsKept DEF AckArrives, db, work, OnPath, Safe
      <3>3. CASE ~ReadStat(w) /\ ~AckArrives(w)
        BY <1>0, <3>3 DEF WorkerNext, Proceed, Deliver, Apply, SetBase, DropShards, Ack,
                  Republish, ApplyFails, Requeue, Crash
      <3>4. QED
        BY <3>1, <3>2, <3>3
    <2>2. \A v \in Workers : v = w
      BY DEF OneConsumer
    <2>3. QED
      BY <1>1, <2>1, <2>2 DEF OnPath, Safe
  <1>3. BaseOwed /\ StatOwed /\ ShardOwed /\ OnPath
    BY DEF Safe
  <1> SUFFICES BaseOwed' /\ StatOwed' /\ ShardOwed'
    BY <1>2 DEF Settles
  <1>4. CASE Deliver(w) \/ Apply(w)
    <2>1. wpc'[w] \in {"apply", "read"} /\ UNCHANGED <<base, shard>>
      BY <1>4 DEF Deliver, Apply, redis
    <2>2. Owed'
      BY <2>1 DEF Owed
    <2>3. QED
      BY <2>2 DEF BaseOwed, StatOwed, ShardOwed
  <1>5. CASE ReadStat(w)
    <2>1. wpc'[w] = "base"
      BY <1>5 DEF ReadStat
    <2>2. Owed'
      BY <2>1 DEF Owed
    <2>3. QED
      BY <2>2 DEF BaseOwed, StatOwed, ShardOwed
  <1>6. CASE SetBase(w)
    <2>1. base' = DbCounts' /\ base' # None /\ wpc'[w] = "shards"
      BY <1>3, <1>6, DbCountsKept, NoneIsNew DEF SetBase, OnPath, db
    <2>2. QED
      BY <2>1 DEF BaseOwed, StatOwed, ShardOwed
  <1>7. CASE DropShards(w)
    <2>1. /\ UNCHANGED <<base, queue>>
          /\ shard' = Zeros
          /\ wpc[w] = "shards"
          /\ wpc' = [wpc EXCEPT ![w] = "ack"]
          /\ DbCounts' = DbCounts
      BY <1>7, DbCountsKept DEF DropShards, db, broker
    <2>2. Owed => Owed'
      BY <2>1 DEF Owed
    <2>3. QED
      BY <1>1, <1>3, <2>1, <2>2 DEF BaseOwed, StatOwed, ShardOwed
  <1>8. CASE Ack(w)
    <2>1. /\ UNCHANGED <<base, shard, queue>>
          /\ wpc[w] = "ack"
          /\ wpc' = [wpc EXCEPT ![w] = "idle"]
          /\ DbCounts' = DbCounts
      BY <1>8, DbCountsKept DEF Ack, db, redis
    <2>2. Owed => Owed'
      BY <2>1 DEF Owed
    <2>3. \A v \in Workers : wpc[v] = "shards" => wpc'[v] = "shards"
      BY <2>1
    <2>4. QED
      BY <1>1, <1>3, <2>1, <2>2, <2>3 DEF BaseOwed, StatOwed, ShardOwed
  <1>9. CASE AckArrives(w)
    <2>1. UNCHANGED <<base, shard, queue, wpc>> /\ DbCounts' = DbCounts
      BY <1>9, DbCountsKept DEF AckArrives, db, redis, work
    <2>2. QED
      BY <1>1, <1>3, <2>1 DEF Owed, BaseOwed, StatOwed, ShardOwed
  <1>10. CASE Crash(w)
    <2>1. UNCHANGED <<base, shard>> /\ DbCounts' = DbCounts
      BY <1>10, DbCountsKept DEF Crash, db, redis
    <2>2. CASE queue' # <<>>
      BY <2>2 DEF Owed, BaseOwed, StatOwed, ShardOwed
    <2>3. CASE queue' = <<>>
      <3>1. acking[w] \in Seq(Message) /\ Holding(w) \in Seq(Message)
        BY DEF Holding
      <3>2. acking[w] \o Holding(w) \in Seq(Message)
        BY <3>1, ConcatProperties
      <3>3. queue' = (acking[w] \o Holding(w)) \o queue
        BY <1>10 DEF Crash
      <3>4. acking[w] \o Holding(w) = <<>>
        <4> DEFINE back == acking[w] \o Holding(w)
        <4>1. back \in Seq(Message) /\ queue \in Seq(Message) /\ back \o queue = <<>>
          BY <2>3, <3>2, <3>3
        <4> HIDE DEF back
        <4>2. back = <<>>
          BY <4>1, ConcatEqualIffEmpty
        <4>3. QED
          BY <4>2 DEF back
      <3>5. acking[w] = <<>> /\ Holding(w) = <<>>
        BY <3>1, <3>4, ConcatEqualIffEmpty
      <3>6. QED
        BY <1>10, <3>5 DEF Crash, Holding, Engaged
    <2>4. QED
      BY <2>2, <2>3
  <1>11. CASE ApplyFails(w)
    <2>1. wpc'[w] = "failed"
      BY <1>11 DEF ApplyFails
    <2>2. Owed'
      BY <2>1 DEF Owed
    <2>3. QED
      BY <2>2 DEF BaseOwed, StatOwed, ShardOwed
  <1>12. CASE Republish(w) \/ Requeue(w)
    <2>1. queue' # <<>>
      <3>1. CASE Republish(w)
        <4> DEFINE again == [msg[w] EXCEPT !.retries = msg[w].retries + 1]
        <4>1. queue' = Append(queue, again)
          BY <3>1 DEF Republish
        <4>2. again \in Message
          <5>1. msg[w] \in Message /\ msg[w].retries + 1 \in 0..MaxRetries
            BY <3>1, RetriesNat DEF Republish, Engaged, Message
          <5>2. QED
            BY <5>1 DEF Message
        <4> HIDE DEF again
        <4>3. QED
          BY <4>1, <4>2, NotEmptied
      <3>2. CASE Requeue(w)
        <4>1. queue' = <<msg[w]>> \o queue /\ msg[w] \in Message
          BY <3>2 DEF Requeue, Engaged
        <4>2. <<msg[w]>> \in Seq(Message) /\ <<msg[w]>> # <<>>
          BY <4>1
        <4>3. QED
          BY <4>1, <4>2, ConcatEqualIffEmpty
      <3>3. QED
        BY <1>12, <3>1, <3>2
    <2>2. QED
      BY <2>1 DEF Owed, BaseOwed, StatOwed, ShardOwed
  <1>13. QED
    BY <1>0, <1>4, <1>5, <1>6, <1>7, <1>8, <1>9, <1>10, <1>11, <1>12 DEF WorkerNext, Proceed

LEMMA EnvironmentKeepsSafe ==
    ASSUME IInv, Undisturbed, Undisturbed', Expire \/ Withdraw
    PROVE  Settles'
  <1>1. OnPath /\ BaseOwed /\ StatOwed /\ ShardOwed
    BY DEF IInv, Safe
  <1>2. CASE Withdraw
    BY <1>2 DEF Withdraw, Undisturbed
  <1>3. CASE Expire
    <2>1. /\ Quiescent /\ UNCHANGED <<queue, wpc, pc, seen>> /\ DbCounts' = DbCounts
          /\ base' \in {base, None} /\ shard' \in {shard, Zeros}
      BY <1>3, DbCountsKept DEF Expire, ExpireHash, ExpireBase, ExpireShards,
                                db, broker, api, work
    <2>2. Owed' = Owed
      BY <2>1 DEF Owed
    <2>3. QED
      BY <1>1, <2>1, <2>2 DEF Settles, OnPath, Quiescent, BaseOwed, StatOwed, ShardOwed
  <1>4. QED
    BY <1>2, <1>3

LEMMA InvKept == ASSUME OneConsumer PROVE IInv /\ [Next]_vars => IInv'
  <1> SUFFICES ASSUME IInv, [Next]_vars PROVE IInv'
    OBVIOUS
  <1>1. TypeOK' /\ Engaged'
    BY TypesKept DEF IInv, Typed
  <1>2. ASSUME Undisturbed' PROVE Settles'
    <2>1. Undisturbed
      BY <1>2, DisturbedForGood DEF IInv
    <2>2. CASE UNCHANGED vars
      BY <2>1, <2>2, DbCountsKept DEF vars, IInv, Safe, Settles, Owed, OnPath, BaseOwed,
                                      StatOwed, ShardOwed
    <2>3. QED
      BY <1>2, <2>1, <2>2, RequestKeepsSafe, WorkerKeepsSafe, EnvironmentKeepsSafe DEF Next
  <1>3. QED
    BY <1>1, <1>2 DEF IInv, Safe, Settles

LEMMA InvImplies == IInv => DrainedCountersMatch
  <1> SUFFICES ASSUME IInv, Drained, published, NothingMissed, NEW t \in Types
               PROVE  Shown(t) = DbCounts[t]
    BY DEF DrainedCountersMatch, CountersMatch
  <1>1. ~Owed
    BY DEF Drained, Owed
  <1>2. shard = Zeros /\ base \in {None, DbCounts}
    BY <1>1 DEF IInv, Safe, Undisturbed, Drained, Quiescent, BaseOwed, ShardOwed
  <1>3. DbCounts[t] \in Nat
    BY DbCountsType DEF Counts
  <1>4. QED
    BY <1>2, <1>3 DEF Shown, Clamp, Zeros

(* With one consumer, Redis shows the database's counters whenever nothing   *)
(* is under way and neither an event nor a reset was given up: requests that *)
(* cross a reset, redeliveries, retries, crashed workers and expired keys    *)
(* leave no lasting difference (worker.go:79, feed_stat_cache.go:60).        *)
THEOREM CountersConverge == ASSUME OneConsumer PROVE Spec => []DrainedCountersMatch
  <1>1. Init => IInv
    BY InitTypes, InitSafe DEF IInv, Typed
  <1>2. IInv /\ [Next]_vars => IInv'
    BY InvKept
  <1>3. IInv => DrainedCountersMatch
    BY InvImplies
  <1>4. QED
    BY <1>1, <1>2, <1>3, PTL DEF Spec

--------------------------------------------------------------------------------
(* What the user was told, for one consumer *)

\* The messages of an action after each thing that is done to a queue.
LEMMA MineInTail ==
    ASSUME NEW s \in Seq(Message), s # <<>>, NEW t, NEW u, NEW on, Newest(s, t, u, on)
    PROVE  /\ Has(s, t, u) <=> Mine(Head(s), t, u) \/ Has(Tail(s), t, u)
           /\ Newest(Tail(s), t, u, on)
           /\ Mine(Head(s), t, u) /\ ~Has(Tail(s), t, u) => Head(s).active = on
           /\ KeyedSeq(s) => Keyed(Head(s)) /\ KeyedSeq(Tail(s))
  <1> DEFINE r == Tail(s)
  <1>1. /\ DOMAIN s = 1..Len(s) /\ DOMAIN r = 1..(Len(s) - 1) /\ Len(s) \in Nat \ {0}
        /\ Head(s) = s[1] /\ \A i \in DOMAIN r : r[i] = s[i + 1] /\ i + 1 \in DOMAIN s
    BY HeadTailProperties
  <1>2. \A j \in DOMAIN s : j = 1 \/ (j - 1 \in DOMAIN r /\ r[j - 1] = s[j])
    BY <1>1
  <1> HIDE DEF r
  <1>3. Has(s, t, u) <=> Mine(Head(s), t, u) \/ Has(r, t, u)
    <2>1. 1 \in DOMAIN s
      BY <1>1
    <2> QED
      BY <1>1, <1>2, <2>1 DEF Has
  <1>4. ASSUME NEW i \in DOMAIN r, Mine(r[i], t, u), \A j \in DOMAIN r : Mine(r[j], t, u) => j <= i
        PROVE  r[i].active = on
    <2>1. \A j \in DOMAIN s : Mine(s[j], t, u) => j <= i + 1
      <3> SUFFICES ASSUME NEW j \in DOMAIN s, Mine(s[j], t, u) PROVE j <= i + 1
        OBVIOUS
      <3>1. CASE j = 1
        BY <1>1, <3>1
      <3>2. CASE j # 1
        <4>1. j - 1 \in DOMAIN r /\ Mine(r[j - 1], t, u)
          BY <1>2, <3>2
        <4>2. j - 1 <= i
          BY <1>4, <4>1
        <4> QED
          BY <1>1, <4>2
      <3> QED
        BY <3>1, <3>2
    <2> QED
      BY <1>1, <1>4, <2>1 DEF Newest
  <1>5. ASSUME Mine(Head(s), t, u), ~Has(r, t, u) PROVE Head(s).active = on
    <2>1. \A j \in DOMAIN s : Mine(s[j], t, u) => j <= 1
      BY <1>1, <1>2, <1>5 DEF Has
    <2> QED
      BY <1>1, <1>5, <2>1 DEF Newest
  <1>6. KeyedSeq(s) => Keyed(Head(s)) /\ KeyedSeq(r)
    BY <1>1 DEF KeyedSeq
  <1> QED
    BY <1>3, <1>4, <1>5, <1>6 DEF Newest, r

LEMMA MineInAppend ==
    ASSUME NEW s \in Seq(Message), NEW m \in Message, NEW t, NEW u, NEW on
    PROVE  /\ Has(Append(s, m), t, u) <=> Mine(m, t, u) \/ Has(s, t, u)
           /\ Mine(m, t, u) /\ m.active = on => Newest(Append(s, m), t, u, on)
           /\ ~Mine(m, t, u) /\ Newest(s, t, u, on) => Newest(Append(s, m), t, u, on)
           /\ KeyedSeq(s) /\ Keyed(m) => KeyedSeq(Append(s, m))
  <1> DEFINE r == Append(s, m)
             n == Len(s) + 1
  <1>1. /\ DOMAIN s = 1..Len(s) /\ DOMAIN r = 1..n /\ Len(s) \in Nat
        /\ r[n] = m /\ \A i \in DOMAIN s : r[i] = s[i]
    OBVIOUS
  <1> HIDE DEF r
  <1>2. \A i \in DOMAIN r : i = n \/ i \in DOMAIN s
    BY <1>1
  <1>3. Has(r, t, u) <=> Mine(m, t, u) \/ Has(s, t, u)
    BY <1>1, <1>2 DEF Has
  <1>4. Mine(m, t, u) /\ m.active = on => Newest(r, t, u, on)
    <2> SUFFICES ASSUME Mine(m, t, u), m.active = on, NEW i \in DOMAIN r,
                        \A j \in DOMAIN r : Mine(r[j], t, u) => j <= i
                 PROVE  r[i].active = on
      BY DEF Newest
    <2>1. n <= i /\ n \in DOMAIN r
      BY <1>1
    <2>2. i = n
      BY <1>1, <2>1
    <2> QED
      BY <1>1, <2>2
  <1>5. ~Mine(m, t, u) /\ Newest(s, t, u, on) => Newest(r, t, u, on)
    BY <1>1, <1>2 DEF Newest
  <1>6. KeyedSeq(s) /\ Keyed(m) => KeyedSeq(r)
    BY <1>1, <1>2 DEF KeyedSeq
  <1> QED
    BY <1>3, <1>4, <1>5, <1>6 DEF r

LEMMA MineInConcat ==
    ASSUME NEW a \in Seq(Message), NEW b \in Seq(Message), NEW t, NEW u, NEW on,
           Newest(b, t, u, on), ~Has(b, t, u) => Newest(a, t, u, on)
    PROVE  /\ Has(a \o b, t, u) <=> Has(a, t, u) \/ Has(b, t, u)
           /\ Newest(a \o b, t, u, on)
           /\ KeyedSeq(a) /\ KeyedSeq(b) => KeyedSeq(a \o b)
  <1> DEFINE r == a \o b
             n == Len(a)
  <1>1. /\ DOMAIN a = 1..n /\ DOMAIN b = 1..Len(b) /\ DOMAIN r = 1..(n + Len(b))
        /\ n \in Nat /\ Len(b) \in Nat
        /\ \A i \in DOMAIN a : r[i] = a[i]
    OBVIOUS
  <1>2. \A i \in DOMAIN b : i + n \in DOMAIN r /\ r[i + n] = b[i]
    BY <1>1, ConcatProperties
  <1> HIDE DEF r, n
  <1>3. \A i \in DOMAIN r : i \in DOMAIN a \/ (i > n /\ i - n \in DOMAIN b /\ r[i] = b[i - n])
    <2> SUFFICES ASSUME NEW i \in DOMAIN r, i \notin DOMAIN a
                 PROVE  i > n /\ i - n \in DOMAIN b /\ r[i] = b[i - n]
      OBVIOUS
    <2>1. i > n /\ i - n \in DOMAIN b /\ (i - n) + n = i
      BY <1>1
    <2> QED
      BY <1>2, <2>1
  <1>4. \A i \in DOMAIN a : i \in DOMAIN r
    BY <1>1
  <1>5. Has(r, t, u) <=> Has(a, t, u) \/ Has(b, t, u)
    BY <1>1, <1>2, <1>3, <1>4 DEF Has
  <1>6. ASSUME NEW i \in DOMAIN r, Mine(r[i], t, u), \A j \in DOMAIN r : Mine(r[j], t, u) => j <= i
        PROVE  r[i].active = on
    <2>1. CASE i \in DOMAIN a
      <3>1. ~Has(b, t, u)
        <4> SUFFICES ASSUME NEW j \in DOMAIN b, Mine(b[j], t, u) PROVE FALSE
          BY DEF Has
        <4>1. j + n \in DOMAIN r /\ r[j + n] = b[j] /\ j > 0 /\ i <= n
          BY <1>1, <1>2, <2>1
        <4>2. j + n <= i
          BY <1>6, <4>1
        <4> QED
          BY <1>1, <4>1, <4>2
      <3>2. \A j \in DOMAIN a : Mine(a[j], t, u) => j <= i
        BY <1>1, <1>4, <1>6
      <3> QED
        BY <1>1, <1>6, <2>1, <3>1, <3>2 DEF Newest
    <2>2. CASE i \notin DOMAIN a
      <3>1. i - n \in DOMAIN b /\ r[i] = b[i - n] /\ i \in Int
        BY <1>1, <1>3, <2>2
      <3>2. \A j \in DOMAIN b : Mine(b[j], t, u) => j <= i - n
        <4> SUFFICES ASSUME NEW j \in DOMAIN b, Mine(b[j], t, u) PROVE j <= i - n
          OBVIOUS
        <4>1. j + n <= i
          BY <1>2, <1>6
        <4> QED
          BY <1>1, <3>1, <4>1
      <3> QED
        BY <1>6, <3>1, <3>2 DEF Newest
    <2> QED
      BY <2>1, <2>2
  <1>7. KeyedSeq(a) /\ KeyedSeq(b) => KeyedSeq(r)
    BY <1>1, <1>3 DEF KeyedSeq
  <1> QED
    BY <1>5, <1>6, <1>7 DEF Newest, r

\* One request of the user: what it makes of the stored record.
LEMMA Toggles ==
    ASSUME NEW r \in Record, NEW active \in BOOLEAN, NEW key \in Key
    PROVE  /\ RowDelta(r, active, key) = 0 => On(RowAfter(r, active, key)) = On(r)
           /\ RowDelta(r, active, key) # 0 => On(RowAfter(r, active, key)) = active /\ On(r) = ~active
  BY DEF RowDelta, RowAfter, IsReplay, ResolveActionDelta, StatusFromActive, On, Record, Status,
         Unset, Active, Canceled

\* A message applied to a row that only keyed requests have written.
LEMMA Applies ==
    ASSUME NEW r \in Record, KeyedRow(r), NEW active \in BOOLEAN, NEW key \in Key,
           key # NoKey => active = (key \in LikeKeys)
    PROVE  On(RowAfter(r, active, key)) = active /\ KeyedRow(RowAfter(r, active, key))
  BY DEF RowAfter, IsReplay, StatusFromActive, On, Record, Status, Unset, Active, Canceled, KeyedRow

LEMMA InitAnswers == Init => AnswersInv
  <1> SUFFICES ASSUME Init PROVE AnswersInv
    OBVIOUS
  <1>1. Intents /\ Alone /\ Straight
    BY DEF Init, Intents, Alone, Straight, KeyedSeq, KeyedRow, Absent
  <1>2. ASSUME NEW t \in Types, NEW u \in Users PROVE Carried(t, u)
    <2>1. /\ ~On(hash[t][u]) /\ ~On(row[t][u]) /\ answer[t][u] # Active
          /\ ~Has(queue, t, u)
      BY DEF Init, On, Absent, Has, Unset, Active
    <2>2. ~Sent(t, u) /\ Sent(t, u) \in BOOLEAN
      <3>1. (\E h \in Handlers : pc[h] = "publish" /\ Mine(call[h], t, u)) = FALSE
        BY DEF Init
      <3>2. On(hash[t][u]) = FALSE
        BY <2>1 DEF On
      <3> QED
        BY <3>1, <3>2, Zenon DEF Sent
    <2>3. HeadsFor(t, u, Sent(t, u))
      BY <2>1, <2>2 DEF Init, HeadsFor, On
    <2>4. \A w \in Workers : ~HoldsMine(w, t, u) /\ \A on : Newest(acking[w], t, u, on)
      BY DEF Init, HoldsMine, Newest
    <2> QED
      BY <2>1, <2>3, <2>4 DEF Carried, On
  <1> QED
    BY <1>1, <1>2 DEF AnswersInv

\* A key never changes its intent.
LEMMA IntentsKept ==
    ASSUME Typed, Intents, [Next]_vars
    PROVE  Intents'
  <1> USE DEF Typed, TypeOK, Engaged, db, redis, broker, api, work, bounds, Goto, WGoto
  <1>0. /\ queue \in Seq(Message) /\ \A w \in Workers : acking[w] \in Seq(Message)
        /\ KeyedSeq(queue) /\ \A w \in Workers : KeyedSeq(acking[w])
    BY DEF Intents
  <1>1. ASSUME NEW h \in Handlers, HandlerNext(h) PROVE Intents'
    <2>1. ASSUME NEW r \in Call, Begin(h, r) PROVE Intents'
      BY <2>1 DEF Begin, Intents, Keyed
    <2>2. CASE SetState(h) \/ Refuse(h) \/ Interrupt(h) \/ PublishFails(h) \/ SyncFails(h)
      <3>1. UNCHANGED <<wpc, msg, queue, acking, row>>
        BY <2>2 DEF SetState, Refuse, Interrupt, PublishFails, SyncFails
      <3>2. pc[h] # "idle" /\ \A g \in Handlers : pc'[g] # "idle" => pc[g] # "idle" /\ call'[g] = call[g]
        BY <2>2 DEF SetState, Refuse, Interrupt, PublishFails, SyncFails, Answer
      <3> QED
        BY <3>1, <3>2 DEF Intents
    <2>3. CASE Publish(h)
      <3>1. MessageOf(call[h]) \in Message /\ Keyed(MessageOf(call[h]))
        BY <2>3, RetriesNat DEF Publish, MessageOf, Message, Call, Intents, Keyed
      <3>2. KeyedSeq(queue')
        BY <1>0, <2>3, <3>1, MineInAppend DEF Publish
      <3> QED
        BY <2>3, <3>2 DEF Publish, Answer, Intents
    <2>4. CASE SyncApply(h)
      <3>1. call[h] \in Call /\ Keyed(call[h])
        BY <2>4 DEF SyncApply, Intents
      <3>2. \A t \in Types, u \in Users : KeyedRow(row'[t][u])
        BY <2>4, <3>1, Applies DEF SyncApply, Intents, Keyed, Call
      <3> QED
        BY <2>4, <3>2 DEF SyncApply, Answer, Intents
    <2> QED
      BY <1>1, <2>1, <2>2, <2>3, <2>4 DEF HandlerNext, Respond
  <1>2. ASSUME NEW w \in Workers, WorkerNext(w) PROVE Intents'
    <2>0. wpc[w] # "idle" => msg[w] \in Message /\ Keyed(msg[w])
      BY DEF Intents
    <2>1. CASE Deliver(w)
      <3>1. Keyed(Head(queue)) /\ KeyedSeq(Tail(queue))
        <4>1. queue # <<>>
          BY <2>1 DEF Deliver
        <4>2. \A i \in DOMAIN Tail(queue) : Tail(queue)[i] = queue[i + 1] /\ i + 1 \in DOMAIN queue
          BY <1>0, <4>1, HeadTailProperties
        <4>3. Head(queue) = queue[1] /\ 1 \in DOMAIN queue
          BY <1>0, <4>1
        <4> QED
          BY <1>0, <4>2, <4>3 DEF KeyedSeq
      <3> QED
        BY <2>1, <3>1 DEF Deliver, Intents
    <2>2. CASE Apply(w)
      <3>1. \A t \in Types, u \in Users : KeyedRow(row'[t][u])
        BY <2>0, <2>2, Applies DEF Apply, Intents, Keyed, Message
      <3> QED
        BY <2>2, <3>1 DEF Apply, Intents
    <2>3. CASE ReadStat(w) \/ ReadStatFails(w) \/ SetBase(w) \/ DropShards(w) \/ ApplyFails(w)
               \/ ReconcileFails(w)
      BY <2>3 DEF ReadStat, ReadStatFails, SetBase, DropShards, ApplyFails, ReconcileFails, Intents
    <2>4. CASE Ack(w)
      <3>1. KeyedSeq(Append(acking[w], msg[w]))
        BY <1>0, <2>0, <2>4, MineInAppend DEF Ack
      <3> QED
        BY <2>4, <3>1 DEF Ack, Drop, Intents
    <2>5. CASE Republish(w)
      <3> DEFINE again == [msg[w] EXCEPT !.retries = msg[w].retries + 1]
      <3>1. again \in Message /\ Keyed(again) /\ queue' = Append(queue, again)
        <4>1. msg[w] \in Message /\ Keyed(msg[w]) /\ queue' = Append(queue, again)
          BY <2>0, <2>5 DEF Republish
        <4>2. again.key = msg[w].key /\ again.active = msg[w].active
          BY <4>1 DEF Message
        <4>3. msg[w].retries + 1 \in 0..MaxRetries
          BY <2>5, <4>1, RetriesNat DEF Republish, Message
        <4>4. again \in Message
          BY <4>1, <4>3 DEF Message
        <4> QED
          BY <4>1, <4>2, <4>4 DEF Keyed
      <3> HIDE DEF again
      <3>2. KeyedSeq(queue')
        BY <1>0, <3>1, MineInAppend
      <3> QED
        BY <2>5, <3>2 DEF Republish, Intents
    <2>6. CASE DeadLetter(w)
      BY <2>6 DEF DeadLetter, Drop, Intents
    <2>7. CASE AckArrives(w)
      <3>1. \A i \in DOMAIN Tail(acking[w]) :
              Tail(acking[w])[i] = acking[w][i + 1] /\ i + 1 \in DOMAIN acking[w]
        BY <1>0, <2>7, HeadTailProperties DEF AckArrives
      <3>2. KeyedSeq(Tail(acking[w]))
        BY <1>0, <3>1 DEF KeyedSeq
      <3> QED
        BY <2>7, <3>2 DEF AckArrives, Intents
    <2>8. ASSUME NEW a \in Seq(Message), NEW b \in Seq(Message), KeyedSeq(a), KeyedSeq(b)
          PROVE  a \o b \in Seq(Message) /\ KeyedSeq(a \o b)
      <3>1. \A i \in DOMAIN (a \o b) :
              \/ i \in DOMAIN a /\ (a \o b)[i] = a[i]
              \/ i - Len(a) \in DOMAIN b /\ (a \o b)[i] = b[i - Len(a)]
        BY ConcatProperties
      <3> QED
        BY <2>8, <3>1 DEF KeyedSeq
    <2>9. ASSUME wpc[w] # "idle" PROVE <<msg[w]>> \in Seq(Message) /\ KeyedSeq(<<msg[w]>>)
      BY <2>0, <2>9 DEF KeyedSeq
    <2>10. CASE Requeue(w)
      <3>1. KeyedSeq(queue')
        BY <1>0, <2>8, <2>9, <2>10 DEF Requeue
      <3> QED
        BY <2>10, <3>1 DEF Requeue, Drop, Fault, Intents
    <2>11. CASE Crash(w)
      <3>1. Holding(w) \in Seq(Message) /\ KeyedSeq(Holding(w))
        BY <2>9 DEF Holding, KeyedSeq
      <3>2. KeyedSeq(queue')
        BY <1>0, <2>8, <2>11, <3>1 DEF Crash
      <3>3. KeyedSeq(<<>>)
        BY DEF KeyedSeq
      <3> QED
        BY <2>11, <3>2, <3>3 DEF Crash, Drop, Fault, Intents
    <2> QED
      BY <1>2, <2>1, <2>2, <2>3, <2>4, <2>5, <2>6, <2>7, <2>10, <2>11 DEF WorkerNext, Proceed
  <1>3. CASE Expire \/ Withdraw
    BY <1>3 DEF Expire, ExpireHash, ExpireBase, ExpireShards, Withdraw, Fault, Intents
  <1>4. CASE UNCHANGED vars
    BY <1>4 DEF vars, Intents
  <1> QED
    BY <1>1, <1>2, <1>3, <1>4 DEF Next

LEMMA AloneKept ==
    ASSUME Typed, Alone, Serial, [Next]_vars
    PROVE  Alone'
  <1> USE DEF Typed, TypeOK, Engaged, db, redis, broker, api, work, bounds, Goto, WGoto
  <1>1. ASSUME NEW h \in Handlers, HandlerNext(h) PROVE Alone'
    <2>1. ASSUME NEW r \in Call, Begin(h, r) PROVE Alone'
      <3>1. \A g \in Handlers : pc[g] # "idle" => ~Mine(call[g], r.type, r.user)
        BY <2>1 DEF Begin, Busy, Mine
      <3>2. /\ pc'[h] # "idle" /\ call'[h] = r
            /\ \A g \in Handlers \ {h} : pc'[g] = pc[g] /\ call'[g] = call[g]
        BY <2>1 DEF Begin
      <3> SUFFICES ASSUME NEW g \in Handlers, NEW k \in Handlers, pc'[g] # "idle", pc'[k] # "idle",
                          Mine(call'[g], call'[k].type, call'[k].user)
                   PROVE  g = k
        BY DEF Alone
      <3>3. CASE g = h /\ k # h
        <4>1. call'[g] = r /\ call'[k] = call[k] /\ pc[k] # "idle"
          BY <3>2, <3>3
        <4> QED
          BY <3>1, <4>1 DEF Mine
      <3>4. CASE g # h /\ k = h
        <4>1. call'[k] = r /\ call'[g] = call[g] /\ pc[g] # "idle"
          BY <3>2, <3>4
        <4> QED
          BY <3>1, <4>1 DEF Mine
      <3>5. CASE g # h /\ k # h
        <4>1. call'[k] = call[k] /\ call'[g] = call[g] /\ pc[g] # "idle" /\ pc[k] # "idle"
          BY <3>2, <3>5
        <4> QED
          BY <4>1 DEF Alone
      <3> QED
        BY <3>3, <3>4, <3>5
    <2>2. CASE Respond(h) \/ Refuse(h) \/ Interrupt(h) \/ PublishFails(h) \/ SyncFails(h)
      <3>1. \A g \in Handlers : pc'[g] # "idle" => pc[g] # "idle" /\ call'[g] = call[g]
        BY <2>2 DEF Respond, SetState, Publish, SyncApply, Refuse, Interrupt, PublishFails, SyncFails, Answer
      <3> QED
        BY <3>1 DEF Alone
    <2> QED
      BY <1>1, <2>1, <2>2 DEF HandlerNext
  <1>2. CASE UNCHANGED <<pc, call>>
    BY <1>2 DEF Alone
  <1>3. (\E w \in Workers : WorkerNext(w)) \/ Expire \/ Withdraw \/ UNCHANGED vars => UNCHANGED <<pc, call>>
    BY DEF WorkerNext, Proceed, Deliver, Apply, ReadStat, ReadStatFails, SetBase, DropShards, Ack,
           Republish, DeadLetter, ApplyFails, ReconcileFails, AckArrives, Requeue, Crash,
           Expire, ExpireHash, ExpireBase, ExpireShards, Withdraw, vars
  <1> QED
    BY <1>1, <1>2, <1>3 DEF Next

\* What Orderly leaves of the steps that a published video permits.
LEMMA OnlyStraight ==
    ASSUME Typed, Straight, Orderly, published', [Next]_vars
    PROVE  /\ published
           /\ \A h \in Handlers : ~Interrupt(h) /\ ~PublishFails(h) /\ ~SyncApply(h) /\ ~SyncFails(h)
           /\ \A w \in Workers : ~ApplyFails(w) /\ ~Republish(w) /\ ~Requeue(w) /\ ~DeadLetter(w)
           /\ ~Expire /\ ~Withdraw
  <1>1. published
    BY DEF Next, HandlerNext, Respond, Begin, SetState, Publish, SyncApply, Refuse,
           Interrupt, PublishFails, SyncFails, WorkerNext, Proceed, Deliver, Apply,
           ReadStat, ReadStatFails, SetBase, DropShards, Ack, Republish, DeadLetter,
           ApplyFails, ReconcileFails, AckArrives, Requeue, Crash, Expire, ExpireHash,
           ExpireBase, ExpireShards, Withdraw, db, vars
  <1>2. ~Fault("db") /\ ~Fault("expire") /\ ~Fault("interrupt") /\ ~Fault("publish")
    BY DEF Fault, Orderly
  <1>3. ~Withdraw
    BY Zenon DEF Withdraw
  <1> QED
    BY <1>1, <1>2, <1>3 DEF Straight, Interrupt, PublishFails, SyncApply, SyncFails, ApplyFails,
       Republish, Requeue, DeadLetter, Expire, ExpireHash, ExpireBase, ExpireShards

LEMMA StraightKept ==
    ASSUME Typed, Alone, Straight, Orderly, published', [Next]_vars
    PROVE  Straight'
  <1> USE DEF Typed, TypeOK, Engaged, db, redis, broker, api, work, bounds, Goto, WGoto
  <1>1. ASSUME NEW h \in Handlers, HandlerNext(h) PROVE Straight'
    <2>1. ASSUME NEW r \in Call, Begin(h, r) PROVE Straight'
      BY <2>1 DEF Begin, Straight
    <2>2. CASE SetState(h)
      <3> DEFINE r == call[h]
                 old == hash[r.type][r.user]
      <3>1. r \in Call /\ old \in Record /\ pc[h] = "state"
        BY <2>2 DEF SetState, Call
      <3>2. hash' = [hash EXCEPT ![r.type][r.user] = RowAfter(old, r.active, r.key)]
        BY <2>2 DEF SetState
      <3>3. \/ RowDelta(old, r.active, r.key) # 0 /\ pc' = [pc EXCEPT ![h] = "publish"] /\ UNCHANGED call
            \/ pc' = [pc EXCEPT ![h] = "idle"] /\ call' = [call EXCEPT ![h] = None]
        BY <2>2 DEF SetState, Answer
      <3>4. UNCHANGED <<wpc, msg>>
        BY <2>2 DEF SetState
      <3>5. ASSUME NEW g \in Handlers, pc'[g] = "publish"
            PROVE  On(hash'[call'[g].type][call'[g].user]) = call'[g].active
        <4>1. CASE g = h
          <5>1. RowDelta(old, r.active, r.key) # 0 /\ call'[g] = r
            BY <3>1, <3>3, <3>5, <4>1
          <5>2. On(RowAfter(old, r.active, r.key)) = r.active
            BY <3>1, <5>1, Toggles DEF Call
          <5>3. hash'[r.type][r.user] = RowAfter(old, r.active, r.key)
            BY <3>1, <3>2 DEF Call
          <5> QED
            BY <5>1, <5>2, <5>3
        <4>2. CASE g # h
          <5>1. pc[g] = "publish" /\ call'[g] = call[g] /\ call[g] \in Call
            BY <3>3, <3>5, <4>2
          <5>2. ~Mine(call[g], r.type, r.user)
            BY <3>1, <4>2, <5>1 DEF Alone
          <5>3. hash'[call[g].type][call[g].user] = hash[call[g].type][call[g].user]
            BY <3>1, <3>2, <5>1, <5>2 DEF Call, Mine
          <5> QED
            BY <5>1, <5>3 DEF Straight
        <4> QED
          BY <4>1, <4>2
      <3>6. \A g \in Handlers : pc'[g] # "sync"
        BY <3>3 DEF Straight
      <3> QED
        BY <3>4, <3>5, <3>6 DEF Straight
    <2>3. CASE Publish(h) \/ Refuse(h)
      <3>1. UNCHANGED <<hash, wpc, msg>>
        BY <2>3 DEF Publish, Refuse
      <3>2. \A g \in Handlers : pc'[g] # "idle" => pc'[g] = pc[g] /\ call'[g] = call[g]
        BY <2>3 DEF Publish, Refuse, Answer
      <3> QED
        BY <3>1, <3>2 DEF Straight
    <2> QED
      BY <1>1, <2>1, <2>2, <2>3, OnlyStraight DEF HandlerNext, Respond
  <1>2. ASSUME NEW w \in Workers, WorkerNext(w) PROVE Straight'
    <2>1. UNCHANGED <<hash, pc, call>>
      BY <1>2 DEF WorkerNext, Proceed, Deliver, Apply, ReadStat, ReadStatFails, SetBase, DropShards, Ack,
           Republish, DeadLetter, ApplyFails, ReconcileFails, AckArrives, Requeue, Crash
    <2>2. \A v \in Workers : wpc'[v] # "failed"
      BY <1>2, OnlyStraight DEF Straight, WorkerNext, Proceed, Deliver, Apply, ReadStat, ReadStatFails,
           SetBase, DropShards, Ack, ReconcileFails, AckArrives, Crash, Drop
    <2> QED
      BY <2>1, <2>2 DEF Straight
  <1>3. CASE UNCHANGED vars
    BY <1>3 DEF vars, Straight
  <1> QED
    BY <1>1, <1>2, <1>3, OnlyStraight DEF Next

\* A request of another action, or one that only waits, changes nothing here.
LEMMA SentKept ==
    ASSUME NEW t \in Types, NEW u \in Users, hash'[t][u] = hash[t][u],
           \A h \in Handlers : pc'[h] = "publish" /\ Mine(call'[h], t, u)
                               <=> pc[h] = "publish" /\ Mine(call[h], t, u)
    PROVE  Sent(t, u)' = Sent(t, u)
  BY DEF Sent

LEMMA RequestCarries ==
    ASSUME Typed, Alone, Straight, NEW t \in Types, NEW u \in Users, Carried(t, u),
           NEW h \in Handlers, (\E r \in Call : Begin(h, r)) \/ SetState(h) \/ Refuse(h) \/ Publish(h)
    PROVE  Carried(t, u)'
  <1> USE DEF Typed, TypeOK, Engaged, db, redis, broker, api, work, bounds, Goto, WGoto
  <1> DEFINE r == call[h]
             old == hash[t][u]
  <1>0. PICK on : on = Sent(t, u)
    OBVIOUS
  \* Where the queue is left alone it is enough that nothing else was sent.
  <1>1. ASSUME UNCHANGED <<queue, wpc, msg, acking, row>>, Sent(t, u)' = on,
               ~Busy(t, u)' /\ answer'[t][u] # Unknown => (answer'[t][u] = Active) = On(hash'[t][u])
        PROVE  Carried(t, u)'
    <2>1. HeadsFor(t, u, on)' <=> HeadsFor(t, u, on)
      BY <1>1 DEF HeadsFor
    <2>2. \A w \in Workers : HoldsMine(w, t, u)' <=> HoldsMine(w, t, u)
      BY <1>1 DEF HoldsMine
    <2> QED
      BY <1>0, <1>1, <2>1, <2>2 DEF Carried
  <1>2. ASSUME NEW q \in Call, Begin(h, q) PROVE Carried(t, u)'
    <2>1. /\ UNCHANGED <<hash, queue, wpc, msg, acking, row, answer>>
          /\ pc[h] = "idle" /\ pc' = [pc EXCEPT ![h] = "state"] /\ call' = [call EXCEPT ![h] = q]
      BY <1>2 DEF Begin
    <2>2. Sent(t, u)' = on
      BY <1>0, <2>1, SentKept
    <2>3. Busy(t, u) => Busy(t, u)'
      BY <2>1 DEF Busy
    <2> QED
      BY <1>1, <2>1, <2>2, <2>3 DEF Carried
  <1>3. pc[h] # "idle" => r \in Call
    OBVIOUS
  \* A request of another action.
  <1>4. ASSUME pc[h] # "idle", ~Mine(r, t, u), UNCHANGED <<wpc, msg, acking, row>>,
               hash'[t][u] = hash[t][u], answer'[t][u] = answer[t][u],
               \A g \in Handlers \ {h} : pc'[g] = pc[g] /\ call'[g] = call[g],
               pc'[h] = "idle" \/ call'[h] = r,
               queue' = queue \/ (Publish(h) /\ queue' = Append(queue, MessageOf(r)))
        PROVE  Carried(t, u)'
    <2>1. Sent(t, u)' = on
      <3>1. \A g \in Handlers : pc'[g] = "publish" /\ Mine(call'[g], t, u)
                               <=> pc[g] = "publish" /\ Mine(call[g], t, u)
        BY <1>4
      <3> QED
        BY <1>0, <1>4, <3>1, SentKept
    <2>2. Busy(t, u)' <=> Busy(t, u)
      BY <1>4 DEF Busy, Mine
    <2>3. CASE queue' = queue
      BY <1>1, <1>4, <2>1, <2>2, <2>3 DEF Carried
    <2>4. CASE queue' = Append(queue, MessageOf(r))
      <3>1. MessageOf(r) \in Message /\ ~Mine(MessageOf(r), t, u)
        BY <1>3, <1>4, RetriesNat DEF MessageOf, Message, Call, Mine
      <3>2. (Has(queue', t, u) <=> Has(queue, t, u)) /\ (Newest(queue, t, u, on) => Newest(queue', t, u, on))
        BY <2>4, <3>1, MineInAppend
      <3>3. HeadsFor(t, u, on)'
        BY <1>0, <1>4, <3>2 DEF HeadsFor, Carried
      <3>4. \A w \in Workers : HoldsMine(w, t, u)' <=> HoldsMine(w, t, u)
        BY <1>4 DEF HoldsMine
      <3> QED
        BY <1>0, <1>4, <2>1, <2>2, <3>2, <3>3, <3>4 DEF Carried
    <2> QED
      BY <1>4, <2>3, <2>4
  \* A request of this action: nobody else's is under way.
  <1>5. ASSUME pc[h] # "idle", Mine(r, t, u)
        PROVE  /\ t = r.type /\ u = r.user
               /\ \A g \in Handlers \ {h} : pc[g] # "idle" => ~Mine(call[g], t, u)
    BY <1>5 DEF Alone, Mine
  <1>6. CASE SetState(h)
    <2>1. pc[h] = "state" /\ r \in Call /\ UNCHANGED <<queue, wpc, msg, acking, row>>
      BY <1>3, <1>6 DEF SetState
    <2>2. hash' = [hash EXCEPT ![r.type][r.user] = RowAfter(hash[r.type][r.user], r.active, r.key)]
      BY <1>6 DEF SetState
    <2>3. \/ /\ RowDelta(hash[r.type][r.user], r.active, r.key) # 0
             /\ pc' = [pc EXCEPT ![h] = "publish"] /\ UNCHANGED <<call, answer>>
          \/ /\ RowDelta(hash[r.type][r.user], r.active, r.key) = 0
             /\ Answer(h, hash'[r.type][r.user].status)
      BY <1>6 DEF SetState
    <2>4. CASE ~Mine(r, t, u)
      <3>1. hash'[t][u] = hash[t][u]
        BY <2>1, <2>2, <2>4 DEF Mine, Call
      <3>2. answer'[t][u] = answer[t][u]
        BY <2>1, <2>3, <2>4 DEF Answer, Mine, Call
      <3>3. /\ \A g \in Handlers \ {h} : pc'[g] = pc[g] /\ call'[g] = call[g]
            /\ pc'[h] = "idle" \/ call'[h] = r
        BY <2>3 DEF Answer
      <3> QED
        BY <1>4, <2>1, <2>4, <3>1, <3>2, <3>3
    <2>5. CASE Mine(r, t, u)
      <3>1. old \in Record /\ r.active \in BOOLEAN /\ r.key \in Key /\ t = r.type /\ u = r.user
        BY <1>5, <2>1, <2>5 DEF Call
      <3>2. hash'[t][u] = RowAfter(old, r.active, r.key)
        BY <2>2, <3>1
      <3>3. ~\E g \in Handlers : pc[g] = "publish" /\ Mine(call[g], t, u)
        BY <1>5, <2>1, <2>5
      <3>4. on = On(old)
        <4>1. (\E g \in Handlers : pc[g] = "publish" /\ Mine(call[g], t, u)) = FALSE
          BY <3>3
        <4>2. On(old) \in BOOLEAN
          BY DEF On
        <4> QED
          BY <1>0, <4>1, <4>2 DEF Sent
      <3>5. CASE RowDelta(old, r.active, r.key) # 0
        <4>1. pc' = [pc EXCEPT ![h] = "publish"] /\ UNCHANGED <<call, answer>>
          BY <2>3, <3>1, <3>5
        <4>2. pc'[h] = "publish" /\ Mine(call'[h], t, u)
          BY <2>5, <4>1
        <4>3. On(hash'[t][u]) = r.active /\ On(old) = ~r.active
          BY <3>1, <3>2, <3>5, Toggles
        <4>4. Sent(t, u)' = on
          <5>1. (\E g \in Handlers : pc'[g] = "publish" /\ Mine(call'[g], t, u)) = TRUE
            BY <4>2
          <5> QED
            BY <3>1, <3>4, <4>3, <5>1 DEF Sent
        <4>5. Busy(t, u)'
          BY <4>2 DEF Busy, Mine
        <4> QED
          BY <1>1, <2>1, <4>4, <4>5
      <3>6. CASE RowDelta(old, r.active, r.key) = 0
        <4>1. Answer(h, hash'[t][u].status)
          BY <2>3, <3>1, <3>6
        <4>2. \A g \in Handlers : pc'[g] # "idle" => pc'[g] = pc[g] /\ call'[g] = call[g]
          BY <4>1 DEF Answer
        <4>3. Sent(t, u)' = on
          <5>1. (\E g \in Handlers : pc'[g] = "publish" /\ Mine(call'[g], t, u)) = FALSE
            BY <3>3, <4>2
          <5>2. On(hash'[t][u]) = On(old)
            BY <3>1, <3>2, <3>6, Toggles
          <5>3. On(hash'[t][u]) \in BOOLEAN
            BY DEF On
          <5> QED
            BY <3>4, <5>1, <5>2, <5>3 DEF Sent
        <4>4. answer'[t][u] = hash'[t][u].status
          BY <3>1, <4>1 DEF Answer
        <4>5. (answer'[t][u] = Active) = On(hash'[t][u])
          BY <4>4 DEF On
        <4> QED
          BY <1>1, <2>1, <4>3, <4>5
      <3> QED
        BY <3>5, <3>6
    <2> QED
      BY <2>4, <2>5
  <1>7. CASE Refuse(h) \/ Publish(h)
    <2>1. pc[h] # "idle" /\ r \in Call /\ UNCHANGED <<hash, wpc, msg, acking, row>>
      BY <1>3, <1>7 DEF Refuse, Publish
    <2>2. \/ Refuse(h) /\ queue' = queue /\ Answer(h, Unknown)
          \/ /\ Publish(h) /\ pc[h] = "publish" /\ queue' = Append(queue, MessageOf(r))
             /\ Answer(h, StatusFromActive(r.active))
      BY <1>7 DEF Refuse, Publish
    <2>3. /\ \A g \in Handlers \ {h} : pc'[g] = pc[g] /\ call'[g] = call[g]
          /\ pc'[h] = "idle"
      BY <2>2 DEF Answer
    <2>4. CASE ~Mine(r, t, u)
      <3>1. answer'[t][u] = answer[t][u]
        BY <2>1, <2>2, <2>4 DEF Answer, Mine, Call
      <3> QED
        BY <1>4, <2>1, <2>2, <2>3, <2>4, <3>1
    <2>5. CASE Mine(r, t, u)
      <3>1. t = r.type /\ u = r.user /\ r.active \in BOOLEAN
        BY <1>5, <2>1, <2>5 DEF Call
      <3>2. ~\E g \in Handlers : pc'[g] = "publish" /\ Mine(call'[g], t, u)
        BY <1>5, <2>1, <2>3, <2>5
      <3>3. Sent(t, u)' = On(old)
        <4>1. (\E g \in Handlers : pc'[g] = "publish" /\ Mine(call'[g], t, u)) = FALSE
          BY <3>2
        <4>2. On(old) \in BOOLEAN
          BY DEF On
        <4> QED
          BY <2>1, <4>1, <4>2 DEF Sent
      <3>4. CASE Refuse(h)
        <4>1. queue' = queue /\ answer'[t][u] = Unknown /\ pc[h] = "state"
          BY <3>1, <3>4 DEF Refuse, Answer
        <4>2. on = On(old)
          <5>1. (\E g \in Handlers : pc[g] = "publish" /\ Mine(call[g], t, u)) = FALSE
            BY <1>5, <2>5, <4>1
          <5>2. On(old) \in BOOLEAN
            BY DEF On
          <5> QED
            BY <1>0, <5>1, <5>2 DEF Sent
        <4> QED
          BY <1>1, <2>1, <3>3, <4>1, <4>2
      <3>5. CASE Publish(h)
        <4>1. pc[h] = "publish" /\ queue' = Append(queue, MessageOf(r)) /\ Answer(h, StatusFromActive(r.active))
          BY <3>5 DEF Publish
        <4>2. On(old) = r.active
          BY <3>1, <4>1 DEF Straight
        <4>3. MessageOf(r) \in Message /\ Mine(MessageOf(r), t, u) /\ MessageOf(r).active = On(old)
          BY <2>1, <2>5, <4>2, RetriesNat DEF MessageOf, Message, Call, Mine
        <4>4. Has(queue', t, u) /\ Newest(queue', t, u, On(old))
          BY <4>1, <4>3, MineInAppend
        <4>5. answer'[t][u] = StatusFromActive(r.active)
          BY <3>1, <4>1 DEF Answer
        <4>6. (answer'[t][u] = Active) = On(hash'[t][u])
          BY <2>1, <3>1, <4>2, <4>5 DEF StatusFromActive, Active, Canceled
        <4>7. HeadsFor(t, u, Sent(t, u))'
          BY <3>3, <4>4 DEF HeadsFor
        <4> QED
          BY <4>4, <4>6, <4>7 DEF Carried
      <3> QED
        BY <2>2, <3>4, <3>5
    <2> QED
      BY <2>4, <2>5
  <1> QED
    BY <1>2, <1>6, <1>7

LEMMA DeliveryCarries ==
    ASSUME Typed, Intents, Straight, Orderly, OneConsumer, published', [Next]_vars,
           NEW t \in Types, NEW u \in Users, Carried(t, u), NEW w \in Workers, WorkerNext(w)
    PROVE  Carried(t, u)'
  <1> USE DEF Typed, TypeOK, Engaged, db, redis, broker, api, work, bounds, WGoto
  <1> DEFINE m == msg[w]
  <1>0. PICK on : on = Sent(t, u)
    OBVIOUS
  <1>1. /\ queue \in Seq(Message) /\ acking[w] \in Seq(Message)
        /\ \A v \in Workers : v = w
        /\ wpc[w] # "idle" => m \in Message /\ m # None
    BY DEF OneConsumer
  <1>2. UNCHANGED <<hash, pc, call, answer>>
    BY DEF WorkerNext, Proceed, Deliver, Apply, ReadStat, ReadStatFails, SetBase, DropShards, Ack,
           Republish, DeadLetter, ApplyFails, ReconcileFails, AckArrives, Requeue, Crash
  <1>3. /\ Sent(t, u)' = on
        /\ ~Busy(t, u)' /\ answer'[t][u] # Unknown => (answer'[t][u] = Active) = On(hash'[t][u])
    BY <1>0, <1>2, SentKept DEF Carried, Busy
  \* The invariant with the worker's state spelled out.
  <1>4. /\ Has(queue, t, u) => Newest(queue, t, u, on)
        /\ ~Has(queue, t, u) /\ wpc[w] = "apply" /\ Mine(m, t, u) => m.active = on
        /\ ~Has(queue, t, u) /\ ~(wpc[w] = "apply" /\ Mine(m, t, u)) => On(row[t][u]) = on
        /\ ~Has(queue, t, u) /\ m # None /\ Mine(m, t, u) => m.active = on
        /\ ~Has(queue, t, u) /\ ~(m # None /\ Mine(m, t, u)) => Newest(acking[w], t, u, on)
    BY <1>0, <1>1 DEF Carried, HeadsFor, HoldsMine, Straight
  <1>5. SUFFICES
           /\ Has(queue', t, u) => Newest(queue', t, u, on)
           /\ ~Has(queue', t, u) /\ wpc'[w] = "apply" /\ Mine(msg'[w], t, u) => msg'[w].active = on
           /\ ~Has(queue', t, u) /\ ~(wpc'[w] = "apply" /\ Mine(msg'[w], t, u)) => On(row'[t][u]) = on
           /\ ~Has(queue', t, u) /\ msg'[w] # None /\ Mine(msg'[w], t, u) => msg'[w].active = on
           /\ ~Has(queue', t, u) /\ ~(msg'[w] # None /\ Mine(msg'[w], t, u)) => Newest(acking'[w], t, u, on)
    <2>1. wpc'[w] # "failed"
      BY <1>1, OnlyStraight, StraightKept DEF Straight, WorkerNext, Proceed, Deliver, Apply, ReadStat,
         ReadStatFails, SetBase, DropShards, Ack, ReconcileFails, AckArrives, Crash, Drop
    <2>2. HeadsFor(t, u, on)'
      BY <1>1, <1>5, <2>1 DEF HeadsFor
    <2>3. ASSUME ~Has(queue', t, u), NEW v \in Workers
          PROVE  IF msg'[v] # None /\ Mine(msg'[v], t, u) THEN msg'[v].active = on
                 ELSE Newest(acking'[v], t, u, on)
      <3>1. v = w
        BY <1>1
      <3> QED
        BY <1>5, <2>3, <3>1
    <2> QED
      BY <1>3, <1>5, <2>2, <2>3 DEF Carried, HoldsMine
  <1>6. CASE Deliver(w)
    <2>1. /\ wpc[w] = "idle" /\ queue # <<>> /\ msg'[w] = Head(queue) /\ queue' = Tail(queue)
          /\ wpc'[w] = "apply" /\ UNCHANGED <<row, acking>> /\ m = None
      BY <1>6 DEF Deliver
    <2>2. Newest(queue, t, u, on)
      BY <1>4 DEF Newest, Has
    <2>3. /\ Has(queue, t, u) <=> Mine(msg'[w], t, u) \/ Has(queue', t, u)
          /\ Newest(queue', t, u, on)
          /\ Mine(msg'[w], t, u) /\ ~Has(queue', t, u) => msg'[w].active = on
      BY <1>1, <2>1, <2>2, MineInTail
    <2>4. msg'[w] # None
      BY <1>1, <2>1, HeadTailProperties, NoneIsNew
    <2> QED
      BY <1>4, <2>1, <2>3, <2>4
  <1>7. CASE Apply(w)
    <2>1. /\ wpc[w] = "apply" /\ wpc'[w] = "read" /\ UNCHANGED <<queue, msg, acking>> /\ m \in Message
          /\ row' = [row EXCEPT ![m.type][m.user] = RowAfter(row[m.type][m.user], m.active, m.key)]
      BY <1>1, <1>7 DEF Apply
    <2>2. row'[t][u] = IF Mine(m, t, u) THEN RowAfter(row[t][u], m.active, m.key) ELSE row[t][u]
      BY <2>1 DEF Mine, Message
    <2>3. On(RowAfter(row[t][u], m.active, m.key)) = m.active
      <3>1. row[t][u] \in Record /\ KeyedRow(row[t][u]) /\ Keyed(m)
        BY <2>1 DEF Intents
      <3>2. m.active \in BOOLEAN /\ m.key \in Key
        BY <2>1 DEF Message
      <3> HIDE DEF m
      <3> QED
        BY <3>1, <3>2, Applies DEF Keyed
    <2> QED
      BY <1>1, <1>4, <2>1, <2>2, <2>3
  <1>8. CASE ReadStat(w) \/ ReadStatFails(w) \/ SetBase(w) \/ DropShards(w) \/ ReconcileFails(w)
    <2>1. UNCHANGED <<queue, msg, acking, row>> /\ wpc[w] # "apply" /\ wpc'[w] # "apply"
      BY <1>8 DEF ReadStat, ReadStatFails, SetBase, DropShards, ReconcileFails
    <2> QED
      BY <1>4, <2>1
  <1>9. CASE Ack(w)
    <2>1. /\ wpc[w] = "ack" /\ wpc'[w] = "idle" /\ msg'[w] = None /\ UNCHANGED <<queue, row>>
          /\ acking'[w] = Append(acking[w], m) /\ m \in Message /\ m # None
      BY <1>1, <1>9 DEF Ack, Drop
    <2>2. /\ Mine(m, t, u) /\ m.active = on => Newest(acking'[w], t, u, on)
          /\ ~Mine(m, t, u) /\ Newest(acking[w], t, u, on) => Newest(acking'[w], t, u, on)
      BY <1>1, <2>1, MineInAppend
    <2> QED
      BY <1>4, <2>1, <2>2
  <1>10. CASE AckArrives(w)
    <2>1. UNCHANGED <<queue, row, wpc, msg>> /\ acking[w] # <<>> /\ acking'[w] = Tail(acking[w])
      BY <1>10 DEF AckArrives
    <2>2. Newest(acking[w], t, u, on) => Newest(acking'[w], t, u, on)
      BY <1>1, <2>1, MineInTail
    <2> QED
      BY <1>4, <2>1, <2>2
  <1>11. CASE Crash(w)
    <2> DEFINE rest == Holding(w) \o queue
    <2>1. /\ queue' = acking[w] \o Holding(w) \o queue /\ acking'[w] = <<>> /\ wpc'[w] = "idle"
          /\ msg'[w] = None /\ UNCHANGED row
      BY <1>11 DEF Crash, Drop
    <2>2. Holding(w) \in Seq(Message) /\ rest \in Seq(Message) /\ queue' = acking[w] \o rest
      <3>1. Holding(w) \in Seq(Message)
        BY <1>1 DEF Holding
      <3> QED
        <4>1. rest \in Seq(Message)
          BY <1>1, <3>1, ConcatProperties
        <4>2. (acking[w] \o Holding(w)) \o queue = acking[w] \o rest
          BY <1>1, <3>1, ConcatAssociative
        <4> QED
          BY <2>1, <3>1, <4>1, <4>2
    <2>3. Has(Holding(w), t, u) <=> m # None /\ Mine(m, t, u)
      BY DEF Holding, Has
    <2>4. ~Has(queue, t, u) => Newest(Holding(w), t, u, on)
      BY <1>4 DEF Holding, Newest
    <2>5. Newest(queue, t, u, on)
      BY <1>4 DEF Newest, Has
    <2>6. Newest(rest, t, u, on) /\ (Has(rest, t, u) <=> Has(Holding(w), t, u) \/ Has(queue, t, u))
      BY <1>1, <2>2, <2>4, <2>5, MineInConcat
    <2> HIDE DEF rest
    <2>7. Newest(queue', t, u, on) /\ (Has(queue', t, u) <=> Has(acking[w], t, u) \/ Has(rest, t, u))
      BY <1>1, <1>4, <2>2, <2>3, <2>6, MineInConcat
    <2>8. Newest(<<>>, t, u, on)
      BY DEF Newest
    <2> QED
      BY <1>4, <2>1, <2>3, <2>6, <2>7, <2>8
  <1> QED
    BY <1>6, <1>7, <1>8, <1>9, <1>10, <1>11, OnlyStraight DEF WorkerNext, Proceed

LEMMA AnswersKept ==
    ASSUME Typed, OneConsumer, Serial, Orderly, AnswersInv, [Next]_vars
    PROVE  AnswersInv'
  <1>1. Intents' /\ Alone'
    BY IntentsKept, AloneKept DEF AnswersInv
  <1>2. ASSUME published', NEW t \in Types, NEW u \in Users
        PROVE  Carried(t, u)'
    <2>0. published
      BY <1>2 DEF Next, HandlerNext, Respond, Begin, SetState, Publish, SyncApply, Refuse,
           Interrupt, PublishFails, SyncFails, WorkerNext, Proceed, Deliver, Apply,
           ReadStat, ReadStatFails, SetBase, DropShards, Ack, Republish, DeadLetter,
           ApplyFails, ReconcileFails, AckArrives, Requeue, Crash, Expire, ExpireHash,
           ExpireBase, ExpireShards, Withdraw, db, vars
    <2>1. Intents /\ Alone /\ Straight /\ Carried(t, u)
      BY <2>0 DEF AnswersInv
    <2>2. Straight'
      BY <1>2, <2>1, StraightKept
    <2>3. ASSUME NEW h \in Handlers, HandlerNext(h) PROVE Carried(t, u)'
      BY <1>2, <2>1, <2>3, OnlyStraight, RequestCarries DEF HandlerNext, Respond
    <2>4. ASSUME NEW w \in Workers, WorkerNext(w) PROVE Carried(t, u)'
      BY <1>2, <2>1, <2>4, DeliveryCarries
    <2>5. CASE UNCHANGED vars
      <3>1. PICK on : on = Sent(t, u)
        OBVIOUS
      <3>2. Sent(t, u)' = on /\ (HeadsFor(t, u, on)' <=> HeadsFor(t, u, on)) /\ (Busy(t, u)' <=> Busy(t, u))
        BY <2>5, <3>1, SentKept DEF vars, HeadsFor, Busy
      <3>3. \A w \in Workers : HoldsMine(w, t, u)' <=> HoldsMine(w, t, u)
        BY <2>5 DEF vars, HoldsMine
      <3>4. UNCHANGED <<queue, msg, acking, answer, hash>>
        BY <2>5 DEF vars
      <3> QED
        BY <2>1, <3>1, <3>2, <3>3, <3>4 DEF Carried
    <2> QED
      BY <1>2, <2>1, <2>2, <2>3, <2>4, <2>5, OnlyStraight DEF Next
  <1>3. published' => Straight'
    <2>1. ASSUME published' PROVE published /\ Straight
      BY <2>1 DEF AnswersInv, Next, HandlerNext, Respond, Begin, SetState, Publish, SyncApply, Refuse,
           Interrupt, PublishFails, SyncFails, WorkerNext, Proceed, Deliver, Apply,
           ReadStat, ReadStatFails, SetBase, DropShards, Ack, Republish, DeadLetter,
           ApplyFails, ReconcileFails, AckArrives, Requeue, Crash, Expire, ExpireHash,
           ExpireBase, ExpireShards, Withdraw, db, vars
    <2> QED
      BY <2>1, StraightKept DEF AnswersInv
  <1> QED
    BY <1>1, <1>2, <1>3 DEF AnswersInv

LEMMA AnswersInvImplies == AnswersInv => AnswerIsCarried
  <1> SUFFICES ASSUME AnswersInv, published, NEW t \in Types, NEW u \in Users,
                      ~Busy(t, u), answer[t][u] # Unknown
               PROVE  HeadsFor(t, u, answer[t][u] = Active)
    BY DEF AnswerIsCarried
  <1>1. Carried(t, u)
    BY DEF AnswersInv
  <1>2. Sent(t, u) = (answer[t][u] = Active)
    <2>1. (\E h \in Handlers : pc[h] = "publish" /\ Mine(call[h], t, u)) = FALSE
      BY DEF Busy, Mine
    <2>2. (answer[t][u] = Active) = On(hash[t][u])
      BY <1>1 DEF Carried
    <2> QED
      BY <2>1, <2>2 DEF Sent
  <1> QED
    BY <1>1, <1>2 DEF Carried

(* action.go:12-30: what the last successful answer told the user is what    *)
(* the row becomes. With one consumer and clients that wait for an answer    *)
(* before they repeat an action, this survives crashes, redeliveries,        *)
(* replays, failing resets and a withdrawal, for any users, types, keys and  *)
(* numbers of requests; it does not survive a failed handling (which moves   *)
(* an event behind newer ones), a request cut off before publishing, the     *)
(* synchronous fallback or an expired hash.                                  *)
THEOREM AnswersAreCarried ==
    ASSUME OneConsumer, Serial, Orderly
    PROVE  Spec => []AnswerIsCarried
  <1>1. Init => Typed /\ AnswersInv
    BY InitTypes, InitAnswers
  <1>2. Typed /\ AnswersInv /\ [Next]_vars => Typed' /\ AnswersInv'
    BY TypesKept, AnswersKept
  <1>3. AnswersInv => AnswerIsCarried
    BY AnswersInvImplies
  <1> QED
    BY <1>1, <1>2, <1>3, PTL DEF Spec
================================================================================
