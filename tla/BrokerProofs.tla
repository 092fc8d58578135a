----------------------------- MODULE BrokerProofs -----------------------------
(***************************************************************************)
(* Proofs about the broker and its clients. RabbitDelivery never loses a   *)
(* message, for any queues bound to the exchange, any workers, events and  *)
(* number of retries, and redelivers no message more often than its        *)
(* retries and the faults allow. QueueTopology, which precedes it, leaves  *)
(* a bound queue behind, for any number of starting processes.             *)
(***************************************************************************)
EXTENDS RabbitDelivery, QueueTopology, SequenceTheorems, FiniteSetTheorems, FunctionTheorems, TLAPS

\* A message that is in `s` is in any longer queue made from it.
LEMMA HeadAndTail ==
    ASSUME NEW s \in Seq(Delivery), s # <<>>, NEW i \in DOMAIN s
    PROVE  \/ s[i] = Head(s)
           \/ \E j \in DOMAIN Tail(s) : Tail(s)[j] = s[i]
  <1>1. CASE i = 1
    BY <1>1
  <1>2. CASE i # 1
    <2>1. i - 1 \in DOMAIN Tail(s) /\ Tail(s)[i - 1] = s[i]
      BY <1>2
    <2>2. QED
      BY <2>1
  <1>3. QED
    BY <1>1, <1>2

LEMMA AppendKeeps ==
    ASSUME NEW s \in Seq(Delivery), NEW m \in Delivery
    PROVE  /\ Append(s, m) \in Seq(Delivery)
           /\ \A i \in DOMAIN s : i \in DOMAIN Append(s, m) /\ Append(s, m)[i] = s[i]
           /\ \E i \in DOMAIN Append(s, m) : Append(s, m)[i] = m
  <1>1. Append(s, m) \in Seq(Delivery) /\ Len(Append(s, m)) = Len(s) + 1
    OBVIOUS
  <1>2. \A i \in 1..Len(s) : Append(s, m)[i] = s[i]
    OBVIOUS
  <1>3. Append(s, m)[Len(s) + 1] = m /\ Len(s) + 1 \in DOMAIN Append(s, m)
    BY <1>1
  <1>4. QED
    BY <1>1, <1>2, <1>3

LEMMA ConcatKeeps ==
    ASSUME NEW s \in Seq(Delivery), NEW t \in Seq(Delivery)
    PROVE  /\ s \o t \in Seq(Delivery)
           /\ \A i \in DOMAIN s : \E j \in DOMAIN (s \o t) : (s \o t)[j] = s[i]
           /\ \A i \in DOMAIN t : \E j \in DOMAIN (s \o t) : (s \o t)[j] = t[i]
  <1>1. s \o t \in Seq(Delivery) /\ Len(s \o t) = Len(s) + Len(t)
    OBVIOUS
  <1>2. ASSUME NEW i \in DOMAIN s PROVE \E j \in DOMAIN (s \o t) : (s \o t)[j] = s[i]
    <2>1. (s \o t)[i] = s[i] /\ i \in DOMAIN (s \o t)
      BY <1>1
    <2>2. QED
      BY <2>1
  <1>3. ASSUME NEW i \in DOMAIN t PROVE \E j \in DOMAIN (s \o t) : (s \o t)[j] = t[i]
    <2>1. (s \o t)[i + Len(s)] = t[i] /\ i + Len(s) \in DOMAIN (s \o t)
      BY <1>1
    <2>2. QED
      BY <2>1
  <1>4. QED
    BY <1>1, <1>2, <1>3, Zenon

\* The same facts, for the events of the messages.
LEMMA ContainsTail ==
    ASSUME NEW s \in Seq(Delivery), s # <<>>, NEW e, Contains(s, e)
    PROVE  Head(s).event = e \/ Contains(Tail(s), e)
  BY HeadAndTail DEF Contains

LEMMA ContainsAppend ==
    ASSUME NEW s \in Seq(Delivery), NEW m \in Delivery
    PROVE  /\ Contains(Append(s, m), m.event)
           /\ \A e : Contains(s, e) => Contains(Append(s, m), e)
  BY AppendKeeps DEF Contains

LEMMA ContainsConcat ==
    ASSUME NEW s \in Seq(Delivery), NEW t \in Seq(Delivery), NEW e,
           Contains(s, e) \/ Contains(t, e)
    PROVE  Contains(s \o t, e)
  <1>1. CASE Contains(s, e)
    <2>1. PICK i \in DOMAIN s : s[i].event = e
      BY <1>1 DEF Contains
    <2>2. PICK j \in DOMAIN (s \o t) : (s \o t)[j] = s[i]
      BY ConcatKeeps
    <2>3. QED
      BY <2>1, <2>2 DEF Contains
  <1>2. CASE Contains(t, e)
    <2>1. PICK i \in DOMAIN t : t[i].event = e
      BY <1>2 DEF Contains
    <2>2. PICK j \in DOMAIN (s \o t) : (s \o t)[j] = t[i]
      BY ConcatKeeps
    <2>3. QED
      BY <2>1, <2>2 DEF Contains
  <1>3. QED
    BY <1>1, <1>2

LEMMA ContainsOne == ASSUME NEW m \in Delivery
                     PROVE  <<m>> \in Seq(Delivery) /\ Contains(<<m>>, m.event)
  <1>1. 1 \in DOMAIN <<m>> /\ <<m>>[1] = m
    OBVIOUS
  <1>2. QED
    BY <1>1 DEF Contains

-----------------------------------------------------------------------------
(* Types *)

Typed == TypeOK /\ Engaged

LEMMA InitTypes == Init => Typed
  <1>1. <<>> \in Seq(Delivery)
    BY EmptySeq
  <1>2. QED
    BY <1>1 DEF Init, Typed, TypeOK, Engaged

LEMMA RouteTypes ==
    ASSUME TypeOK, NEW m \in Delivery, Route(m)
    PROVE  queue' \in [Queues -> Seq(Delivery)]
  BY AppendKeeps DEF TypeOK, Route

\* A consumer that has something to do holds a delivery.
LEMMA HandIsDelivery ==
    ASSUME Typed, NEW w \in Workers, NEW q \in Queues, step[w][q] # "idle"
    PROVE  /\ hand[w][q] \in Delivery /\ hand[w][q] # None
           /\ hand[w][q].event \in Events /\ hand[w][q].retries \in 0..MaxRetries
  BY DEF Typed, TypeOK, Engaged, Delivery

LEMMA DropTypes ==
    ASSUME Typed, NEW w \in Workers, NEW q \in Queues, Drop(w, q)
    PROVE  /\ hand' \in [Workers -> [Queues -> Delivery \cup {None}]]
           /\ step' \in [Workers -> [Queues -> {"idle", "handle", "failed", "ack"}]]
           /\ Engaged'
  BY DEF Typed, TypeOK, Engaged, Drop, Goto

LEMMA RejectTypes ==
    ASSUME Typed, NEW w \in Workers, NEW q \in Queues, step[w][q] # "idle", Reject(w, q)
    PROVE  Typed'
  <1>1. hand[w][q].event \in Events
    BY HandIsDelivery
  <1>2. dead' \in [Queues -> SUBSET Events]
    BY <1>1 DEF Typed, TypeOK, Reject
  <1>3. Drop(w, q) /\ UNCHANGED <<published, queue, handled, failures, faults>>
    BY DEF Reject
  <1>4. QED
    BY <1>2, <1>3, DropTypes DEF Typed, TypeOK

LEMMA ConsumeTypes ==
    ASSUME Typed, NEW w \in Workers, NEW q \in Queues, Consume(w, q)
    PROVE  Typed'
  <1>1. CASE Deliver(w, q)
    <2>1. Head(queue[q]) \in Delivery /\ Tail(queue[q]) \in Seq(Delivery)
      BY <1>1, HeadTailProperties DEF Typed, TypeOK, Deliver
    <2>2. QED
      BY <1>1, <2>1, NoneIsNew DEF Typed, TypeOK, Engaged, Deliver, Goto
  <1>2. CASE DecodeFails(w, q)
    BY <1>2, RejectTypes DEF DecodeFails
  <1>3. CASE Handle(w, q)
    <2>1. hand[w][q].event \in Events
      BY <1>3, HandIsDelivery DEF Handle
    <2>2. QED
      BY <1>3, <2>1 DEF Typed, TypeOK, Engaged, Handle, Goto
  <1>4. CASE HandleFails(w, q)
    <2>1. hand[w][q].event \in Events
      BY <1>4, HandIsDelivery DEF HandleFails
    <2>2. faults' \in Nat
      BY <1>4 DEF HandleFails, Fault, Typed, TypeOK
    <2>3. failures' \in [Queues -> [Events -> Nat]]
      BY <1>4, <2>1 DEF HandleFails, Typed, TypeOK
    <2>4. QED
      BY <1>4, <2>1, <2>2, <2>3 DEF Typed, TypeOK, Engaged, HandleFails, Goto
  <1>5. CASE DeadLetter(w, q)
    BY <1>5, RejectTypes DEF DeadLetter
  <1>6. CASE Republish(w, q)
    <2>1. hand[w][q] \in Delivery /\ hand[w][q].retries < MaxRetries
      BY <1>6, HandIsDelivery DEF Republish
    <2>2. [hand[w][q] EXCEPT !.retries = hand[w][q].retries + 1] \in Delivery
      BY <2>1, RetriesNat DEF Delivery
    <2>3. queue' \in [Queues -> Seq(Delivery)]
      BY <1>6, <2>2, RouteTypes DEF Typed, Republish
    <2>4. QED
      BY <1>6, <2>3 DEF Typed, TypeOK, Engaged, Republish, Goto
  <1>7. CASE Requeue(w, q)
    <2>1. hand[w][q] \in Delivery
      BY <1>7, HandIsDelivery DEF Requeue
    <2>2. <<hand[w][q]>> \o queue[q] \in Seq(Delivery)
      BY <2>1, ConcatKeeps DEF Typed, TypeOK
    <2>3. queue' \in [Queues -> Seq(Delivery)] /\ faults' \in Nat
      BY <1>7, <2>2 DEF Typed, TypeOK, Requeue, Fault
    <2>4. Drop(w, q) /\ UNCHANGED <<published, dead, handled, failures>>
      BY <1>7 DEF Requeue
    <2>5. QED
      BY <2>3, <2>4, DropTypes DEF Typed, TypeOK
  <1>8. CASE Ack(w, q)
    BY <1>8, DropTypes DEF Typed, TypeOK, Ack
  <1>9. QED
    BY <1>1, <1>2, <1>3, <1>4, <1>5, <1>6, <1>7, <1>8 DEF Consume

LEMMA HoldingTypes ==
    ASSUME Typed, NEW w \in Workers, NEW q \in Queues
    PROVE  Holding(w, q) \in Seq(Delivery)
  BY EmptySeq DEF Typed, TypeOK, Holding

LEMMA CrashTypes ==
    ASSUME Typed, NEW w \in Workers, Crash(w)
    PROVE  Typed'
  <1>1. \A q \in Queues : Holding(w, q) \o queue[q] \in Seq(Delivery)
    BY HoldingTypes, ConcatKeeps DEF Typed, TypeOK
  <1>2. queue' \in [Queues -> Seq(Delivery)] /\ faults' \in Nat
    BY <1>1 DEF Crash, Fault, Typed, TypeOK
  <1>3. QED
    BY <1>2 DEF Crash, Typed, TypeOK, Engaged

LEMMA PublishTypes ==
    ASSUME Typed, NEW e \in Events, Publish(e)
    PROVE  Typed'
  <1>1. [event |-> e, retries |-> 0] \in Delivery
    BY RetriesNat DEF Delivery
  <1>2. queue' \in [Queues -> Seq(Delivery)]
    BY <1>1, RouteTypes DEF Publish, Typed
  <1>3. QED
    BY <1>2 DEF Publish, Typed, TypeOK, Engaged

LEMMA NextTypes == Typed /\ [Next]_vars => Typed'
  <1> SUFFICES ASSUME Typed, [Next]_vars PROVE Typed'
    OBVIOUS
  <1>1. CASE UNCHANGED vars
    BY <1>1 DEF vars, Typed, TypeOK, Engaged
  <1>2. QED
    BY <1>1, PublishTypes, ConsumeTypes, CrashTypes DEF Next

(* Every variable keeps its type: counts of retries stay within the limit.   *)
THEOREM TypeCorrect == Spec => []TypeOK
  <1>1. QED
    BY InitTypes, NextTypes, PTL DEF Spec, Typed

-----------------------------------------------------------------------------
(* No loss *)

Kept(q, e) == e \in handled[q] \/ e \in dead[q] \/ Queued(q, e) \/ AtWork(q, e)

LEMMA RouteKeeps ==
    ASSUME TypeOK, NEW m \in Delivery, Route(m), NEW q \in Queues
    PROVE  Queued(q, m.event)' /\ \A e \in Events : Queued(q, e) => Queued(q, e)'
  <1>1. queue[q] \in Seq(Delivery) /\ queue'[q] = Append(queue[q], m)
    BY DEF TypeOK, Route
  <1>2. QED
    BY <1>1, ContainsAppend DEF Queued

\* The other consumers keep what they have in hand.
LEMMA OthersAtWork ==
    ASSUME Typed, NEW w \in Workers, NEW q \in Queues, NEW p \in Queues, NEW e \in Events,
           AtWork(p, e),
           \A v \in Workers : \A r \in Queues : <<v, r>> # <<w, q>> =>
               step'[v][r] = step[v][r] /\ hand'[v][r] = hand[v][r]
    PROVE  AtWork(p, e)' \/ (p = q /\ step[w][q] # "idle" /\ hand[w][q].event = e)
  <1>1. PICK v \in Workers : step[v][p] \in {"handle", "failed"} /\ hand[v][p].event = e
    BY DEF AtWork
  <1>2. CASE <<v, p>> = <<w, q>>
    BY <1>1, <1>2
  <1>3. CASE <<v, p>> # <<w, q>>
    <2>1. step'[v][p] = step[v][p] /\ hand'[v][p] = hand[v][p]
      BY <1>3
    <2>2. QED
      BY <1>1, <2>1 DEF AtWork
  <1>4. QED
    BY <1>2, <1>3

\* A step of one consumer that keeps the queues, the processed and the dead
\* events, and accounts for the event in its hands, keeps all.
LEMMA AccountedFor ==
    ASSUME Typed, NEW w \in Workers, NEW q \in Queues, NEW p \in Queues, NEW e \in Events,
           Kept(p, e),
           \A v \in Workers : \A r \in Queues : <<v, r>> # <<w, q>> =>
               step'[v][r] = step[v][r] /\ hand'[v][r] = hand[v][r],
           handled[p] \subseteq handled'[p], dead[p] \subseteq dead'[p],
           Queued(p, e) => Kept(p, e)',
           step[w][q] # "idle" /\ hand[w][q].event = e /\ p = q /\ AtWork(p, e)
               => Kept(p, e)'
    PROVE  Kept(p, e)'
  <1>1. CASE e \in handled[p] \/ e \in dead[p]
    BY <1>1 DEF Kept
  <1>2. CASE AtWork(p, e)
    <2>1. AtWork(p, e)' \/ (p = q /\ step[w][q] # "idle" /\ hand[w][q].event = e)
      BY <1>2, OthersAtWork
    <2>2. QED
      BY <1>2, <2>1 DEF Kept
  <1>3. QED
    BY <1>1, <1>2 DEF Kept

\* A consumer's step leaves the hands of the others alone.
LEMMA OthersUntouched ==
    ASSUME Typed, NEW w \in Workers, NEW q \in Queues, Consume(w, q)
    PROVE  \A v \in Workers : \A r \in Queues : <<v, r>> # <<w, q>> =>
               step'[v][r] = step[v][r] /\ hand'[v][r] = hand[v][r]
  BY DEF Typed, TypeOK, Consume, Deliver, DecodeFails, Handle, HandleFails, DeadLetter,
         Republish, Requeue, Ack, Reject, Drop, Goto

LEMMA ConsumeKeeps ==
    ASSUME Typed, NEW w \in Workers, NEW q \in Queues, Consume(w, q),
           NEW p \in DeadLettered \cap Queues, NEW e \in Events, Kept(p, e)
    PROVE  Kept(p, e)'
  <1>1. CASE Deliver(w, q)
    <2>1. queue[q] \in Seq(Delivery) /\ queue[q] # <<>>
      BY <1>1 DEF Typed, TypeOK, Deliver
    <2>2. /\ hand'[w][q] = Head(queue[q]) /\ step'[w][q] = "handle"
          /\ queue'[q] = Tail(queue[q])
          /\ \A r \in Queues : r # q => queue'[r] = queue[r]
          /\ UNCHANGED <<handled, dead>> /\ step[w][q] = "idle"
      BY <1>1 DEF Typed, TypeOK, Deliver, Goto
    <2>3. Queued(p, e) => Kept(p, e)'
      <3>1. CASE p = q
        <4>1. CASE Head(queue[q]).event = e
          BY <2>2, <3>1, <4>1 DEF Kept, AtWork
        <4>2. CASE Contains(Tail(queue[q]), e)
          BY <2>2, <3>1, <4>2 DEF Kept, Queued
        <4>3. QED
          BY <2>1, <3>1, <4>1, <4>2, ContainsTail DEF Queued
      <3>2. CASE p # q
        BY <2>2, <3>2 DEF Kept, Queued
      <3>3. QED
        BY <3>1, <3>2
    <2>4. QED
      BY OthersUntouched, AccountedFor, <2>2, <2>3
  <1>2. CASE DecodeFails(w, q) \/ DeadLetter(w, q)
    <2>1. step[w][q] # "idle" /\ Reject(w, q)
      BY <1>2 DEF DecodeFails, DeadLetter
    <2>2. hand[w][q].event \in Events /\ UNCHANGED <<queue, handled>>
      BY <2>1, HandIsDelivery DEF Reject
    <2>3. dead[p] \subseteq dead'[p] /\ (p = q => hand[w][q].event \in dead'[p])
      BY <2>1, <2>2 DEF Reject, Typed, TypeOK
    <2>4. Queued(p, e) => Kept(p, e)'
      BY <2>2 DEF Queued, Kept
    <2>5. QED
      BY OthersUntouched, AccountedFor, <2>2, <2>3, <2>4 DEF Kept
  <1>3. CASE Handle(w, q)
    <2>1. hand[w][q].event \in Events /\ UNCHANGED <<queue, dead>>
      BY <1>3, HandIsDelivery DEF Handle
    <2>2. handled[p] \subseteq handled'[p] /\ (p = q => hand[w][q].event \in handled'[p])
      BY <1>3, <2>1 DEF Handle, Typed, TypeOK
    <2>3. Queued(p, e) => Kept(p, e)'
      BY <2>1 DEF Queued, Kept
    <2>4. QED
      BY OthersUntouched, AccountedFor, <2>1, <2>2, <2>3 DEF Kept
  <1>4. CASE HandleFails(w, q)
    <2>1. UNCHANGED <<queue, dead, handled, hand>> /\ step'[w][q] = "failed"
      BY <1>4 DEF HandleFails, Goto, Typed, TypeOK
    <2>2. Queued(p, e) => Kept(p, e)'
      BY <2>1 DEF Queued, Kept
    <2>3. hand[w][q].event = e /\ p = q => AtWork(p, e)'
      BY <2>1 DEF AtWork
    <2>4. QED
      BY OthersUntouched, AccountedFor, <2>1, <2>2, <2>3 DEF Kept
  <1>5. CASE Republish(w, q)
    <2>1. hand[w][q] \in Delivery /\ hand[w][q].retries < MaxRetries
      BY <1>5, HandIsDelivery DEF Republish
    <2>2. PICK m \in Delivery : /\ m.event = hand[w][q].event
                                /\ Route(m)
      <3>1. [hand[w][q] EXCEPT !.retries = hand[w][q].retries + 1] \in Delivery
        BY <2>1, RetriesNat DEF Delivery
      <3>2. [hand[w][q] EXCEPT !.retries = hand[w][q].retries + 1].event = hand[w][q].event
        BY <2>1 DEF Delivery
      <3>3. Route([hand[w][q] EXCEPT !.retries = hand[w][q].retries + 1])
        BY <1>5 DEF Republish
      <3>4. QED
        BY <3>1, <3>2, <3>3
    <2>3. UNCHANGED <<dead, handled>>
      BY <1>5 DEF Republish
    <2>4. Queued(p, m.event)' /\ (Queued(p, e) => Queued(p, e)')
      BY <2>2, RouteKeeps DEF Typed
    <2>5. QED
      BY OthersUntouched, AccountedFor, <2>2, <2>3, <2>4 DEF Kept
  <1>6. CASE Requeue(w, q)
    <2>1. hand[w][q] \in Delivery /\ queue[q] \in Seq(Delivery)
      BY <1>6, HandIsDelivery DEF Requeue, Typed, TypeOK
    <2>2. /\ queue'[q] = <<hand[w][q]>> \o queue[q]
          /\ \A r \in Queues : r # q => queue'[r] = queue[r]
          /\ UNCHANGED <<dead, handled>>
      BY <1>6 DEF Requeue, Typed, TypeOK
    <2>3. Contains(queue[q], e) \/ Contains(<<hand[w][q]>>, e) => Contains(queue'[q], e)
      <3>1. <<hand[w][q]>> \in Seq(Delivery)
        BY <2>1
      <3>2. QED
        BY <2>1, <2>2, <3>1, ContainsConcat, Zenon
    <2>4. hand[w][q].event = e => Contains(queue'[q], e)
      BY <2>1, <2>3, ContainsOne
    <2>5. Queued(p, e) => Kept(p, e)'
      BY <2>2, <2>3 DEF Queued, Kept
    <2>6. hand[w][q].event = e /\ p = q => Kept(p, e)'
      BY <2>4 DEF Queued, Kept
    <2>7. QED
      BY OthersUntouched, AccountedFor, <2>2, <2>5, <2>6
  <1>7. CASE Ack(w, q)
    <2>1. UNCHANGED <<queue, dead, handled>> /\ step[w][q] = "ack"
      BY <1>7 DEF Ack
    <2>2. Queued(p, e) => Kept(p, e)'
      BY <2>1 DEF Queued, Kept
    <2>3. AtWork(p, e) => AtWork(p, e)'
      <3> SUFFICES ASSUME NEW v \in Workers, step[v][p] \in {"handle", "failed"},
                          hand[v][p].event = e
                   PROVE  AtWork(p, e)'
        BY DEF AtWork
      <3>1. <<v, p>> # <<w, q>>
        BY <2>1
      <3>2. step'[v][p] = step[v][p] /\ hand'[v][p] = hand[v][p]
        BY <3>1, OthersUntouched
      <3>3. QED
        BY <3>2 DEF AtWork
    <2>4. QED
      BY <2>1, <2>2, <2>3 DEF Kept
  <1>8. QED
    BY <1>1, <1>2, <1>3, <1>4, <1>5, <1>6, <1>7 DEF Consume

LEMMA CrashKeeps ==
    ASSUME Typed, NEW w \in Workers, Crash(w), NEW p \in Queues, NEW e \in Events, Kept(p, e)
    PROVE  Kept(p, e)'
  <1>1. Holding(w, p) \in Seq(Delivery) /\ queue[p] \in Seq(Delivery)
    BY HoldingTypes DEF Typed, TypeOK
  <1>2. queue'[p] = Holding(w, p) \o queue[p] /\ UNCHANGED <<dead, handled>>
    BY DEF Crash
  <1>3. Contains(queue[p], e) \/ Contains(Holding(w, p), e) => Contains(queue'[p], e)
    BY <1>1, <1>2, ContainsConcat
  <1>4. Queued(p, e) => Queued(p, e)'
    BY <1>3 DEF Queued
  <1>5. ASSUME NEW v \in Workers, step[v][p] \in {"handle", "failed"}, hand[v][p].event = e
        PROVE  Queued(p, e)' \/ AtWork(p, e)'
    <2>1. CASE v = w
      <3>1. hand[w][p] \in Delivery /\ hand[w][p] # None
        BY <1>5, <2>1, HandIsDelivery
      <3>2. Contains(Holding(w, p), e)
        BY <1>5, <2>1, <3>1, ContainsOne DEF Holding
      <3>3. QED
        BY <1>3, <3>2 DEF Queued
    <2>2. CASE v # w
      <3>1. step'[v][p] = step[v][p] /\ hand'[v][p] = hand[v][p]
        BY <2>2 DEF Crash, Typed, TypeOK
      <3>2. QED
        BY <1>5, <3>1 DEF AtWork
    <2>3. QED
      BY <2>1, <2>2
  <1>6. QED
    BY <1>2, <1>4, <1>5 DEF Kept, AtWork

\* The strengthening: types, and what a consumer holds.
LEMMA InitIInv == Init => IInv
  BY InitTypes DEF Init, Typed, IInv, NothingLost

LEMMA NextIInv == IInv /\ [Next]_vars => IInv'
  <1> SUFFICES ASSUME IInv, [Next]_vars PROVE IInv'
    OBVIOUS
  <1>1. Typed /\ Typed'
    BY NextTypes DEF IInv, Typed
  <1>2. \A q \in DeadLettered \cap Queues : \A e \in published : e \in Events /\ Kept(q, e)
    BY <1>1 DEF IInv, NothingLost, Kept, Typed, TypeOK
  <1>3. NothingLost'
    <2> SUFFICES ASSUME NEW q \in DeadLettered \cap Queues, NEW e \in published'
                 PROVE  Kept(q, e)'
      BY DEF NothingLost, Kept
    <2>1. CASE UNCHANGED vars
      BY <1>2, <2>1 DEF vars, Kept, Queued, AtWork
    <2>2. ASSUME NEW f \in Events, Publish(f) PROVE Kept(q, e)'
      <3> DEFINE m == [event |-> f, retries |-> 0]
      <3>1. m \in Delivery /\ m.event = f
        BY RetriesNat DEF Delivery
      <3>2. Route(m) /\ published' = published \cup {f} /\ UNCHANGED <<dead, hand, step, handled>>
        BY <2>2 DEF Publish
      <3> HIDE DEF m
      <3>3. Queued(q, f)' /\ \A d \in Events : Queued(q, d) => Queued(q, d)'
        BY <1>1, <3>1, <3>2, RouteKeeps DEF Typed
      <3>4. CASE e = f
        BY <3>3, <3>4 DEF Kept
      <3>5. CASE e # f
        <4>1. e \in Events /\ Kept(q, e)
          BY <1>2, <3>2, <3>5
        <4>2. AtWork(q, e) => AtWork(q, e)'
          BY <3>2 DEF AtWork
        <4>3. QED
          BY <3>2, <3>3, <4>1, <4>2 DEF Kept
      <3>6. QED
        BY <3>4, <3>5
    <2>3. ASSUME NEW w \in Workers, NEW r \in Queues, Consume(w, r) PROVE Kept(q, e)'
      <3>1. published' = published
        BY <2>3 DEF Consume, Deliver, DecodeFails, Handle, HandleFails, DeadLetter,
                    Republish, Requeue, Ack, Reject
      <3>2. e \in Events /\ Kept(q, e)
        BY <1>2, <3>1
      <3>3. QED
        BY <1>1, <2>3, <3>2, ConsumeKeeps
    <2>4. ASSUME NEW w \in Workers, Crash(w) PROVE Kept(q, e)'
      <3>1. published' = published
        BY <2>4 DEF Crash
      <3>2. e \in Events /\ Kept(q, e)
        BY <1>2, <3>1
      <3>3. QED
        BY <1>1, <2>4, <3>2, CrashKeeps
    <2>5. QED
      BY <2>1, <2>2, <2>3, <2>4 DEF Next
  <1>4. QED
    BY <1>1, <1>3 DEF IInv, Typed

(* Whatever handlers, publications or processes fail, a published event is   *)
(* always processed, dead-lettered, queued or at work, for every queue.      *)
THEOREM NoMessageLost == Spec => []NothingLost
  <1>1. IInv => NothingLost
    BY DEF IInv
  <1>2. QED
    BY <1>1, InitIInv, NextIInv, PTL DEF Spec

-----------------------------------------------------------------------------
(* Counting. A copy of an event may still fail as often as it has runs left: *)
(* a set of pairs holds one pair for each run of each copy.                  *)

Runs == 0..MaxRetries

\* `f` gives to each member of `S` a set of runs; these are all of them.
Pairs(S, f) == {t \in S \X Runs : t[2] \in f[t[1]]}

LEMMA RunsFinite == IsFiniteSet(Runs) /\ \A T \in SUBSET Runs : IsFiniteSet(T) /\ Cardinality(T) \in Nat
  <1>1. IsFiniteSet(Runs)
    BY RetriesNat, FS_Interval DEF Runs
  <1>2. ASSUME NEW T \in SUBSET Runs PROVE IsFiniteSet(T) /\ Cardinality(T) \in Nat
    BY <1>1, <1>2, FS_Subset, FS_CardinalityType
  <1> QED
    BY <1>1, <1>2

LEMMA PairsFinite ==
    ASSUME NEW S, IsFiniteSet(S), NEW f
    PROVE  IsFiniteSet(Pairs(S, f)) /\ Cardinality(Pairs(S, f)) \in Nat
  <1>1. IsFiniteSet(S \X Runs)
    BY RunsFinite, FS_Product
  <1>2. IsFiniteSet(Pairs(S, f))
    BY <1>1, FS_Subset DEF Pairs
  <1> QED
    BY <1>2, FS_CardinalityType

\* One member's runs, and those of the others.
LEMMA PairsSplit ==
    ASSUME NEW S, IsFiniteSet(S), NEW f, NEW x \in S, f[x] \in SUBSET Runs
    PROVE  Cardinality(Pairs(S, f)) = Cardinality(f[x]) + Cardinality(Pairs(S \ {x}, f))
  <1> DEFINE A == {x} \X f[x]
             B == Pairs(S \ {x}, f)
  <1>1. Pairs(S, f) = A \cup B /\ A \cap B = {}
    BY DEF Pairs
  <1>2. IsFiniteSet(f[x])
    BY RunsFinite
  <1>3. IsFiniteSet({x}) /\ Cardinality({x}) = 1
    BY FS_Singleton
  <1>4. IsFiniteSet(A) /\ Cardinality(A) = Cardinality(f[x])
    BY <1>2, <1>3, FS_Product, FS_CardinalityType
  <1>5. IsFiniteSet(S \ {x})
    BY FS_Difference
  <1>6. IsFiniteSet(B)
    BY <1>5, PairsFinite
  <1>7. Cardinality(A \cap B) = 0
    BY <1>1, FS_EmptySet
  <1> HIDE DEF A, B
  <1>8. Cardinality(A \cup B) = Cardinality(A) + Cardinality(B) - Cardinality(A \cap B)
    BY <1>4, <1>6, FS_Union
  <1>9. Cardinality(A) \in Nat /\ Cardinality(B) \in Nat
    BY <1>4, <1>6, FS_CardinalityType
  <1> QED
    BY <1>1, <1>4, <1>7, <1>8, <1>9 DEF B

\* The number depends on the members only through their runs.
LEMMA PairsMoved ==
    ASSUME NEW S, NEW T, IsFiniteSet(S), NEW f, NEW g,
           NEW m \in Bijection(S, T), \A x \in S : f[x] = g[m[x]]
    PROVE  Cardinality(Pairs(S, f)) = Cardinality(Pairs(T, g))
  <1> DEFINE n == [t \in Pairs(S, f) |-> <<m[t[1]], t[2]>>]
  <1>1. /\ m \in [S -> T] /\ \A a, b \in S : m[a] = m[b] => a = b
        /\ \A y \in T : \E x \in S : m[x] = y
    BY Fun_BijectionProperties
  <1>2. n \in [Pairs(S, f) -> Pairs(T, g)]
    BY <1>1 DEF Pairs
  <1>3. \A a, b \in Pairs(S, f) : n[a] = n[b] => a = b
    BY <1>1 DEF Pairs
  <1>4. ASSUME NEW u \in Pairs(T, g) PROVE \E t \in Pairs(S, f) : n[t] = u
    <2>1. PICK x \in S : m[x] = u[1]
      BY <1>1 DEF Pairs
    <2>2. <<x, u[2]>> \in Pairs(S, f) /\ u = <<u[1], u[2]>>
      BY <2>1 DEF Pairs
    <2> QED
      BY <2>1, <2>2
  <1>5. n \in Bijection(Pairs(S, f), Pairs(T, g))
    <2> HIDE DEF n
    <2> QED
      BY <1>2, <1>3, <1>4, Fun_IsBij
  <1> QED
    BY <1>5, PairsFinite, FS_Bijection DEF ExistsBijection

\* The runs that the copy `m`, or the copies in a queue, leave to event `e`.
Own(m, e) == {k \in Runs : m.event = e /\ m.retries <= k}
Owns(s, e) == [i \in DOMAIN s |-> Own(s[i], e)]
RunsIn(s, e) == Cardinality(Pairs(DOMAIN s, Owns(s, e)))

LEMMA OwnSize ==
    ASSUME NEW m \in Delivery, NEW e
    PROVE  Cardinality(Own(m, e)) = IF m.event = e THEN MaxRetries + 1 - m.retries ELSE 0
  <1>1. CASE m.event = e
    <2>1. Own(m, e) = m.retries .. MaxRetries
      BY <1>1, RetriesNat DEF Own, Runs, Delivery
    <2> QED
      BY <1>1, <2>1, FS_Interval, RetriesNat DEF Delivery
  <1>2. CASE m.event # e
    BY <1>2, FS_EmptySet DEF Own
  <1> QED
    BY <1>1, <1>2

LEMMA RunsInNat == ASSUME NEW s \in Seq(Delivery), NEW e
                   PROVE  RunsIn(s, e) \in Nat /\ IsFiniteSet(DOMAIN s)
  <1>1. DOMAIN s = 1..Len(s) /\ Len(s) \in Nat
    OBVIOUS
  <1>2. IsFiniteSet(DOMAIN s)
    BY <1>1, FS_Interval
  <1> QED
    BY <1>2, PairsFinite DEF RunsIn

LEMMA RunsInEmpty == ASSUME NEW e PROVE RunsIn(<<>>, e) = 0
  <1>1. Pairs(DOMAIN <<>>, Owns(<<>>, e)) = {}
    BY DEF Pairs
  <1> QED
    BY <1>1, FS_EmptySet DEF RunsIn

LEMMA RunsInTail ==
    ASSUME NEW s \in Seq(Delivery), s # <<>>, NEW e
    PROVE  RunsIn(s, e) = Cardinality(Own(Head(s), e)) + RunsIn(Tail(s), e)
  <1> DEFINE t == Tail(s)
             m == [i \in DOMAIN t |-> i + 1]
  <1>1. /\ t \in Seq(Delivery) /\ Len(t) = Len(s) - 1
        /\ \A i \in DOMAIN t : t[i] = s[i + 1]
        /\ DOMAIN s = 1..Len(s) /\ DOMAIN t = 1..Len(t) /\ Len(s) \in Nat /\ Len(s) > 0
    BY HeadTailProperties
  <1>2. 1 \in DOMAIN s /\ Head(s) = s[1] /\ Owns(s, e)[1] = Own(Head(s), e)
    BY <1>1 DEF Owns
  <1>3. m \in Bijection(DOMAIN t, DOMAIN s \ {1})
    <2>1. m \in [DOMAIN t -> DOMAIN s \ {1}]
      BY <1>1
    <2>2. \A a, b \in DOMAIN t : m[a] = m[b] => a = b
      BY <1>1
    <2>3. ASSUME NEW u \in DOMAIN s \ {1} PROVE \E i \in DOMAIN t : m[i] = u
      <3>1. u - 1 \in DOMAIN t /\ m[u - 1] = u
        BY <1>1
      <3> QED
        BY <3>1
    <2> HIDE DEF m
    <2> QED
      BY <2>1, <2>2, <2>3, Fun_IsBij
  <1>4. \A i \in DOMAIN t : Owns(t, e)[i] = Owns(s, e)[m[i]]
    BY <1>1 DEF Owns
  <1>5. Cardinality(Pairs(DOMAIN t, Owns(t, e))) = Cardinality(Pairs(DOMAIN s \ {1}, Owns(s, e)))
    <2>1. IsFiniteSet(DOMAIN t)
      BY <1>1, RunsInNat
    <2> HIDE DEF m, t
    <2> QED
      BY <2>1, <1>3, <1>4, PairsMoved
  <1>6. Owns(s, e)[1] \in SUBSET Runs
    BY <1>2 DEF Own
  <1>7. Cardinality(Pairs(DOMAIN s, Owns(s, e)))
        = Cardinality(Owns(s, e)[1]) + Cardinality(Pairs(DOMAIN s \ {1}, Owns(s, e)))
    BY <1>2, <1>6, RunsInNat, PairsSplit
  <1> QED
    BY <1>2, <1>5, <1>7 DEF RunsIn

LEMMA RunsInAppend ==
    ASSUME NEW s \in Seq(Delivery), NEW m \in Delivery, NEW e
    PROVE  RunsIn(Append(s, m), e) = Cardinality(Own(m, e)) + RunsIn(s, e)
  <1> DEFINE t == Append(s, m)
             n == Len(s) + 1
  <1>1. /\ t \in Seq(Delivery) /\ DOMAIN t = 1..n /\ DOMAIN s = 1..Len(s) /\ Len(s) \in Nat
        /\ t[n] = m /\ \A i \in DOMAIN s : t[i] = s[i]
    OBVIOUS
  <1> HIDE DEF t
  <1>2. n \in DOMAIN t /\ Owns(t, e)[n] = Own(m, e) /\ DOMAIN t \ {n} = DOMAIN s
    BY <1>1 DEF Owns
  <1>3. Pairs(DOMAIN s, Owns(t, e)) = Pairs(DOMAIN s, Owns(s, e))
    <2>1. \A i \in DOMAIN s : Owns(t, e)[i] = Owns(s, e)[i]
      BY <1>1 DEF Owns
    <2> QED
      BY <2>1 DEF Pairs
  <1>4. Owns(t, e)[n] \in SUBSET Runs
    BY <1>2 DEF Own
  <1>5. Cardinality(Pairs(DOMAIN t, Owns(t, e)))
        = Cardinality(Owns(t, e)[n]) + Cardinality(Pairs(DOMAIN t \ {n}, Owns(t, e)))
    <2> HIDE DEF n
    <2> QED
      BY <1>1, <1>2, <1>4, RunsInNat, PairsSplit
  <1> QED
    BY <1>2, <1>3, <1>5 DEF RunsIn, t

LEMMA RunsInCons ==
    ASSUME NEW s \in Seq(Delivery), NEW m \in Delivery, NEW e
    PROVE  /\ <<m>> \o s \in Seq(Delivery)
           /\ RunsIn(<<m>> \o s, e) = Cardinality(Own(m, e)) + RunsIn(s, e)
  <1>1. <<m>> \o s \in Seq(Delivery) /\ Len(<<m>> \o s) = Len(s) + 1
    OBVIOUS
  <1>2. <<m>> \o s # <<>> /\ Head(<<m>> \o s) = m
    OBVIOUS
  <1>3. Tail(<<m>> \o s) = s
    OBVIOUS
  <1> QED
    BY <1>1, <1>2, <1>3, RunsInTail

-----------------------------------------------------------------------------
(* The budget of retries, with one queue bound to the routing key            *)

\* The runs that a delivery in a worker's hands leaves to event `e`: a run that
\* has failed is counted; a delivery about to be acknowledged leaves none.
Held(m, next, e) ==
    {k \in Own(m, e) : next = "handle" \/ (next = "failed" /\ k # m.retries)}

Grip(w, q, e) == Held(hand[w][q], step[w][q], e)

Grips(q, e) == [w \in Workers |-> Grip(w, q, e)]

RunsAtWork(q, e) == Cardinality(Pairs(Workers, Grips(q, e)))

\* Failures so far and runs left, at the price of the publication and each fault.
Within(q, e) ==
    failures[q][e] + RunsIn(queue[q], e) + RunsAtWork(q, e)
        <= (MaxRetries + 1) * (faults + (IF e \in published THEN 1 ELSE 0))

Budgeted(q) == \A e \in Events : Within(q, e)

LEMMA HeldSize ==
    ASSUME NEW m, NEW next, NEW e, next \in {"handle", "failed"} => m \in Delivery
    PROVE  /\ Held(m, next, e) \in SUBSET Runs
           /\ Cardinality(Held(m, next, e)) =
                IF next \in {"handle", "failed"} /\ m.event = e
                THEN MaxRetries - m.retries + (IF next = "handle" THEN 1 ELSE 0)
                ELSE 0
           /\ Cardinality(Held(m, next, e)) \in Nat
  <1>0. Held(m, next, e) \in SUBSET Runs /\ Cardinality(Held(m, next, e)) \in Nat
    <2>1. Held(m, next, e) \in SUBSET Runs
      BY DEF Held, Own
    <2> QED
      BY <2>1, RunsFinite
  <1>1. CASE next = "handle"
    <2>1. Held(m, next, e) = Own(m, e)
      BY <1>1 DEF Held
    <2>2. m \in Delivery /\ m.retries \in 0..MaxRetries
      BY <1>1 DEF Delivery
    <2>3. Cardinality(Own(m, e)) = IF m.event = e THEN MaxRetries + 1 - m.retries ELSE 0
      BY <2>2, OwnSize
    <2> QED
      BY <1>0, <1>1, <2>1, <2>2, <2>3, RetriesNat
  <1>2. CASE next = "failed" /\ m.event = e
    <2>1. m \in Delivery /\ m.retries \in 0..MaxRetries
      BY <1>2 DEF Delivery
    <2>2. Held(m, next, e) = (m.retries + 1) .. MaxRetries
      BY <1>2, <2>1, RetriesNat DEF Held, Own, Runs
    <2>3. Cardinality((m.retries + 1) .. MaxRetries)
          = IF m.retries + 1 > MaxRetries THEN 0 ELSE MaxRetries - (m.retries + 1) + 1
      <3>1. m.retries + 1 \in Int /\ MaxRetries \in Int
        BY <2>1, RetriesNat
      <3> QED
        BY <3>1, FS_Interval
    <2> QED
      BY <1>0, <1>2, <2>1, <2>2, <2>3, RetriesNat
  <1>3. CASE ~(next \in {"handle", "failed"} /\ m.event = e)
    <2>1. Held(m, next, e) = {}
      BY <1>3 DEF Held, Own
    <2> QED
      BY <1>0, <1>3, <2>1, FS_EmptySet
  <1> QED
    BY <1>1, <1>2, <1>3

\* A step of one worker moves only its own runs.
LEMMA OneWorkerMoves ==
    ASSUME IsFiniteSet(Workers), NEW w \in Workers, NEW q \in Queues, NEW e,
           \A v \in Workers \ {w} : hand'[v][q] = hand[v][q] /\ step'[v][q] = step[v][q]
    PROVE  RunsAtWork(q, e)' + Cardinality(Grip(w, q, e))
           = RunsAtWork(q, e) + Cardinality(Grip(w, q, e)')
  <1> DEFINE Rest == Pairs(Workers \ {w}, Grips(q, e))
  <1>1. \A v \in Workers \ {w} : Grips(q, e)'[v] = Grips(q, e)[v]
    BY DEF Grips, Grip
  <1>2. Pairs(Workers \ {w}, Grips(q, e)') = Rest
    BY <1>1 DEF Pairs
  <1>3. /\ Grips(q, e)[w] = Grip(w, q, e) /\ Grips(q, e)'[w] = Grip(w, q, e)'
        /\ Grip(w, q, e) \in SUBSET Runs /\ Grip(w, q, e)' \in SUBSET Runs
    BY DEF Grips, Grip, Held, Own
  <1>4. RunsAtWork(q, e) = Cardinality(Grip(w, q, e)) + Cardinality(Rest)
    BY <1>3, PairsSplit DEF RunsAtWork
  <1>5. RunsAtWork(q, e)' = Cardinality(Grip(w, q, e)') + Cardinality(Rest)
    <2>1. Cardinality(Pairs(Workers, Grips(q, e)'))
          = Cardinality(Grips(q, e)'[w]) + Cardinality(Pairs(Workers \ {w}, Grips(q, e)'))
      BY <1>3, PairsSplit
    <2> QED
      BY <2>1, <1>2, <1>3 DEF RunsAtWork
  <1>6. /\ Cardinality(Rest) \in Nat /\ Cardinality(Grip(w, q, e)) \in Nat
        /\ Cardinality(Grip(w, q, e)') \in Nat
    BY <1>3, RunsFinite, PairsFinite, FS_Difference
  <1> QED
    BY <1>4, <1>5, <1>6

\* The price of one more fault.
LEMMA FaultPays ==
    ASSUME NEW f \in Nat, NEW b \in {0, 1}
    PROVE  (MaxRetries + 1) * ((f + 1) + b) = (MaxRetries + 1) * (f + b) + MaxRetries + 1
  BY RetriesNat

\* What a step of worker `w` costs: its own runs, those in the queue, and failures.
Cost(w, q, e) == failures[q][e] + RunsIn(queue[q], e) + Cardinality(Grip(w, q, e))

\* A step that costs nothing, or no more than a fault pays for, stays within the budget.
LEMMA StepPays ==
    ASSUME Typed, Typed', IsFiniteSet(Workers), NEW q \in Queues, NEW w \in Workers,
           NEW e \in Events, Within(q, e), published' = published,
           \A v \in Workers \ {w} : hand'[v][q] = hand[v][q] /\ step'[v][q] = step[v][q],
           \/ faults' = faults /\ Cost(w, q, e)' <= Cost(w, q, e)
           \/ faults' = faults + 1 /\ Cost(w, q, e)' <= Cost(w, q, e) + MaxRetries + 1
    PROVE  Within(q, e)'
  <1> DEFINE g == Cardinality(Grip(w, q, e))
             h == Cardinality(Grip(w, q, e)')
             b == IF e \in published THEN 1 ELSE 0
             free == (MaxRetries + 1) * (faults + b)
  <1>1. queue[q] \in Seq(Delivery) /\ queue'[q] \in Seq(Delivery)
    BY DEF Typed, TypeOK
  <1>2. g \in Nat /\ h \in Nat
    <2>1. /\ step[w][q] \in {"handle", "failed"} => hand[w][q] \in Delivery
          /\ step'[w][q] \in {"handle", "failed"} => hand'[w][q] \in Delivery
      BY DEF Typed, TypeOK, Engaged
    <2> QED
      BY <2>1, HeldSize DEF Grip
  <1>3. /\ failures[q][e] \in Nat /\ faults \in Nat /\ failures'[q][e] \in Nat /\ faults' \in Nat
        /\ RunsAtWork(q, e) \in Nat /\ RunsAtWork(q, e)' \in Nat
        /\ RunsIn(queue[q], e) \in Nat /\ RunsIn(queue'[q], e) \in Nat
    BY <1>1, RunsInNat, PairsFinite DEF Typed, TypeOK, RunsAtWork
  <1>4. RunsAtWork(q, e)' + g = RunsAtWork(q, e) + h
    BY OneWorkerMoves
  <1>5. b \in {0, 1} /\ b = IF e \in published' THEN 1 ELSE 0
    OBVIOUS
  <1>6. failures[q][e] + RunsIn(queue[q], e) + RunsAtWork(q, e) <= free
    BY DEF Within
  <1>7. \/ /\ faults' = faults
           /\ failures'[q][e] + RunsIn(queue'[q], e) + h <= failures[q][e] + RunsIn(queue[q], e) + g
        \/ /\ faults' = faults + 1
           /\ failures'[q][e] + RunsIn(queue'[q], e) + h
                 <= failures[q][e] + RunsIn(queue[q], e) + g + MaxRetries + 1
    BY DEF Cost
  <1> HIDE DEF g, h, b
  <1>8. free \in Nat
    BY <1>3, <1>5, RetriesNat
  <1>9. failures'[q][e] + RunsIn(queue'[q], e) + RunsAtWork(q, e)' <= (MaxRetries + 1) * (faults' + b)
    <2>1. CASE faults' = faults
      <3> HIDE DEF free
      <3>1. failures'[q][e] + RunsIn(queue'[q], e) + RunsAtWork(q, e)' <= free
        BY <2>1, <1>2, <1>3, <1>4, <1>6, <1>7, <1>8
      <3> QED
        BY <2>1, <3>1 DEF free
    <2>2. CASE faults' = faults + 1
      <3>1. (MaxRetries + 1) * (faults' + b) = free + MaxRetries + 1
        BY <2>2, <1>3, <1>5, FaultPays
      <3> HIDE DEF free
      <3> QED
        BY <2>2, <3>1, <1>2, <1>3, <1>4, <1>6, <1>7, <1>8, RetriesNat
    <2> QED
      BY <1>7, <2>1, <2>2
  <1> QED
    BY <1>5, <1>9 DEF Within

LEMMA ConsumeBudgeted ==
    ASSUME Typed, Typed', IsFiniteSet(Workers), NEW q, Queues = {q},
           NEW w \in Workers, Consume(w, q), NEW e \in Events, Within(q, e)
    PROVE  Within(q, e)'
  <1> DEFINE m == hand[w][q]
             g == Cardinality(Grip(w, q, e))
             h == Cardinality(Grip(w, q, e)')
  <1>1. q \in Queues /\ queue[q] \in Seq(Delivery) /\ queue'[q] \in Seq(Delivery)
    BY DEF Typed, TypeOK
  <1>0. /\ step[w][q] \in {"handle", "failed"} => m \in Delivery
        /\ step'[w][q] \in {"handle", "failed"} => hand'[w][q] \in Delivery
    BY <1>1 DEF Typed, TypeOK, Engaged
  <1>2. /\ g = IF step[w][q] \in {"handle", "failed"} /\ m.event = e
               THEN MaxRetries - m.retries + (IF step[w][q] = "handle" THEN 1 ELSE 0) ELSE 0
        /\ g \in Nat
    BY <1>0, HeldSize DEF Grip
  <1>3. /\ h = IF step'[w][q] \in {"handle", "failed"} /\ hand'[w][q].event = e
               THEN MaxRetries - hand'[w][q].retries + (IF step'[w][q] = "handle" THEN 1 ELSE 0) ELSE 0
        /\ h \in Nat
    BY <1>0, HeldSize DEF Grip
  <1>4. /\ failures[q][e] \in Nat /\ RunsIn(queue[q], e) \in Nat
        /\ faults \in Nat
        /\ failures'[q][e] \in Nat /\ RunsIn(queue'[q], e) \in Nat
        /\ faults' \in Nat
    <2>1. /\ failures[q][e] \in Nat /\ faults \in Nat
          /\ failures'[q][e] \in Nat /\ faults' \in Nat
      BY <1>1 DEF Typed, TypeOK
    <2> QED
      BY <1>1, <2>1, RunsInNat
  <1>5. step[w][q] # "idle" => m \in Delivery /\ m.retries \in 0..MaxRetries
    BY <1>1, HandIsDelivery
  <1>6. published' = published
    BY DEF Consume, Deliver, DecodeFails, Handle, HandleFails, DeadLetter, Republish,
           Requeue, Ack, Reject
  <1>7. \A v \in Workers \ {w} : hand'[v][q] = hand[v][q] /\ step'[v][q] = step[v][q]
    BY <1>1 DEF Typed, TypeOK, Consume, Deliver, DecodeFails, Handle, HandleFails, DeadLetter,
                Republish, Requeue, Ack, Reject, Drop, Goto
  <1>8. SUFFICES \/ /\ faults' = faults
                    /\ failures'[q][e] + RunsIn(queue'[q], e) + h <= failures[q][e] + RunsIn(queue[q], e) + g
                 \/ /\ faults' = faults + 1
                    /\ failures'[q][e] + RunsIn(queue'[q], e) + h
                          <= failures[q][e] + RunsIn(queue[q], e) + g + MaxRetries + 1
    BY <1>1, <1>6, <1>7, StepPays DEF Cost
  <1> HIDE DEF g, h
  <1>10. CASE Deliver(w, q)
    <2>1. step[w][q] = "idle" /\ queue[q] # <<>> /\ queue'[q] = Tail(queue[q])
      BY <1>1, <1>10 DEF Deliver, Typed, TypeOK
    <2>2. hand'[w][q] = Head(queue[q]) /\ step'[w][q] = "handle" /\ UNCHANGED <<failures, faults>>
      BY <1>1, <1>10 DEF Deliver, Goto, Typed, TypeOK
    <2>3. Head(queue[q]) \in Delivery
      BY <1>1, <2>1, HeadTailProperties
    <2>4. Cardinality(Own(Head(queue[q]), e)) = h
      BY <1>3, <2>2, <2>3, OwnSize, RetriesNat DEF Delivery
    <2>5. RunsIn(queue[q], e) = h + RunsIn(queue'[q], e)
      BY <1>1, <2>1, <2>4, RunsInTail
    <2>6. g = 0 /\ h \in Nat
      BY <1>2, <1>3, <2>1
    <2> QED
      BY <1>4, <2>2, <2>5, <2>6
  <1>11. ASSUME Drop(w, q), UNCHANGED <<queue, failures, faults>>, step[w][q] # "idle"
         PROVE  failures'[q][e] + RunsIn(queue'[q], e) + h <= failures[q][e] + RunsIn(queue[q], e) + g
    <2>1. h = 0
      BY <1>1, <1>3, <1>11 DEF Drop, Goto, Typed, TypeOK
    <2>2. g \in Nat
      BY <1>2
    <2> QED
      BY <1>4, <1>11, <2>1, <2>2
  <1>12. CASE DecodeFails(w, q) \/ DeadLetter(w, q) \/ Ack(w, q)
    BY <1>11, <1>12 DEF DecodeFails, DeadLetter, Ack, Reject
  <1>13. CASE Handle(w, q)
    <2>1. h = 0 /\ UNCHANGED <<queue, failures, faults>>
      BY <1>1, <1>3, <1>13 DEF Handle, Goto, Typed, TypeOK
    <2>2. g \in Nat
      BY <1>2
    <2> QED
      BY <1>4, <2>1, <2>2
  <1>14. CASE HandleFails(w, q)
    <2>1. /\ step[w][q] = "handle" /\ step'[w][q] = "failed" /\ UNCHANGED <<queue, hand>>
          /\ failures' = [failures EXCEPT ![q][m.event] = @ + 1]
          /\ faults' = faults \/ faults' = faults + 1
      BY <1>1, <1>14 DEF HandleFails, Fault, Goto, Typed, TypeOK
    <2>2. m \in Delivery /\ m.retries \in 0..MaxRetries
      BY <1>5, <2>1
    <2>3. failures'[q][e] = IF m.event = e THEN failures[q][e] + 1 ELSE failures[q][e]
      BY <1>1, <2>1, <2>2 DEF Typed, TypeOK, Delivery
    <2>4. h = IF m.event = e THEN g - 1 ELSE g
      BY <1>2, <1>3, <2>1, <2>2, RetriesNat
    <2>5. g \in Nat
      BY <1>2
    <2> QED
      BY <1>4, <2>1, <2>3, <2>4, <2>5, RetriesNat
  <1>15. CASE Republish(w, q)
    <2> DEFINE n == [m EXCEPT !.retries = m.retries + 1]
    <2>1. /\ step[w][q] = "failed" /\ m.retries < MaxRetries /\ step'[w][q] = "ack"
          /\ queue'[q] = Append(queue[q], n) /\ UNCHANGED <<failures, faults>>
      BY <1>1, <1>15 DEF Republish, Route, Goto, Typed, TypeOK
    <2>2. m \in Delivery /\ m.retries \in 0..MaxRetries
      BY <1>5, <2>1
    <2>3. n \in Delivery /\ n.event = m.event /\ n.retries = m.retries + 1
      BY <2>1, <2>2, RetriesNat DEF Delivery
    <2> HIDE DEF n
    <2>4. Cardinality(Own(n, e)) = g
      BY <1>2, <2>1, <2>2, <2>3, OwnSize, RetriesNat
    <2>5. RunsIn(queue'[q], e) = g + RunsIn(queue[q], e)
      BY <1>1, <2>1, <2>3, <2>4, RunsInAppend
    <2>6. h = 0 /\ g \in Nat
      BY <1>2, <1>3, <2>1
    <2> QED
      BY <1>4, <2>1, <2>5, <2>6
  <1>16. CASE Requeue(w, q)
    <2>1. /\ step[w][q] = "failed" /\ step'[w][q] = "idle" /\ faults' = faults + 1
          /\ queue'[q] = <<m>> \o queue[q] /\ UNCHANGED failures
      BY <1>1, <1>16 DEF Requeue, Drop, Goto, Fault, Typed, TypeOK
    <2>2. m \in Delivery /\ m.retries \in 0..MaxRetries
      BY <1>5, <2>1
    <2>3. Cardinality(Own(m, e)) \in 0..(g + 1)
      <3>1. Cardinality(Own(m, e)) = IF m.event = e THEN MaxRetries + 1 - m.retries ELSE 0
        BY <2>2, OwnSize
      <3>2. g = IF m.event = e THEN MaxRetries - m.retries ELSE 0
        BY <1>2, <2>1, <2>2, RetriesNat
      <3> QED
        BY <3>1, <3>2, <2>2, RetriesNat
    <2>4. RunsIn(queue'[q], e) = Cardinality(Own(m, e)) + RunsIn(queue[q], e)
      BY <1>1, <2>1, <2>2, RunsInCons
    <2>5. h = 0 /\ g \in Nat
      BY <1>2, <1>3, <2>1
    <2> QED
      BY <1>4, <2>1, <2>3, <2>4, <2>5, RetriesNat
  <1> QED
    BY <1>10, <1>12, <1>13, <1>14, <1>15, <1>16, <1>4 DEF Consume

LEMMA CrashBudgeted ==
    ASSUME Typed, Typed', IsFiniteSet(Workers), NEW q, Queues = {q},
           NEW w \in Workers, Crash(w), NEW e \in Events, Within(q, e)
    PROVE  Within(q, e)'
  <1> DEFINE m == hand[w][q]
  <1>1. q \in Queues /\ queue[q] \in Seq(Delivery) /\ m # None /\ m \in Delivery
    BY DEF Typed, TypeOK, Crash
  <1>2. /\ queue'[q] = <<m>> \o queue[q] /\ step'[w][q] = "idle" /\ faults' = faults + 1
        /\ UNCHANGED <<published, failures>>
        /\ \A v \in Workers \ {w} : hand'[v][q] = hand[v][q] /\ step'[v][q] = step[v][q]
    BY <1>1 DEF Crash, Fault, Holding, Typed, TypeOK
  <1>3. RunsIn(queue'[q], e) = Cardinality(Own(m, e)) + RunsIn(queue[q], e)
    BY <1>1, <1>2, RunsInCons
  <1>4. Cardinality(Own(m, e)) \in 0..(MaxRetries + 1)
    BY <1>1, OwnSize, RetriesNat DEF Delivery
  <1>5. Cardinality(Grip(w, q, e)) \in Nat
    <2>1. Grip(w, q, e) \in SUBSET Runs
      BY DEF Grip, Held, Own
    <2> QED
      BY <2>1, RunsFinite
  <1>6. Cardinality(Grip(w, q, e)') = 0
    <2>1. Grip(w, q, e)' = {}
      BY <1>2 DEF Grip, Held
    <2> QED
      BY <2>1, FS_EmptySet
  <1>7. failures[q][e] \in Nat /\ RunsIn(queue[q], e) \in Nat
    BY <1>1, RunsInNat DEF Typed, TypeOK
  <1>8. Cost(w, q, e)' <= Cost(w, q, e) + MaxRetries + 1
    BY <1>2, <1>3, <1>4, <1>5, <1>6, <1>7, RetriesNat DEF Cost
  <1> QED
    BY <1>1, <1>2, <1>8, StepPays

LEMMA PublishBudgeted ==
    ASSUME Typed, IsFiniteSet(Workers), NEW q, Queues = {q},
           NEW p \in Events, Publish(p), NEW e \in Events, Within(q, e)
    PROVE  Within(q, e)'
  <1> DEFINE m == [event |-> p, retries |-> 0]
             b == IF e \in published THEN 1 ELSE 0
  <1>1. q \in Queues /\ queue[q] \in Seq(Delivery) /\ m \in Delivery
    BY RetriesNat DEF Typed, TypeOK, Delivery
  <1>2. RunsIn(queue'[q], e) = Cardinality(Own(m, e)) + RunsIn(queue[q], e)
    BY <1>1, RunsInAppend DEF Publish, Route
  <1>3. Cardinality(Own(m, e)) = IF p = e THEN MaxRetries + 1 ELSE 0
    BY <1>1, OwnSize, RetriesNat
  <1>4. failures[q][e] \in Nat /\ faults \in Nat /\ RunsIn(queue[q], e) \in Nat /\ RunsAtWork(q, e) \in Nat
    BY <1>1, RunsInNat, PairsFinite DEF Typed, TypeOK, RunsAtWork
  <1>5. RunsAtWork(q, e)' = RunsAtWork(q, e) /\ UNCHANGED <<failures, faults>>
    BY DEF Publish, RunsAtWork, Grips, Grip
  <1>6. CASE p = e
    <2>1. e \notin published /\ e \in published'
      BY <1>6 DEF Publish
    <2>2. (MaxRetries + 1) * (faults + 1) = (MaxRetries + 1) * faults + MaxRetries + 1
      BY <1>4, RetriesNat
    <2>3. failures[q][e] + RunsIn(queue[q], e) + RunsAtWork(q, e) <= (MaxRetries + 1) * faults
      BY <2>1, <1>4 DEF Within
    <2>4. (MaxRetries + 1) * faults \in Nat
      BY <1>4, RetriesNat
    <2> QED
      BY <1>2, <1>3, <1>4, <1>5, <1>6, <2>1, <2>2, <2>3, <2>4, RetriesNat DEF Within
  <1>7. CASE p # e
    <2>1. e \in published' <=> e \in published
      BY <1>7 DEF Publish
    <2> QED
      BY <1>2, <1>3, <1>4, <1>5, <1>7, <2>1 DEF Within
  <1> QED
    BY <1>6, <1>7

LEMMA InitBudgeted == ASSUME Init, IsFiniteSet(Workers), NEW q, Queues = {q} PROVE Budgeted(q)
  <1> SUFFICES ASSUME NEW e \in Events PROVE Within(q, e)
    BY DEF Budgeted
  <1>1. failures[q][e] = 0 /\ queue[q] = <<>> /\ faults = 0 /\ published = {}
    BY DEF Init
  <1>2. RunsAtWork(q, e) = 0
    <2>1. \A w \in Workers : Grips(q, e)[w] = {}
      BY DEF Init, Grips, Grip, Held
    <2>2. Pairs(Workers, Grips(q, e)) = {}
      BY <2>1 DEF Pairs
    <2> QED
      BY <2>2, FS_EmptySet DEF RunsAtWork
  <1> QED
    BY <1>1, <1>2, RunsInEmpty, RetriesNat DEF Within

LEMMA BudgetCovers ==
    ASSUME Typed, IsFiniteSet(Workers), NEW q, Queues = {q}, Budgeted(q)
    PROVE  RetryBudget
  <1> SUFFICES ASSUME NEW e \in Events PROVE failures[q][e] <= (MaxRetries + 1) * (1 + faults)
    BY DEF RetryBudget
  <1> DEFINE b == IF e \in published THEN 1 ELSE 0
  <1>1. failures[q][e] \in Nat /\ faults \in Nat /\ RunsIn(queue[q], e) \in Nat /\ RunsAtWork(q, e) \in Nat
    <2>1. queue[q] \in Seq(Delivery)
      BY DEF Typed, TypeOK
    <2> QED
      BY <2>1, RunsInNat, PairsFinite DEF Typed, TypeOK, RunsAtWork
  <1>2. failures[q][e] <= (MaxRetries + 1) * (faults + b)
    <2>1. failures[q][e] + RunsIn(queue[q], e) + RunsAtWork(q, e) <= (MaxRetries + 1) * (faults + b)
      BY DEF Budgeted, Within
    <2>2. (MaxRetries + 1) * (faults + b) \in Nat
      BY <1>1, RetriesNat
    <2> HIDE DEF b
    <2> QED
      BY <2>1, <2>2, <1>1
  <1>3. (MaxRetries + 1) * (faults + b) <= (MaxRetries + 1) * (1 + faults)
    BY <1>1, RetriesNat
  <1>4. (MaxRetries + 1) * (faults + b) \in Nat /\ (MaxRetries + 1) * (1 + faults) \in Nat
    BY <1>1, RetriesNat
  <1> HIDE DEF b
  <1> QED
    BY <1>1, <1>2, <1>3, <1>4

(* A message is redelivered at most MaxRetries times, however many workers   *)
(* there are; each crash and each failed republication costs at most as much *)
(* again. One queue is bound to the routing key, as for all topics but       *)
(* video.published: there, each republication reaches both queues.           *)
THEOREM RetriesAreBounded ==
    ASSUME IsFiniteSet(Workers), NEW q, Queues = {q}
    PROVE  Spec => []RetryBudget
  <1>1. Init => Typed /\ Budgeted(q)
    BY InitTypes, InitBudgeted
  <1>2. Typed /\ Budgeted(q) /\ [Next]_vars => Typed' /\ Budgeted(q)'
    <2> SUFFICES ASSUME Typed, Budgeted(q), [Next]_vars PROVE Typed' /\ Budgeted(q)'
      OBVIOUS
    <2>1. Typed'
      BY NextTypes
    <2>2. ASSUME NEW e \in Events PROVE Within(q, e)'
      <3>1. Within(q, e)
        BY DEF Budgeted
      <3>2. CASE UNCHANGED vars
        BY <3>1, <3>2 DEF vars, Within, RunsAtWork, Grips, Grip
      <3>3. CASE \E p \in Events : Publish(p)
        BY <3>1, <3>3, PublishBudgeted
      <3>4. CASE \E w \in Workers : Consume(w, q)
        BY <2>1, <3>1, <3>4, ConsumeBudgeted
      <3>5. CASE \E w \in Workers : Crash(w)
        BY <2>1, <3>1, <3>5, CrashBudgeted
      <3> QED
        BY <3>2, <3>3, <3>4, <3>5 DEF Next
    <2> QED
      BY <2>1, <2>2 DEF Budgeted
  <1>3. Typed /\ Budgeted(q) => RetryBudget
    BY BudgetCovers
  <1> QED
    BY <1>1, <1>2, <1>3, PTL DEF Spec

-----------------------------------------------------------------------------
(* QueueTopology. *)

LEMMA InitTopologyTypes == TopologyInit => TopologyTypeOK
  <1> SUFFICES ASSUME TopologyInit PROVE TopologyTypeOK
    OBVIOUS
  <1>1. ready \in Nat
    BY DEF TopologyInit
  <1>2. {exists, dlx, bound, deadLetter} \subseteq BOOLEAN
    BY OldQueueKnown, Zenon DEF TopologyInit
  <1> QED
    BY <1>1, <1>2 DEF TopologyInit, TopologyTypeOK

LEMMA NextTopologyTypes == TopologyTypeOK /\ [TopologyNext]_topologyVars => TopologyTypeOK'
  <1> SUFFICES ASSUME TopologyTypeOK, [TopologyNext]_topologyVars PROVE TopologyTypeOK'
    OBVIOUS
  <1> USE DEF TopologyTypeOK
  <1>1. CASE Send
    BY <1>1 DEF Send
  <1>2. ASSUME NEW p \in Procs, Start(p) PROVE TopologyTypeOK'
    <2>1. CASE DeclareDeadLetter(p)
      BY <2>1 DEF DeclareDeadLetter, MoveTo, business
    <2>2. CASE Declare(p)
      BY <2>2 DEF Declare, QueueDeclare, MoveTo, business
    <2>3. CASE Delete(p)
      BY <2>3 DEF Delete, MoveTo
    <2>4. CASE Redeclare(p)
      BY <2>4 DEF Redeclare, QueueDeclare, MoveTo, business
    <2>5. CASE Bind(p)
      BY <2>5 DEF Bind, MoveTo
    <2>6. CASE Subscribe(p)
      BY <2>6 DEF Subscribe, MoveTo, business
    <2>7. CASE Take(p)
      BY <2>7 DEF Take
    <2> QED
      BY <1>2, <2>1, <2>2, <2>3, <2>4, <2>5, <2>6, <2>7 DEF Start
  <1>3. CASE UNCHANGED topologyVars
    BY <1>3 DEF topologyVars
  <1> QED
    BY <1>1, <1>2, <1>3 DEF TopologyNext

(* Every variable keeps its type: rabbitmq.go:21-51 and topology.go:38-77.   *)
THEOREM TopologyTypeCorrect == TopologySpec => []TopologyTypeOK
  BY InitTopologyTypes, NextTopologyTypes, PTL DEF TopologySpec

-----------------------------------------------------------------------------
(* A message that has reached the queue is still there or was consumed: the  *)
(* migration of topology.go:70 deletes the queue only while it is empty.     *)
THEOREM MigrationLosesNothing == TopologySpec => []NothingDiscarded
  <1>1. TopologyInit => NothingDiscarded
    BY DEF TopologyInit, NothingDiscarded
  <1>2. TopologyTypeOK /\ NothingDiscarded /\ [TopologyNext]_topologyVars => NothingDiscarded'
    <2> SUFFICES ASSUME TopologyTypeOK, NothingDiscarded, [TopologyNext]_topologyVars PROVE NothingDiscarded'
      OBVIOUS
    <2> USE DEF NothingDiscarded, TopologyTypeOK
    <2>1. CASE Send
      BY <2>1 DEF Send
    <2>2. ASSUME NEW p \in Procs, Take(p) PROVE NothingDiscarded'
      BY <2>2 DEF Take
    <2>3. ASSUME UNCHANGED <<ready, sent, taken, dropped>> PROVE NothingDiscarded'
      BY <2>3
    <2>4. ASSUME NEW p \in Procs, Start(p), ~Take(p)
          PROVE  UNCHANGED <<ready, sent, taken, dropped>>
      BY <2>4 DEF Start, DeclareDeadLetter, Declare, Delete, Redeclare, Bind, Subscribe,
                  QueueDeclare, business
    <2> QED
      BY <2>1, <2>2, <2>3, <2>4 DEF TopologyNext, topologyVars
  <1> QED
    BY <1>1, <1>2, TopologyTypeCorrect, PTL DEF TopologySpec

(* No start takes the queue from under a consumer: the delete of             *)
(* topology.go:71 asks for an unused queue, and one without a queue to       *)
(* consume does not become a consumer.                                       *)
THEOREM ConsumersAreSafe == TopologySpec => []ConsumersKeepQueue
  <1>1. TopologyInit => ConsumersKeepQueue
    BY DEF TopologyInit, ConsumersKeepQueue
  <1>2. ConsumersKeepQueue /\ [TopologyNext]_topologyVars => ConsumersKeepQueue'
    <2> SUFFICES ASSUME ConsumersKeepQueue, [TopologyNext]_topologyVars PROVE ConsumersKeepQueue'
      OBVIOUS
    <2> USE DEF ConsumersKeepQueue
    <2>1. CASE Send
      BY <2>1 DEF Send
    <2>2. ASSUME NEW p \in Procs, Start(p) PROVE ConsumersKeepQueue'
      <3>1. CASE DeclareDeadLetter(p) \/ Bind(p) \/ Take(p)
        BY <3>1 DEF DeclareDeadLetter, Bind, Take, business
      <3>2. CASE Declare(p) \/ Redeclare(p)
        BY <3>2 DEF Declare, Redeclare, QueueDeclare, business
      <3>3. CASE Delete(p)
        BY <3>3 DEF Delete, Deletable
      <3>4. CASE Subscribe(p)
        BY <3>4 DEF Subscribe, business
      <3> QED
        BY <2>2, <3>1, <3>2, <3>3, <3>4 DEF Start
    <2>3. CASE UNCHANGED topologyVars
      BY <2>3 DEF topologyVars
    <2> QED
      BY <2>1, <2>2, <2>3 DEF TopologyNext
  <1> QED
    BY <1>1, <1>2, PTL DEF TopologySpec

-----------------------------------------------------------------------------
(* Why the topology is ready at the end. While the queue is missing, some    *)
(* process has yet to declare it; while it is not bound, some process has    *)
(* yet to bind it. The process that deletes the queue is the one that still  *)
(* has both to do, so a bind that fails on a missing queue is never the last *)
(* one.                                                                      *)

Declares(p) == pc[p] \in {"deadLetter", "declare", "delete", "redeclare"}
Binds(p)    == Declares(p) \/ pc[p] = "bind"

Owed ==
    /\ ~exists => \E p \in Procs : Declares(p)
    /\ ~bound  => \E p \in Procs : Binds(p)
    /\ bound   => exists

\* A step of p keeps what the others owe, and pays p's own part if it is the last.
LEMMA OwedStep ==
    ASSUME NEW p \in Procs, TopologyTypeOK, Owed, Start(p)
    PROVE  Owed'
  <1> USE DEF TopologyTypeOK, Owed, Declares, Binds, MoveTo
  <1>1. CASE DeclareDeadLetter(p)
    BY <1>1 DEF DeclareDeadLetter, business
  <1>2. CASE Declare(p)
    <2>1. CASE exists /\ ~dlx
      BY <1>2, <2>1 DEF Declare, business
    <2>2. CASE ~(exists /\ ~dlx)
      BY <1>2, <2>2 DEF Declare, QueueDeclare
    <2> QED
      BY <2>1, <2>2
  <1>3. CASE Delete(p)
    BY <1>3 DEF Delete
  <1>4. CASE Redeclare(p)
    <2>1. CASE exists /\ ~dlx
      BY <1>4, <2>1 DEF Redeclare, business
    <2>2. CASE ~(exists /\ ~dlx)
      BY <1>4, <2>2 DEF Redeclare, QueueDeclare
    <2> QED
      BY <2>1, <2>2
  <1>5. CASE Bind(p)
    <2>1. CASE exists
      BY <1>5, <2>1 DEF Bind
    <2>2. CASE ~exists
      <3>1. PICK q \in Procs : Declares(q)
        BY <2>2
      <3>2. q # p
        BY <3>1, <1>5 DEF Bind
      <3>3. Declares(q)'
        BY <3>1, <3>2, <1>5, <2>2 DEF Bind
      <3> QED
        BY <3>3, <1>5, <2>2 DEF Bind
    <2> QED
      BY <2>1, <2>2
  <1>6. CASE Subscribe(p)
    BY <1>6 DEF Subscribe, business
  <1>7. CASE Take(p)
    BY <1>7 DEF Take
  <1> QED
    BY <1>1, <1>2, <1>3, <1>4, <1>5, <1>6, <1>7 DEF Start

(* rabbitmq.go:21-51: whatever number of processes starts, and however their *)
(* declares, deletes and binds cross, once all have ended the queue exists   *)
(* and is bound. At least one process has to start.                          *)
THEOREM TopologyEndsReady == ASSUME Procs # {} PROVE TopologySpec => []TopologyReady
  <1>1. TopologyInit => Owed
    BY DEF TopologyInit, Owed, Declares, Binds
  <1>2. TopologyTypeOK /\ Owed /\ [TopologyNext]_topologyVars => Owed'
    <2> SUFFICES ASSUME TopologyTypeOK, Owed, [TopologyNext]_topologyVars PROVE Owed'
      OBVIOUS
    <2>1. CASE Send
      BY <2>1 DEF Send, Owed, Declares, Binds
    <2>2. CASE \E p \in Procs : Start(p)
      BY <2>2, OwedStep
    <2>3. CASE UNCHANGED topologyVars
      BY <2>3 DEF topologyVars, Owed, Declares, Binds
    <2> QED
      BY <2>1, <2>2, <2>3 DEF TopologyNext
  <1>3. Owed => TopologyReady
    BY DEF Owed, TopologyReady, Ended, Declares, Binds
  <1> QED
    BY <1>1, <1>2, <1>3, TopologyTypeCorrect, PTL DEF TopologySpec
================================================================================
