--------------------------- MODULE ViewEventsProofs ---------------------------
(***************************************************************************)
(* How often a view event can be applied to the interest vector, and that  *)
(* none is lost without a fault, for any readers, number of retries, and   *)
(* any finite number of workers or events.                                 *)
(***************************************************************************)
EXTENDS ViewEvents, SequenceTheorems, FiniteSetTheorems, TLAPS

Typed == TypeOK /\ Engaged /\ HasRead

\* A worker at work holds a message, of a known event.
LEMMA InHand ==
    ASSUME Typed, NEW w \in Workers, at[w] # "idle"
    PROVE  /\ hand[w] \in Message /\ hand[w] # None
           /\ Event(w) \in Events /\ hand[w].retries \in 0..MaxRetries
  BY DEF Typed, TypeOK, Engaged, Message, Event

LEMMA FaultTypes ==
    ASSUME TypeOK, NEW k \in Kinds, Fault(k)
    PROVE  /\ faults' \in [Kinds -> Nat]
           /\ faults'[k] = faults[k] + 1
           /\ \A j \in Kinds \ {k} : faults'[j] = faults[j]
  <1>1. faults \in [Kinds -> Nat]
    BY DEF TypeOK
  <1>2. faults' = [faults EXCEPT ![k] = @ + 1]
    BY DEF Fault
  <1>3. QED
    BY <1>1, <1>2

LEMMA CountTypes ==
    ASSUME TypeOK, NEW e \in Events, Count(e)
    PROVE  /\ applied' \in [Events -> Nat]
           /\ applied'[e] = applied[e] + 1
           /\ \A f \in Events \ {e} : applied'[f] = applied[f]
  BY DEF TypeOK, Count

LEMMA GotoTypes ==
    ASSUME Typed, NEW w \in Workers, NEW label \in Steps, Goto(w, label)
    PROVE  /\ at' \in [Workers -> Steps]
           /\ at'[w] = label
           /\ \A v \in Workers \ {w} : at'[v] = at[v]
  BY DEF Typed, TypeOK, Goto

LEMMA VectorTypes ==
    ASSUME NEW v \in Vector, NEW e \in Events
    PROVE  v # None /\ [v EXCEPT ![e] = @ + 1] \in Vector \cup {None}
                    /\ [v EXCEPT ![e] = @ + 1] # None
  BY NoneIsNew DEF Vector

LEMMA WriteTypes ==
    ASSUME TypeOK, NEW v \in Vector, Write(v)
    PROVE  snap' \in Vector \cup {None} /\ ttl' \in 0..TTL
  BY TTLPos DEF Write

LEMMA DropTypes ==
    ASSUME Typed, NEW w \in Workers, Drop(w)
    PROVE  /\ hand' \in [Workers -> Message \cup {None}]
           /\ at' \in [Workers -> Steps]
           /\ Engaged'
           /\ \A v \in Workers : at'[v] = "set" => at[v] = "set" /\ v # w
  BY DEF Typed, TypeOK, Engaged, Drop, Goto, Steps

\* The message a failed event is published as.
LEMMA RetriedTypes ==
    ASSUME NEW m \in Message, m.retries < MaxRetries
    PROVE  [m EXCEPT !.retries = m.retries + 1] \in Message
  BY RetriesNat DEF Message

LEMMA QueueTypes ==
    ASSUME NEW s \in Seq(Message), NEW m \in Message
    PROVE  /\ Append(s, m) \in Seq(Message) /\ <<m>> \o s \in Seq(Message)
           /\ s # <<>> => Head(s) \in Message /\ Tail(s) \in Seq(Message)
  <1>1. <<m>> \in Seq(Message)
    OBVIOUS
  <1>2. QED
    BY <1>1, AppendProperties, ConcatProperties, HeadTailProperties

LEMMA InitTypes == Init => Typed
  <1>1. <<>> \in Seq(Message)
    BY EmptySeq
  <1>2. QED
    BY <1>1, TTLPos DEF Init, Typed, TypeOK, Engaged, HasRead, Steps

\* The steps of the API and of a recommendation request.
LEMMA ApiTypes ==
    ASSUME Typed, NEW e \in Events, SaveViewEvent(e) \/ PublishViewEvent(e)
    PROVE  Typed'
  <1>1. CASE SaveViewEvent(e)
    <2>1. saved' \in SUBSET Events /\ toPublish' \in SUBSET saved'
      BY <1>1 DEF SaveViewEvent, Typed, TypeOK
    <2>2. QED
      BY <1>1, <2>1 DEF SaveViewEvent, Typed, TypeOK, Engaged, HasRead, cache, worker, reader
  <1>2. CASE PublishViewEvent(e)
    <2>1. [event |-> e, retries |-> 0] \in Message
      BY RetriesNat DEF Message
    <2>2. queue' \in Seq(Message)
      BY <1>2, <2>1, QueueTypes DEF PublishViewEvent, Typed, TypeOK
    <2>3. faults' \in [Kinds -> Nat]
      BY <1>2, FaultTypes DEF PublishViewEvent, Typed, TypeOK, Kinds
    <2>4. toPublish' \in SUBSET saved' /\ saved' = saved
      BY <1>2 DEF PublishViewEvent, Typed, TypeOK
    <2>5. QED
      BY <1>2, <2>2, <2>3, <2>4
         DEF PublishViewEvent, Typed, TypeOK, Engaged, HasRead, cache, worker, reader
  <1>3. QED
    BY <1>1, <1>2

LEMMA ReaderTypes ==
    ASSUME Typed, NEW r \in Readers, Load(r) \/ Aggregate(r) \/ Store(r)
    PROVE  Typed'
  <1>1. CASE Load(r)
    BY <1>1 DEF Load, Typed, TypeOK, Engaged, HasRead, api, cache, worker
  <1>2. CASE Aggregate(r)
    <2>1. Rows \in Vector
      BY DEF Rows, Vector
    <2>2. miss' \in [Readers -> BOOLEAN]
      BY <1>2, Zenon DEF Aggregate, Typed, TypeOK
    <2>3. base' \in [Readers -> Vector \cup {None}]
      BY <1>2, <2>1 DEF Aggregate, Typed, TypeOK
    <2>4. QED
      BY <1>2, <2>2, <2>3 DEF Aggregate, Typed, TypeOK, Engaged, HasRead, api, cache, worker
  <1>3. CASE Store(r)
    <2>1. snap' \in Vector \cup {None} /\ ttl' \in 0..TTL
      BY <1>3, WriteTypes DEF Store, Typed, TypeOK
    <2>2. miss' \in [Readers -> BOOLEAN] /\ base' \in [Readers -> Vector \cup {None}]
      BY <1>3 DEF Store, Typed, TypeOK
    <2>3. QED
      BY <1>3, <2>1, <2>2 DEF Store, Typed, TypeOK, Engaged, HasRead, api, worker
  <1>4. QED
    BY <1>1, <1>2, <1>3

LEMMA TickTypes ==
    ASSUME Typed, Tick
    PROVE  Typed'
  <1>1. snap' \in Vector \cup {None} /\ ttl' \in 0..TTL
    BY TTLPos DEF Tick, Typed, TypeOK
  <1>2. QED
    BY <1>1 DEF Tick, Typed, TypeOK, Engaged, HasRead, api, worker, reader

\* The steps of a worker.
LEMMA WorkTypes ==
    ASSUME Typed, NEW w \in Workers, Work(w)
    PROVE  Typed'
  <1>1. CASE Deliver(w)
    <2>1. Head(queue) \in Message /\ Tail(queue) \in Seq(Message)
      BY <1>1, HeadTailProperties DEF Deliver, Typed, TypeOK
    <2>2. QED
      BY <1>1, <2>1, GotoTypes, NoneIsNew
         DEF Deliver, Typed, TypeOK, Engaged, HasRead, Goto, Steps, api, cache, reader
  <1>2. CASE Claim(w) \/ ClaimFails(w)
    <2>1. Event(w) \in Events /\ hand[w] # None
      BY <1>2, InHand DEF Claim, ClaimFails
    <2>2. key' \in [Events -> BOOLEAN]
      BY <1>2, <2>1 DEF Claim, ClaimFails, Typed, TypeOK
    <2>3. faults' \in [Kinds -> Nat]
      BY <1>2, FaultTypes DEF Claim, ClaimFails, Typed, TypeOK, Kinds
    <2>4. Goto(w, "ack") \/ Goto(w, "get")
      BY <1>2 DEF Claim, ClaimFails
    <2>5. QED
      BY <1>2, <2>1, <2>2, <2>3, <2>4
         DEF Claim, ClaimFails, Typed, TypeOK, Engaged, HasRead, Goto, Steps, api, cache, reader
  <1>3. CASE GetVector(w)
    <2>1. Event(w) \in Events /\ hand[w] # None
      BY <1>3, InHand DEF GetVector
    <2>2. CASE Event(w) \in Positive /\ snap # None
      BY <1>3, <2>1, <2>2
         DEF GetVector, Typed, TypeOK, Engaged, HasRead, Goto, Steps, api, cache, reader
    <2>3. CASE ~(Event(w) \in Positive /\ snap # None)
      <3>1. applied' \in [Events -> Nat]
        BY <1>3, <2>1, <2>3, CountTypes DEF GetVector, Typed
      <3>2. QED
        BY <1>3, <2>1, <2>3, <3>1
           DEF GetVector, Typed, TypeOK, Engaged, HasRead, Goto, Steps, api, cache, reader
    <2>4. QED
      BY <2>2, <2>3
  <1>4. CASE GetFails(w)
    <2>1. hand[w] # None
      BY <1>4, InHand DEF GetFails
    <2>2. faults' \in [Kinds -> Nat]
      BY <1>4, FaultTypes DEF GetFails, Typed, Kinds
    <2>3. QED
      BY <1>4, <2>1, <2>2
         DEF GetFails, Typed, TypeOK, Engaged, HasRead, Goto, Steps, api, cache, reader
  <1>5. CASE SetVector(w) \/ SetUnanswered(w)
    <2>1. Event(w) \in Events /\ hand[w] # None /\ read[w] \in Vector
      BY <1>5, InHand DEF SetVector, SetUnanswered, Typed, TypeOK, HasRead
    <2>2. Updated(w) \in Vector
      BY <2>1 DEF Updated, Vector
    <2>3. snap' \in Vector \cup {None} /\ ttl' \in 0..TTL
      BY <1>5, <2>2, WriteTypes DEF SetVector, SetUnanswered, Typed, TypeOK
    <2>4. applied' \in [Events -> Nat]
      BY <1>5, <2>1, CountTypes DEF SetVector, SetUnanswered, Typed, TypeOK
    <2>5. faults' \in [Kinds -> Nat]
      BY <1>5, FaultTypes DEF SetVector, SetUnanswered, Typed, TypeOK, Kinds
    <2>6. Goto(w, "ack") \/ Goto(w, "release")
      BY <1>5 DEF SetVector, SetUnanswered
    <2>7. read' = [read EXCEPT ![w] = None] /\ UNCHANGED <<api, queue, dead, key, hand, reader>>
      BY <1>5 DEF SetVector, SetUnanswered
    <2>8. QED
      BY <2>1, <2>3, <2>4, <2>5, <2>6, <2>7
         DEF Typed, TypeOK, Engaged, HasRead, Goto, Steps, api, reader
  <1>6. CASE Release(w)
    <2>1. Event(w) \in Events /\ hand[w] # None
      BY <1>6, InHand DEF Release
    <2>2. key' \in [Events -> BOOLEAN]
      BY <1>6, <2>1 DEF Release, Typed, TypeOK
    <2>3. faults' \in [Kinds -> Nat]
      BY <1>6, FaultTypes DEF Release, Typed, TypeOK, Kinds
    <2>4. QED
      BY <1>6, <2>1, <2>2, <2>3
         DEF Release, Typed, TypeOK, Engaged, HasRead, Goto, Steps, api, cache, reader
  <1>7. CASE Retry(w)
    <2>1. /\ hand[w] \in Message /\ hand[w] # None
          /\ hand[w].event \in Events /\ hand[w].retries \in 0..MaxRetries
      BY <1>7, InHand DEF Retry, Event
    <2>2. CASE hand[w].retries < MaxRetries
      <3>1. queue' \in Seq(Message)
        BY <1>7, <2>1, <2>2, RetriedTypes, QueueTypes DEF Retry, Typed, TypeOK
      <3>2. Goto(w, "ack") /\ UNCHANGED <<dead, hand>>
        BY <1>7, <2>2 DEF Retry
      <3>3. QED
        BY <1>7, <2>1, <3>1, <3>2
           DEF Retry, Typed, TypeOK, Engaged, HasRead, Goto, Steps, api, cache, reader
    <2>3. CASE ~(hand[w].retries < MaxRetries)
      <3>1. Drop(w) /\ dead' \in SUBSET Events /\ UNCHANGED queue
        BY <1>7, <2>1, <2>3 DEF Retry, Typed, TypeOK
      <3>2. QED
        BY <1>7, <3>1, DropTypes DEF Retry, Typed, TypeOK, HasRead, api, cache, reader
    <2>4. QED
      BY <2>2, <2>3
  <1>8. CASE Ack(w)
    BY <1>8, DropTypes DEF Ack, Typed, TypeOK, HasRead, api, cache, reader
  <1>9. QED
    BY <1>1, <1>2, <1>3, <1>4, <1>5, <1>6, <1>7, <1>8 DEF Work

LEMMA CrashTypes ==
    ASSUME Typed, NEW w \in Workers, Crash(w)
    PROVE  Typed'
  <1>1. <<hand[w]>> \o queue \in Seq(Message)
    BY QueueTypes DEF Crash, Typed, TypeOK
  <1>2. faults' \in [Kinds -> Nat]
    BY FaultTypes DEF Crash, Typed, Kinds
  <1>3. Drop(w) /\ queue' \in Seq(Message) /\ read' = [read EXCEPT ![w] = None]
    BY <1>1 DEF Crash
  <1>4. UNCHANGED <<api, dead, key, cache, reader, applied>>
    BY DEF Crash
  <1>5. HasRead'
    BY <1>3, DropTypes DEF Typed, TypeOK, HasRead
  <1>6. QED
    BY <1>2, <1>3, <1>4, <1>5, DropTypes DEF Typed, TypeOK, api, cache, reader

LEMMA NextTypes == Typed /\ [Next]_vars => Typed'
  <1> SUFFICES ASSUME Typed, [Next]_vars PROVE Typed'
    OBVIOUS
  <1>1. CASE UNCHANGED vars
    BY <1>1 DEF vars, api, cache, worker, reader, Typed, TypeOK, Engaged, HasRead
  <1>2. CASE Next
    BY <1>2, ApiTypes, WorkTypes, CrashTypes, ReaderTypes, TickTypes DEF Next
  <1>3. QED
    BY <1>1, <1>2

(* Every variable keeps its type; no message exceeds the retry limit.        *)
THEOREM TypeCorrect == Spec => []TypeOK
  <1>1. Typed => TypeOK
    BY DEF Typed
  <1>2. QED
    BY <1>1, InitTypes, NextTypes, PTL DEF Spec
--------------------------------------------------------------------------------

Free(e) == IF key[e] THEN 0 ELSE 1

Permit(e) ==
    applied[e] + Cardinality(Processing(e)) + Free(e) <= 1 + faults["claim"] + faults["reply"]

LEMMA SubsetSize ==
    ASSUME IsFiniteSet(Workers), NEW S \in SUBSET Workers, NEW T \in SUBSET S
    PROVE  /\ Cardinality(S) \in Nat /\ Cardinality(T) \in Nat
           /\ Cardinality(T) <= Cardinality(S)
  <1>1. IsFiniteSet(S) /\ IsFiniteSet(T)
    BY FS_Subset
  <1>2. QED
    BY <1>1, FS_Subset, FS_CardinalityType

LEMMA JoinSize ==
    ASSUME IsFiniteSet(Workers), NEW S \in SUBSET Workers, NEW w \in Workers,
           NEW T \in SUBSET (S \cup {w})
    PROVE  Cardinality(T) <= Cardinality(S) + 1
  <1>1. IsFiniteSet(S) /\ Cardinality(S) \in Nat
    BY FS_Subset, SubsetSize
  <1>2. Cardinality(S \cup {w}) = IF w \in S THEN Cardinality(S) ELSE Cardinality(S) + 1
    BY <1>1, FS_AddElement
  <1>3. Cardinality(T) \in Nat /\ Cardinality(T) <= Cardinality(S \cup {w})
    BY SubsetSize
  <1>4. QED
    BY <1>1, <1>2, <1>3

LEMMA LeaveSize ==
    ASSUME IsFiniteSet(Workers), NEW S \in SUBSET Workers, NEW w \in S,
           NEW T \in SUBSET (S \ {w})
    PROVE  Cardinality(T) <= Cardinality(S) - 1
  <1>1. IsFiniteSet(S) /\ Cardinality(S) \in Nat
    BY FS_Subset, SubsetSize
  <1>2. Cardinality(S \ {w}) = Cardinality(S) - 1
    BY <1>1, FS_RemoveElement
  <1>3. Cardinality(T) \in Nat /\ Cardinality(T) <= Cardinality(S \ {w})
    BY SubsetSize
  <1>4. QED
    BY <1>1, <1>2, <1>3

\* What the terms of a permit are.
LEMMA PermitTerms ==
    ASSUME IsFiniteSet(Workers), Typed, NEW e \in Events
    PROVE  /\ applied[e] \in Nat /\ Free(e) \in {0, 1}
           /\ Processing(e) \in SUBSET Workers /\ Cardinality(Processing(e)) \in Nat
           /\ faults["claim"] \in Nat /\ faults["reply"] \in Nat
  <1>1. Processing(e) \in SUBSET Workers
    BY DEF Processing
  <1>2. {"claim", "reply"} \subseteq Kinds
    BY DEF Kinds
  <1>3. QED
    BY <1>1, <1>2, SubsetSize DEF Typed, TypeOK, Free

\* Where no worker starts to process the event and nothing is applied, its
\* permits are kept.
LEMMA PermitKept ==
    ASSUME IsFiniteSet(Workers), Typed, Typed', NEW e \in Events, Permit(e),
           applied'[e] = applied[e], key'[e] = key[e],
           Processing(e)' \subseteq Processing(e),
           faults'["claim"] >= faults["claim"], faults'["reply"] >= faults["reply"]
    PROVE  Permit(e)'
  <1>1. /\ applied[e] \in Nat /\ Free(e) \in {0, 1}
        /\ Processing(e) \in SUBSET Workers /\ Cardinality(Processing(e)) \in Nat
        /\ faults["claim"] \in Nat /\ faults["reply"] \in Nat
    BY PermitTerms
  <1>2. faults'["claim"] \in Nat /\ faults'["reply"] \in Nat
    BY DEF Typed, TypeOK, Kinds
  <1>3. /\ Cardinality(Processing(e)') \in Nat
        /\ Cardinality(Processing(e)') <= Cardinality(Processing(e))
    BY <1>1, SubsetSize
  <1>4. Free(e)' = Free(e)
    BY DEF Free
  <1>5. applied'[e] + Cardinality(Processing(e)') + Free(e)' <= 1 + faults'["claim"] + faults'["reply"]
    BY <1>1, <1>2, <1>3, <1>4 DEF Permit
  <1>6. QED
    BY <1>5 DEF Permit

Within == {"get", "set", "release"}

\* What a step of `w` does to who processes which event.
LEMMA Enters ==
    ASSUME Typed, NEW w \in Workers, at[w] = "claim", UNCHANGED hand, Goto(w, "get")
    PROVE  /\ Event(w) \in Events
           /\ Processing(Event(w))' \subseteq Processing(Event(w)) \cup {w}
           /\ \A e \in Events \ {Event(w)} : Processing(e)' \subseteq Processing(e)
  BY InHand, GotoTypes DEF Processing, Steps, Event

LEMMA Stays ==
    ASSUME Typed, NEW w \in Workers, at[w] \in Within, UNCHANGED hand,
           NEW label \in Within, Goto(w, label), NEW e \in Events
    PROVE  Processing(e)' \subseteq Processing(e)
  BY GotoTypes DEF Processing, Steps, Within

LEMMA Leaves ==
    ASSUME Typed, NEW w \in Workers, at[w] \in Within, UNCHANGED hand,
           NEW label \in Steps \ Within, Goto(w, label)
    PROVE  /\ Event(w) \in Events
           /\ w \in Processing(Event(w))
           /\ Processing(Event(w))' \subseteq Processing(Event(w)) \ {w}
           /\ \A e \in Events \ {Event(w)} : Processing(e)' \subseteq Processing(e)
  BY InHand, GotoTypes DEF Processing, Steps, Within, Event

LEMMA Passes ==
    ASSUME Typed, NEW w \in Workers,
           \A v \in Workers \ {w} : at'[v] = at[v] /\ hand'[v] = hand[v],
           at'[w] \notin Within, NEW e \in Events
    PROVE  Processing(e)' \subseteq Processing(e)
  BY DEF Processing, Within

LEMMA PermitsAre == Permits <=> \A e \in Events : Permit(e)
  BY DEF Permits, Permit, Free

LEMMA PermitsThen == (\A e \in Events : Permit(e)') => Permits'
  BY DEF Permits, Permit, Free

\* A step that takes a permit at most as often as one becomes available.
LEMMA PermitMoves ==
    ASSUME IsFiniteSet(Workers), Typed, Typed', NEW e \in Events, Permit(e),
           \/ /\ Cardinality(Processing(e)') <= Cardinality(Processing(e)) + 1
              /\ applied'[e] = applied[e]
              /\ Free(e)' <= Free(e) /\ (Free(e)' < Free(e) \/ faults'["claim"] = faults["claim"] + 1)
           \/ /\ Cardinality(Processing(e)') <= Cardinality(Processing(e)) - 1
              /\ \/ applied'[e] = applied[e] /\ Free(e)' <= 1
                 \/ applied'[e] <= applied[e] + 1 /\ Free(e)' = Free(e)
           \/ /\ Cardinality(Processing(e)') <= Cardinality(Processing(e))
              /\ applied'[e] <= applied[e] + 1 /\ Free(e)' = Free(e)
              /\ faults'["reply"] = faults["reply"] + 1,
           faults'["claim"] >= faults["claim"], faults'["reply"] >= faults["reply"]
    PROVE  Permit(e)'
  <1>1. /\ applied[e] \in Nat /\ Free(e) \in {0, 1}
        /\ Cardinality(Processing(e)) \in Nat
        /\ faults["claim"] \in Nat /\ faults["reply"] \in Nat
    BY PermitTerms
  <1>2. /\ faults'["claim"] \in Nat /\ faults'["reply"] \in Nat /\ applied'[e] \in Nat
    BY DEF Typed, TypeOK, Kinds
  <1>3. Free(e)' \in {0, 1}
    BY DEF Free
  <1>4. Processing(e)' \in SUBSET Workers
    BY DEF Processing
  <1>5. Cardinality(Processing(e)') \in Nat
    BY <1>4, SubsetSize
  <1>6. applied[e] + Cardinality(Processing(e)) + Free(e) <= 1 + faults["claim"] + faults["reply"]
    BY DEF Permit
  <1>7. applied'[e] + Cardinality(Processing(e)') + Free(e)' <= 1 + faults'["claim"] + faults'["reply"]
    BY <1>1, <1>2, <1>3, <1>5, <1>6
  <1>8. QED
    BY <1>7 DEF Permit

LEMMA ClaimPermits ==
    ASSUME IsFiniteSet(Workers), Typed, Typed', Permits, NEW w \in Workers,
           Claim(w) \/ ClaimFails(w)
    PROVE  Permits'
  <1>1. /\ at[w] = "claim" /\ UNCHANGED hand /\ applied' = applied
        /\ Event(w) \in Events
    BY InHand DEF Claim, ClaimFails
  <1>2. \A e \in Events \ {Event(w)} : key'[e] = key[e]
    BY <1>1 DEF Claim, ClaimFails, Typed, TypeOK
  <1>3. /\ faults'["claim"] >= faults["claim"] /\ faults'["reply"] >= faults["reply"]
        /\ ClaimFails(w) => faults'["claim"] = faults["claim"] + 1
    <2>1. faults["claim"] \in Nat /\ faults["reply"] \in Nat
      BY DEF Typed, TypeOK, Kinds
    <2>2. CASE Claim(w) /\ UNCHANGED faults
      BY <2>1, <2>2 DEF ClaimFails, Fault, Typed, TypeOK, Kinds
    <2>3. CASE ClaimFails(w)
      BY <2>1, <2>3, FaultTypes DEF ClaimFails, Typed, Kinds
    <2>4. QED
      BY <2>2, <2>3 DEF Claim
  <1>4. CASE Claim(w) /\ key[Event(w)]
    <2>1. Goto(w, "ack") /\ key' = key
      BY <1>1, <1>4 DEF Claim, Typed, TypeOK
    <2>2. \A e \in Events : Processing(e)' \subseteq Processing(e)
      BY <1>1, <2>1, GotoTypes, Passes DEF Steps, Within
    <2>3. QED
      BY <1>1, <1>3, <2>1, <2>2, PermitKept, PermitsAre, PermitsThen
  <1>5. CASE \/ Claim(w) /\ ~key[Event(w)]
             \/ ClaimFails(w)
    <2>1. Goto(w, "get")
      BY <1>5 DEF Claim, ClaimFails
    <2>2. /\ Processing(Event(w))' \subseteq Processing(Event(w)) \cup {w}
          /\ \A e \in Events \ {Event(w)} : Processing(e)' \subseteq Processing(e)
      BY <1>1, <2>1, Enters
    <2>3. \A e \in Events \ {Event(w)} : Permit(e)'
      BY <1>1, <1>2, <1>3, <2>2, PermitKept, PermitsAre
    <2>4. PICK e \in Events : e = Event(w)
      BY <1>1
    <2>5. Processing(e)' \subseteq Processing(e) \cup {w}
      BY <2>2, <2>4, <1>1 DEF Event
    <2>6. Cardinality(Processing(e)') <= Cardinality(Processing(e)) + 1
      BY <2>5, JoinSize, PermitTerms
    <2>7. \/ Free(e)' < Free(e)
          \/ Free(e)' <= Free(e) /\ faults'["claim"] = faults["claim"] + 1
      BY <1>1, <1>3, <1>5, <2>4 DEF Claim, ClaimFails, Free, Typed, TypeOK
    <2>8. Free(e)' \in {0, 1} /\ Free(e) \in {0, 1}
      BY DEF Free
    <2>9. Permit(e)'
      BY <1>1, <1>3, <2>6, <2>7, <2>8, PermitMoves, PermitsAre
    <2>10. QED
      BY <2>3, <2>4, <2>9, PermitsThen
  <1>6. QED
    BY <1>4, <1>5

\* The worker lets go of the event: it applied it, or gives the key back.
LEMMA LeavePermits ==
    ASSUME IsFiniteSet(Workers), Typed, Typed', Permits, NEW w \in Workers,
           at[w] \in Within, UNCHANGED hand,
           NEW label \in Steps \ Within, Goto(w, label),
           \/ Count(Event(w)) /\ key' = key
           \/ applied' = applied /\ key' \in {key, [key EXCEPT ![Event(w)] = FALSE]},
           faults'["claim"] >= faults["claim"], faults'["reply"] >= faults["reply"]
    PROVE  Permits'
  <1>1. /\ Event(w) \in Events
        /\ w \in Processing(Event(w))
        /\ Processing(Event(w))' \subseteq Processing(Event(w)) \ {w}
        /\ \A e \in Events \ {Event(w)} : Processing(e)' \subseteq Processing(e)
    BY Leaves
  <1>2. \A e \in Events \ {Event(w)} : key'[e] = key[e] /\ applied'[e] = applied[e]
    <2>1. key \in [Events -> BOOLEAN]
      BY DEF Typed, TypeOK
    <2>2. \A e \in Events \ {Event(w)} : key'[e] = key[e]
      BY <2>1
    <2>3. CASE Count(Event(w))
      <3>1. \A e \in Events \ {Event(w)} : applied'[e] = applied[e]
        BY <1>1, <2>3, CountTypes DEF Typed
      <3>2. QED
        BY <2>2, <3>1
    <2>4. CASE applied' = applied
      BY <2>2, <2>4
    <2>5. QED
      BY <2>3, <2>4
  <1>3. \A e \in Events \ {Event(w)} : Permit(e)'
    BY <1>1, <1>2, PermitKept, PermitsAre
  <1>4. PICK e \in Events : e = Event(w)
    BY <1>1
  <1>5. w \in Processing(e) /\ Processing(e)' \subseteq Processing(e) \ {w}
    BY <1>1, <1>4 DEF Event
  <1>6. Cardinality(Processing(e)') <= Cardinality(Processing(e)) - 1
    BY <1>5, LeaveSize, PermitTerms
  <1>7. /\ applied[e] \in Nat /\ Free(e) \in {0, 1} /\ Free(e)' \in {0, 1}
    BY PermitTerms DEF Free
  <1>8. \/ applied'[e] = applied[e] /\ Free(e)' <= 1
        \/ applied'[e] <= applied[e] + 1 /\ Free(e)' = Free(e)
    <2>1. CASE Count(Event(w)) /\ key' = key
      BY <1>4, <1>7, <2>1, CountTypes DEF Free, Typed, TypeOK
    <2>2. CASE applied' = applied
      BY <1>7, <2>2
    <2>3. QED
      BY <2>1, <2>2
  <1>9. Permit(e)'
    BY <1>6, <1>8, PermitMoves, PermitsAre
  <1>10. QED
    BY <1>3, <1>4, <1>9, PermitsThen

\* The worker goes on processing the event.
LEMMA StayPermits ==
    ASSUME IsFiniteSet(Workers), Typed, Typed', Permits, NEW w \in Workers,
           at[w] \in Within, UNCHANGED hand, NEW label \in Within, Goto(w, label),
           key' = key, applied' = applied,
           faults'["claim"] >= faults["claim"], faults'["reply"] >= faults["reply"]
    PROVE  Permits'
  BY Stays, PermitKept, PermitsAre, PermitsThen

\* A SET XX without an answer is applied, and its event may be once more.
LEMMA UnansweredPermits ==
    ASSUME IsFiniteSet(Workers), Typed, Typed', Permits, NEW w \in Workers, SetUnanswered(w)
    PROVE  Permits'
  <1>1. /\ at[w] \in Within /\ UNCHANGED <<hand, key>> /\ Event(w) \in Events
        /\ Goto(w, "release") /\ Count(Event(w))
    BY InHand DEF SetUnanswered, Within
  <1>2. /\ faults'["claim"] = faults["claim"] /\ faults'["reply"] = faults["reply"] + 1
        /\ faults["claim"] \in Nat /\ faults["reply"] \in Nat
    BY FaultTypes DEF SetUnanswered, Typed, TypeOK, Kinds
  <1>3. \A e \in Events : Processing(e)' \subseteq Processing(e)
    BY <1>1, Stays DEF Within
  <1>4. \A e \in Events : Cardinality(Processing(e)') <= Cardinality(Processing(e))
    BY <1>3, SubsetSize, PermitTerms
  <1>5. ASSUME NEW e \in Events PROVE applied'[e] <= applied[e] + 1 /\ Free(e)' = Free(e)
    BY <1>1, CountTypes, PermitTerms DEF Free, Typed
  <1>6. \A e \in Events : Permit(e)'
    BY <1>2, <1>4, <1>5, PermitMoves, PermitsAre
  <1>7. QED
    BY <1>6, PermitsThen

\* A step of one worker that leaves it outside, or takes it out without a trace.
LEMMA PassPermits ==
    ASSUME IsFiniteSet(Workers), Typed, Typed', Permits, NEW w \in Workers,
           \A v \in Workers \ {w} : at'[v] = at[v] /\ hand'[v] = hand[v],
           at'[w] \notin Within, key' = key, applied' = applied,
           faults'["claim"] >= faults["claim"], faults'["reply"] >= faults["reply"]
    PROVE  Permits'
  BY Passes, PermitKept, PermitsAre, PermitsThen

LEMMA IdlePermits ==
    ASSUME Permits, UNCHANGED <<at, hand, key, applied>>,
           faults'["claim"] = faults["claim"], faults'["reply"] = faults["reply"]
    PROVE  Permits'
  <1>1. \A e \in Events : Processing(e)' = Processing(e)
    BY DEF Processing
  <1>2. QED
    BY <1>1 DEF Permits

\* Faults of the other kinds change no permit.
LEMMA OtherFaults ==
    ASSUME TypeOK, UNCHANGED faults \/ \E k \in Kinds \ {"claim", "reply"} : Fault(k)
    PROVE  /\ faults'["claim"] = faults["claim"] /\ faults'["reply"] = faults["reply"]
           /\ faults'["claim"] >= faults["claim"] /\ faults'["reply"] >= faults["reply"]
  <1>1. faults["claim"] \in Nat /\ faults["reply"] \in Nat
    BY DEF TypeOK, Kinds
  <1>2. faults'["claim"] = faults["claim"] /\ faults'["reply"] = faults["reply"]
    BY FaultTypes DEF Kinds
  <1>3. QED
    BY <1>1, <1>2

LEMMA WorkPermits ==
    ASSUME IsFiniteSet(Workers), Typed, Typed', Permits, NEW w \in Workers, Work(w) \/ Crash(w)
    PROVE  Permits'
  <1>1. CASE Deliver(w)
    <2>1. \A v \in Workers \ {w} : at'[v] = at[v] /\ hand'[v] = hand[v]
      BY <1>1 DEF Deliver, Goto, Typed, TypeOK
    <2>2. at'[w] \notin Within /\ key' = key /\ applied' = applied /\ UNCHANGED faults
      BY <1>1, GotoTypes DEF Deliver, Within, Steps
    <2>3. QED
      BY <2>1, <2>2, PassPermits, OtherFaults DEF Typed
  <1>2. CASE Claim(w) \/ ClaimFails(w)
    BY <1>2, ClaimPermits
  <1>3. CASE GetVector(w)
    <2>1. at[w] \in Within /\ UNCHANGED <<hand, key, faults>>
      BY <1>3 DEF GetVector, Within
    <2>2. \/ Goto(w, "set") /\ applied' = applied
          \/ Goto(w, "ack") /\ Count(Event(w))
      BY <1>3 DEF GetVector
    <2>3. CASE Goto(w, "set") /\ applied' = applied
      BY <2>1, <2>3, StayPermits, OtherFaults DEF Typed, Within
    <2>4. CASE Goto(w, "ack") /\ Count(Event(w))
      BY <2>1, <2>4, LeavePermits, OtherFaults DEF Typed, Within, Steps
    <2>5. QED
      BY <2>2, <2>3, <2>4
  <1>4. CASE GetFails(w)
    <2>1. /\ at[w] \in Within /\ UNCHANGED hand /\ key' = key /\ applied' = applied
          /\ Goto(w, "release") /\ Fault("apply")
      BY <1>4 DEF GetFails, Within
    <2>2. QED
      BY <2>1, StayPermits, OtherFaults DEF Typed, Within, Kinds
  <1>5. CASE SetVector(w)
    <2>1. at[w] \in Within /\ UNCHANGED <<hand, key, faults>>
      BY <1>5 DEF SetVector, Within
    <2>2. \/ Goto(w, "release") /\ applied' = applied
          \/ Goto(w, "ack") /\ Count(Event(w))
      BY <1>5 DEF SetVector
    <2>3. CASE Goto(w, "release") /\ applied' = applied
      BY <2>1, <2>3, StayPermits, OtherFaults DEF Typed, Within
    <2>4. CASE Goto(w, "ack") /\ Count(Event(w))
      BY <2>1, <2>4, LeavePermits, OtherFaults DEF Typed, Within, Steps
    <2>5. QED
      BY <2>2, <2>3, <2>4
  <1>6. CASE SetUnanswered(w)
    BY <1>6, UnansweredPermits
  <1>7. CASE Release(w)
    <2>1. /\ at[w] \in Within /\ UNCHANGED hand /\ applied' = applied /\ Goto(w, "failed")
          /\ key' \in {key, [key EXCEPT ![Event(w)] = FALSE]}
      BY <1>7 DEF Release, Within
    <2>2. UNCHANGED faults \/ Fault("release")
      BY <1>7 DEF Release
    <2>3. QED
      BY <2>1, <2>2, LeavePermits, OtherFaults DEF Typed, Within, Steps, Kinds
  <1>8. CASE Retry(w) \/ Ack(w)
    <2>1. \A v \in Workers \ {w} : at'[v] = at[v] /\ hand'[v] = hand[v]
      BY <1>8 DEF Retry, Ack, Drop, Goto, Typed, TypeOK
    <2>2. at'[w] \notin Within
      BY <1>8 DEF Retry, Ack, Drop, Goto, Within, Typed, TypeOK
    <2>3. key' = key /\ applied' = applied /\ UNCHANGED faults
      BY <1>8 DEF Retry, Ack
    <2>4. QED
      BY <2>1, <2>2, <2>3, PassPermits, OtherFaults DEF Typed
  <1>9. CASE Crash(w)
    <2>1. \A v \in Workers \ {w} : at'[v] = at[v] /\ hand'[v] = hand[v]
      BY <1>9 DEF Crash, Drop, Goto, Typed, TypeOK
    <2>2. at'[w] \notin Within
      BY <1>9 DEF Crash, Drop, Goto, Within, Typed, TypeOK
    <2>3. key' = key /\ applied' = applied /\ Fault("crash")
      BY <1>9 DEF Crash
    <2>4. QED
      BY <2>1, <2>2, <2>3, PassPermits, OtherFaults DEF Typed, Kinds
  <1>10. QED
    BY <1>1, <1>2, <1>3, <1>4, <1>5, <1>6, <1>7, <1>8, <1>9 DEF Work

LEMMA NextPermits ==
    ASSUME IsFiniteSet(Workers), Typed, Typed', Permits, [Next]_vars
    PROVE  Permits'
  <1>1. CASE UNCHANGED vars
    BY <1>1, IdlePermits DEF vars, worker
  <1>2. ASSUME NEW e \in Events, SaveViewEvent(e) \/ PublishViewEvent(e) PROVE Permits'
    <2>1. UNCHANGED <<at, hand, key, applied>>
      BY <1>2 DEF SaveViewEvent, PublishViewEvent, worker
    <2>2. UNCHANGED faults \/ Fault("publish")
      BY <1>2 DEF SaveViewEvent, PublishViewEvent
    <2>3. QED
      BY <2>1, <2>2, IdlePermits, OtherFaults DEF Typed, Kinds
  <1>3. ASSUME NEW r \in Readers, Load(r) \/ Aggregate(r) \/ Store(r) PROVE Permits'
    BY <1>3, IdlePermits DEF Load, Aggregate, Store, worker
  <1>4. CASE Tick
    BY <1>4, IdlePermits DEF Tick, worker
  <1>5. QED
    BY <1>1, <1>2, <1>3, <1>4, WorkPermits DEF Next

LEMMA InitPermits == ASSUME IsFiniteSet(Workers), Init PROVE Permits
  <1>1. faults["claim"] = 0 /\ faults["reply"] = 0
    BY DEF Init, Kinds
  <1>2. ASSUME NEW e \in Events
        PROVE  applied[e] + Cardinality(Processing(e)) + (IF key[e] THEN 0 ELSE 1)
                   <= 1 + faults["claim"] + faults["reply"]
    <2>1. Processing(e) = {}
      BY DEF Init, Processing
    <2>2. Cardinality(Processing(e)) = 0
      BY <2>1, FS_EmptySet
    <2>3. applied[e] = 0 /\ key[e] = FALSE
      BY DEF Init
    <2>4. QED
      BY <1>1, <2>2, <2>3
  <1>3. QED
    BY <1>2 DEF Permits

LEMMA PermitsBound == ASSUME IsFiniteSet(Workers), Typed, Permits PROVE AppliedOnce
  <1>1. ASSUME NEW e \in Events PROVE applied[e] <= 1 + faults["claim"] + faults["reply"]
    <2>1. /\ applied[e] \in Nat /\ Free(e) \in {0, 1} /\ Cardinality(Processing(e)) \in Nat
          /\ faults["claim"] \in Nat /\ faults["reply"] \in Nat
      BY PermitTerms
    <2>2. applied[e] + Cardinality(Processing(e)) + Free(e) <= 1 + faults["claim"] + faults["reply"]
      BY PermitsAre DEF Permit
    <2>3. QED
      BY <2>1, <2>2
  <1>2. QED
    BY <1>1 DEF AppliedOnce

(* An event's weight is added once, and at most once more for every call to  *)
(* Redis that was not answered, whatever else fails, for any finite number   *)
(* of workers.                                                               *)
THEOREM AppliedAtMostOnce == ASSUME IsFiniteSet(Workers) PROVE Spec => []AppliedOnce
  <1>1. Init => Typed /\ Permits
    BY InitTypes, InitPermits
  <1>2. (Typed /\ Permits) /\ [Next]_vars => (Typed /\ Permits)'
    BY NextTypes, NextPermits
  <1>3. Typed /\ Permits => AppliedOnce
    BY PermitsBound
  <1>4. QED
    BY <1>1, <1>2, <1>3, PTL DEF Spec

--------------------------------------------------------------------------------
(* No event is lost without a fault                                          *)

\* Nobody knows of the event: it has not been published.
Hidden(e) == /\ ~key[e] /\ e \notin Queued
             /\ \A w \in Workers : hand[w] = None \/ hand[w].event # e

LossFaults == faults["publish"] + faults["crash"] + faults["release"]

LEMMA LossesAre ==
    LossesCounted <=>
        /\ Cardinality(Lost) <= LossFaults
        /\ \A e \in Events : e \notin saved \/ e \in toPublish => Hidden(e)
  BY DEF LossesCounted, LossFaults, Hidden

\* The events in a queue, after each thing that is done to it.
EventsIn(s) == {s[i].event : i \in DOMAIN s}

LEMMA EventsInQueues ==
    ASSUME NEW s \in Seq(Message), NEW m \in Message
    PROVE  /\ EventsIn(Append(s, m)) = EventsIn(s) \cup {m.event}
           /\ EventsIn(<<m>> \o s) = EventsIn(s) \cup {m.event}
           /\ s # <<>> => EventsIn(s) = EventsIn(Tail(s)) \cup {Head(s).event}
  <1>1. EventsIn(Append(s, m)) = EventsIn(s) \cup {m.event}
    <2>1. DOMAIN Append(s, m) = 1..(Len(s) + 1) /\ DOMAIN s = 1..Len(s) /\ Len(s) \in Nat
      OBVIOUS
    <2>2. \A i \in DOMAIN s : Append(s, m)[i] = s[i]
      OBVIOUS
    <2>3. Append(s, m)[Len(s) + 1] = m
      OBVIOUS
    <2> QED
      BY <2>1, <2>2, <2>3 DEF EventsIn
  <1>2. ASSUME NEW t \in Seq(Message), t # <<>>
        PROVE  EventsIn(t) = EventsIn(Tail(t)) \cup {Head(t).event}
    <2>1. /\ DOMAIN t = 1..Len(t) /\ DOMAIN Tail(t) = 1..(Len(t) - 1) /\ Len(t) \in Nat \ {0}
          /\ Head(t) = t[1] /\ \A i \in DOMAIN Tail(t) : Tail(t)[i] = t[i + 1]
      BY <1>2, HeadTailProperties
    <2>2. ASSUME NEW e \in EventsIn(t) PROVE e \in EventsIn(Tail(t)) \cup {Head(t).event}
      <3>1. PICK i \in DOMAIN t : e = t[i].event
        BY DEF EventsIn
      <3>2. CASE i = 1
        BY <2>1, <3>1, <3>2
      <3>3. CASE i # 1
        <4>1. i - 1 \in DOMAIN Tail(t) /\ Tail(t)[i - 1] = t[i]
          BY <2>1, <3>1, <3>3
        <4> QED
          BY <3>1, <4>1 DEF EventsIn
      <3> QED
        BY <3>2, <3>3
    <2>3. ASSUME NEW e \in EventsIn(Tail(t)) PROVE e \in EventsIn(t)
      <3>1. PICK i \in DOMAIN Tail(t) : e = Tail(t)[i].event
        BY DEF EventsIn
      <3>2. i + 1 \in DOMAIN t /\ t[i + 1] = Tail(t)[i]
        BY <2>1
      <3> QED
        BY <3>1, <3>2 DEF EventsIn
    <2>4. Head(t).event \in EventsIn(t)
      BY <2>1 DEF EventsIn
    <2> QED
      BY <2>2, <2>3, <2>4
  <1>3. EventsIn(<<m>> \o s) = EventsIn(s) \cup {m.event}
    <2>1. <<m>> \o s \in Seq(Message) /\ <<m>> \o s # <<>>
      BY QueueTypes
    <2>2. Head(<<m>> \o s) = m /\ Tail(<<m>> \o s) = s
      OBVIOUS
    <2> QED
      BY <1>2, <2>1, <2>2
  <1> QED
    BY <1>1, <1>2, <1>3

\* A step loses no event, or one event and makes a fault that counts.
LEMMA LossPaid ==
    ASSUME IsFiniteSet(Events), Typed, Typed', Cardinality(Lost) <= LossFaults,
           UNCHANGED faults \/ \E k \in Kinds : Fault(k),
           \/ Lost' \subseteq Lost
           \/ \E e : Lost' \subseteq Lost \cup {e} /\ \E k \in {"publish", "crash", "release"} : Fault(k)
    PROVE  Cardinality(Lost)' <= LossFaults'
  <1>1. IsFiniteSet(Lost) /\ IsFiniteSet(Lost')
    <2>1. Lost \subseteq Events /\ Lost' \subseteq Events
      BY DEF Typed, TypeOK, Lost, Missed
    <2> QED
      BY <2>1, FS_Subset
  <1>2. Cardinality(Lost) \in Nat /\ Cardinality(Lost') \in Nat
    BY <1>1, FS_CardinalityType
  <1>3. \A k \in {"publish", "crash", "release"} : faults[k] \in Nat /\ faults'[k] \in Nat
    BY DEF Typed, TypeOK, Kinds
  <1>4. LossFaults \in Nat /\ LossFaults' \in Nat /\ LossFaults' >= LossFaults
    <2>1. \A k \in {"publish", "crash", "release"} : faults'[k] >= faults[k]
      BY <1>3, FaultTypes DEF Typed, Kinds
    <2> QED
      BY <1>3, <2>1 DEF LossFaults
  <1>5. CASE Lost' \subseteq Lost
    <2>1. Cardinality(Lost') <= Cardinality(Lost)
      BY <1>1, <1>5, FS_Subset
    <2> QED
      BY <1>2, <1>4, <2>1
  <1>6. ASSUME NEW e, Lost' \subseteq Lost \cup {e}, NEW k \in {"publish", "crash", "release"}, Fault(k)
        PROVE  Cardinality(Lost)' <= LossFaults'
    <2>1. LossFaults' = LossFaults + 1
      <3>1. faults'[k] = faults[k] + 1 /\ \A j \in Kinds \ {k} : faults'[j] = faults[j]
        BY <1>6, FaultTypes DEF Typed, Kinds
      <3> QED
        BY <1>3, <3>1 DEF LossFaults, Kinds
    <2>2. IsFiniteSet(Lost \cup {e}) /\ Cardinality(Lost \cup {e}) <= Cardinality(Lost) + 1
      BY <1>1, <1>2, FS_AddElement
    <2>3. Cardinality(Lost') <= Cardinality(Lost \cup {e})
      BY <1>6, <2>2, FS_Subset
    <2>4. Cardinality(Lost \cup {e}) \in Nat
      BY <2>2, FS_CardinalityType
    <2> QED
      BY <1>2, <1>4, <2>1, <2>2, <2>3, <2>4
  <1> QED
    BY <1>5, <1>6

\* A worker's step on its event leaves what may become of the others.
OnlyOwn(w) ==
    /\ \A v \in Workers \ {w} : at'[v] = at[v] /\ hand'[v] = hand[v]
    /\ hand'[w] = hand[w] \/ (hand'[w] = None /\ at'[w] = "idle")
    /\ Queued \subseteq Queued' /\ Queued' \subseteq Queued \cup {Event(w)}
    /\ \A f \in Events \ {Event(w)} : key'[f] = key[f] /\ applied'[f] = applied[f]
    /\ applied'[Event(w)] >= applied[Event(w)]
    /\ dead \subseteq dead'
    /\ UNCHANGED api

LEMMA OwnLost ==
    ASSUME Typed, NEW w \in Workers, at[w] # "idle", OnlyOwn(w), NEW e, e = Event(w)
    PROVE  /\ Lost' \subseteq Lost \cup {e}
           /\ (Live(e) => applied'[e] > 0 \/ e \in dead' \/ Live(e)') => Lost' \subseteq Lost
  <1>1. saved' = saved /\ toPublish' = toPublish /\ saved \subseteq Events
    BY DEF OnlyOwn, api, Typed, TypeOK
  <1>2. ASSUME NEW f \in Lost', f # e PROVE f \in Lost
    <2>1. f \in saved /\ applied[f] = 0 /\ f \notin dead /\ ~Live(f)'
      BY <1>1, <1>2 DEF Lost, Missed, OnlyOwn
    <2>2. Live(f) => Live(f)'
      <3>1. Processing(f) # {} => Processing(f)' # {}
        BY <1>2 DEF Processing, OnlyOwn, Event
      <3>2. f \in Queued => f \in Queued'
        BY DEF OnlyOwn
      <3>3. \A v \in Workers : at[v] \in {"claim", "failed"} /\ hand[v].event = f
                                => at'[v] \in {"claim", "failed"} /\ hand'[v].event = f
        BY <1>2 DEF OnlyOwn, Event
      <3>4. key'[f] = key[f]
        BY <1>1, <1>2, <2>1 DEF OnlyOwn
      <3> QED
        BY <1>1, <3>1, <3>2, <3>3, <3>4 DEF Live
    <2> QED
      BY <2>1, <2>2 DEF Lost, Missed
  <1>3. ASSUME e \in Lost', Live(e) => applied'[e] > 0 \/ e \in dead' \/ Live(e)'
        PROVE  e \in Lost
    <2>1. e \in Events /\ applied[e] \in Nat /\ applied'[e] >= applied[e]
      BY InHand DEF Typed, TypeOK, OnlyOwn
    <2>2. e \in saved /\ applied'[e] = 0 /\ e \notin dead' /\ ~Live(e)'
      BY <1>1, <1>3 DEF Lost, Missed
    <2>3. applied[e] = 0 /\ e \notin dead /\ ~Live(e)
      BY <1>3, <2>1, <2>2 DEF OnlyOwn
    <2> QED
      BY <2>2, <2>3 DEF Lost, Missed
  <1> QED
    BY <1>2, <1>3

LEMMA OwnHidden ==
    ASSUME Typed, NEW w \in Workers, at[w] # "idle", OnlyOwn(w),
           NEW e \in Events, e \notin saved' \/ e \in toPublish', LossesCounted
    PROVE  Hidden(e)'
  <1>1. Hidden(e)
    BY LossesAre DEF OnlyOwn, api
  <1>2. e # Event(w)
    BY <1>1, InHand DEF Hidden, Event
  <1> QED
    BY <1>1, <1>2 DEF Hidden, OnlyOwn

\* A step by which a worker that has a delivery loses no event, or pays for it.
LEMMA OwnCounted ==
    ASSUME IsFiniteSet(Events), Typed, Typed', LossesCounted,
           NEW w \in Workers, at[w] # "idle", OnlyOwn(w), NEW e, e = Event(w),
           UNCHANGED faults \/ \E k \in Kinds : Fault(k),
           \/ Live(e) => applied'[e] > 0 \/ e \in dead' \/ Live(e)'
           \/ \E k \in {"publish", "crash", "release"} : Fault(k)
    PROVE  LossesCounted'
  <1>1. Lost' \subseteq Lost \cup {e}
    BY OwnLost
  <1>2. \/ Lost' \subseteq Lost
        \/ \E f : Lost' \subseteq Lost \cup {f} /\ \E k \in {"publish", "crash", "release"} : Fault(k)
    BY <1>1, OwnLost
  <1>3. Cardinality(Lost) <= LossFaults
    BY LossesAre
  <1>4. Cardinality(Lost)' <= LossFaults'
    BY <1>2, <1>3, LossPaid
  <1>5. \A f \in Events : f \notin saved' \/ f \in toPublish' => Hidden(f)'
    BY OwnHidden
  <1> QED
    BY <1>4, <1>5 DEF LossesCounted, LossFaults, Hidden

LEMMA WorkCounted ==
    ASSUME IsFiniteSet(Events), Typed, Typed', LossesCounted, NEW w \in Workers,
           Work(w) \/ Crash(w), at[w] # "idle"
    PROVE  LossesCounted'
  <1>0. PICK e : e = Event(w)
    OBVIOUS
  <1>1. /\ e \in Events /\ hand[w] \in Message /\ hand[w] # None /\ hand[w].event = e
    BY <1>0, InHand DEF Event
  <1>2. /\ applied \in [Events -> Nat] /\ key \in [Events -> BOOLEAN] /\ queue \in Seq(Message)
        /\ hand \in [Workers -> Message \cup {None}] /\ at \in [Workers -> Steps]
    BY DEF Typed, TypeOK
  <1>3. Queued = EventsIn(queue) /\ Queued' = EventsIn(queue')
    BY DEF Queued, EventsIn
  \* Where the worker answers for the key, the event is still alive.
  <1>4. at'[w] \in {"get", "set", "release"} /\ hand' = hand => Live(e)'
    BY <1>1 DEF Live, Processing
  <1>5. CASE Claim(w) \/ ClaimFails(w)
    <2>1. /\ UNCHANGED <<api, queue, dead, hand, applied>> /\ at[w] = "claim"
          /\ \A f \in Events \ {e} : key'[f] = key[f]
          /\ \A v \in Workers \ {w} : at'[v] = at[v] /\ hand'[v] = hand[v]
          /\ at'[w] = "get" \/ (at'[w] = "ack" /\ key[e] /\ key'[e])
          /\ UNCHANGED faults \/ Fault("claim")
      BY <1>0, <1>1, <1>2, <1>5 DEF Claim, ClaimFails, Goto, Event
    <2>2. OnlyOwn(w)
      BY <1>0, <1>1, <1>2, <1>3, <2>1 DEF OnlyOwn
    <2>3. ASSUME Live(e) PROVE Live(e)'
      <3>1. CASE at'[w] = "get"
        BY <1>4, <2>1, <3>1
      <3>2. CASE at'[w] # "get"
        <4>1. e \in toPublish \/ Processing(e) # {}
          BY <2>1, <2>3, <3>2 DEF Live
        <4>2. Processing(e) # {} => Processing(e)' # {}
          BY <2>1 DEF Processing
        <4> QED
          BY <2>1, <4>1, <4>2 DEF Live, api
      <3> QED
        BY <3>1, <3>2
    <2> QED
      BY <1>0, <2>1, <2>2, <2>3, OwnCounted DEF Kinds
  <1>6. CASE GetVector(w) \/ GetFails(w) \/ SetVector(w) \/ SetUnanswered(w)
    <2>1. /\ UNCHANGED <<api, queue, dead, key, hand>>
          /\ \A v \in Workers \ {w} : at'[v] = at[v]
          /\ \/ (at'[w] \in {"set", "release"} /\ applied' = applied)
             \/ Count(e)
          /\ UNCHANGED faults \/ Fault("apply") \/ Fault("reply")
      BY <1>0, <1>1, <1>2, <1>6
         DEF GetVector, GetFails, SetVector, SetUnanswered, Goto
    <2>2. /\ \A f \in Events \ {e} : applied'[f] = applied[f]
          /\ applied'[e] >= applied[e] /\ (Count(e) => applied'[e] > 0)
      BY <1>1, <1>2, <2>1, CountTypes DEF Typed
    <2>3. OnlyOwn(w)
      BY <1>0, <1>1, <1>2, <1>3, <2>1, <2>2 DEF OnlyOwn
    <2>4. applied'[e] > 0 \/ Live(e)'
      BY <1>4, <2>1, <2>2
    <2> QED
      BY <1>0, <2>1, <2>3, <2>4, OwnCounted DEF Kinds
  <1>7. CASE Release(w)
    <2>1. /\ UNCHANGED <<api, queue, dead, hand, applied>> /\ at'[w] = "failed"
          /\ \A v \in Workers \ {w} : at'[v] = at[v]
          /\ \A f \in Events \ {e} : key'[f] = key[f]
          /\ (~key'[e] /\ UNCHANGED faults) \/ Fault("release")
      BY <1>0, <1>1, <1>2, <1>7 DEF Release, Goto
    <2>2. OnlyOwn(w)
      BY <1>0, <1>1, <1>2, <1>3, <2>1 DEF OnlyOwn
    <2>3. ~key'[e] => Live(e)'
      BY <1>1, <2>1 DEF Live
    <2> QED
      BY <1>0, <2>1, <2>2, <2>3, OwnCounted DEF Kinds
  <1>8. CASE Retry(w) \/ Ack(w)
    <2>1. /\ UNCHANGED <<api, key, applied, faults>> /\ at'[w] \in {"ack", "idle"}
          /\ \A v \in Workers \ {w} : at'[v] = at[v] /\ hand'[v] = hand[v]
          /\ hand'[w] = hand[w] \/ (hand'[w] = None /\ at'[w] = "idle")
          /\ dead \subseteq dead'
      BY <1>1, <1>2, <1>8 DEF Retry, Ack, Drop, Goto
    <2>2. \/ /\ at[w] = "ack" /\ UNCHANGED queue
          \/ /\ at[w] = "failed" /\ e \in dead' /\ UNCHANGED queue
          \/ /\ at[w] = "failed"
             /\ EventsIn(queue') = EventsIn(queue) \cup {e}
      <3>1. CASE Ack(w)
        BY <3>1 DEF Ack
      <3>2. CASE Retry(w) /\ hand[w].retries < MaxRetries
        <4> DEFINE n == [hand[w] EXCEPT !.retries = hand[w].retries + 1]
        <4>1. n \in Message /\ n.event = e /\ queue' = Append(queue, n)
          BY <1>1, <3>2, RetriedTypes DEF Retry, Message
        <4> HIDE DEF n
        <4> QED
          BY <1>2, <3>2, <4>1, EventsInQueues DEF Retry
      <3>3. CASE Retry(w) /\ ~(hand[w].retries < MaxRetries)
        BY <1>1, <3>3 DEF Retry
      <3> QED
        BY <1>8, <3>1, <3>2, <3>3
    <2>3. OnlyOwn(w)
      BY <1>0, <1>1, <1>2, <1>3, <2>1, <2>2 DEF OnlyOwn
    <2>4. Live(e) => e \in dead' \/ Live(e)'
      <3>1. Processing(e) # {} => Processing(e)' # {}
        BY <2>1, <2>2 DEF Processing
      <3> QED
        BY <1>3, <2>1, <2>2, <3>1 DEF Live, api
    <2> QED
      BY <1>0, <2>1, <2>3, <2>4, OwnCounted
  <1>9. CASE Crash(w)
    <2>1. /\ UNCHANGED <<api, dead, key, applied>> /\ at'[w] = "idle" /\ hand'[w] = None
          /\ \A v \in Workers \ {w} : at'[v] = at[v] /\ hand'[v] = hand[v]
          /\ queue' = <<hand[w]>> \o queue /\ Fault("crash")
      BY <1>1, <1>2, <1>9 DEF Crash, Drop, Goto
    <2>2. Queued' = Queued \cup {e}
      BY <1>1, <1>2, <1>3, <2>1, EventsInQueues
    <2>3. OnlyOwn(w)
      BY <1>0, <1>1, <1>2, <2>1, <2>2 DEF OnlyOwn
    <2> QED
      BY <1>0, <2>1, <2>3, OwnCounted DEF Kinds
  <1> QED
    BY <1>5, <1>6, <1>7, <1>8, <1>9 DEF Work, Deliver

\* A worker takes a delivery, or dies without one at work.
LEMMA IdleCounted ==
    ASSUME IsFiniteSet(Events), Typed, Typed', LossesCounted, NEW w \in Workers,
           Work(w) \/ Crash(w), at[w] = "idle"
    PROVE  LossesCounted'
  <1>1. CASE Deliver(w)
    <2>1. /\ UNCHANGED <<api, dead, key, applied, faults>> /\ at'[w] = "claim"
          /\ \A v \in Workers \ {w} : at'[v] = at[v] /\ hand'[v] = hand[v]
          /\ hand'[w] = Head(queue) /\ queue' = Tail(queue) /\ queue # <<>> /\ queue \in Seq(Message)
      BY <1>1 DEF Deliver, Goto, Typed, TypeOK
    <2>2. Queued = Queued' \cup {hand'[w].event}
      <3>1. Queued = EventsIn(queue) /\ Queued' = EventsIn(queue')
        BY DEF Queued, EventsIn
      <3>2. Head(queue) \in Message
        BY <2>1, HeadTailProperties
      <3> QED
        BY <2>1, <3>1, <3>2, EventsInQueues
    <2>3. ASSUME NEW f \in Events, Live(f) PROVE Live(f)'
      <3>1. Processing(f) # {} => Processing(f)' # {}
        BY <2>1 DEF Processing
      <3> QED
        BY <2>1, <2>2, <2>3, <3>1 DEF Live, api
    <2>4. Lost' \subseteq Lost
      BY <2>1, <2>3 DEF Lost, Missed, api, Typed, TypeOK
    <2>5. \A f \in Events : f \notin saved' \/ f \in toPublish' => Hidden(f)'
      BY <2>1, <2>2, LossesAre DEF Hidden, api
    <2>6. Cardinality(Lost)' <= LossFaults'
      BY <2>1, <2>4, LossPaid, LossesAre
    <2> QED
      BY <2>5, <2>6 DEF LossesCounted, LossFaults, Hidden
  <1>2. ~Crash(w)
    BY DEF Crash, Typed, Engaged
  <1> QED
    BY <1>1, <1>2 DEF Work, Claim, ClaimFails, GetVector, GetFails, SetVector, SetUnanswered,
                      Release, Retry, Ack

\* The steps of the API.
LEMMA ApiCounted ==
    ASSUME IsFiniteSet(Events), Typed, Typed', LossesCounted, NEW e \in Events,
           SaveViewEvent(e) \/ PublishViewEvent(e)
    PROVE  LossesCounted'
  <1>1. UNCHANGED <<dead, key, hand, at, applied>> /\ toPublish \subseteq saved
    BY DEF SaveViewEvent, PublishViewEvent, worker, Typed, TypeOK
  <1>2. ASSUME NEW f \in Events, Live(f), f # e \/ SaveViewEvent(e) \/ e \in Queued', Queued \subseteq Queued',
               e \in toPublish' \/ Hidden(e), f # e => (f \in toPublish <=> f \in toPublish')
        PROVE  Live(f)'
    <2>1. Processing(f)' = Processing(f)
      BY <1>1 DEF Processing
    <2>2. f \in Queued => f \in Queued'
      BY <1>2
    <2>3. f = e /\ e \in toPublish' => Live(f)'
      BY DEF Live
    <2> QED
      BY <1>1, <1>2, <2>1, <2>2, <2>3 DEF Live, SaveViewEvent, Hidden
  <1>3. CASE SaveViewEvent(e)
    <2>1. /\ saved' = saved \cup {e} /\ toPublish' = toPublish \cup {e} /\ Queued' = Queued
          /\ e \notin saved /\ UNCHANGED faults
      BY <1>3 DEF SaveViewEvent, Queued
    <2>2. Live(e)'
      BY <2>1 DEF Live
    <2>3. Lost' \subseteq Lost
      <3>1. ASSUME NEW f \in Lost' PROVE f \in Lost
        <4>1. f \in saved /\ f # e /\ f \in Events /\ ~Live(f)'
          BY <2>1, <2>2, <3>1 DEF Lost, Missed, Typed, TypeOK
        <4>2. ~Live(f)
          BY <1>2, <1>3, <2>1, <4>1
        <4> QED
          BY <1>1, <3>1, <4>1, <4>2 DEF Lost, Missed
      <3> QED
        BY <3>1
    <2>4. \A f \in Events : f \notin saved' \/ f \in toPublish' => Hidden(f)'
      BY <1>1, <2>1, LossesAre DEF Hidden
    <2>5. Cardinality(Lost)' <= LossFaults'
      BY <2>1, <2>3, LossPaid, LossesAre
    <2> QED
      BY <2>4, <2>5 DEF LossesCounted, LossFaults, Hidden
  <1>4. CASE PublishViewEvent(e)
    <2>1. saved' = saved /\ toPublish' = toPublish \ {e} /\ e \in toPublish
      BY <1>4 DEF PublishViewEvent
    <2>2. \/ Queued' = Queued \cup {e} /\ UNCHANGED faults
          \/ Queued' = Queued /\ Fault("publish")
      <3> DEFINE m == [event |-> e, retries |-> 0]
      <3>1. m \in Message /\ m.event = e
        BY RetriesNat DEF Message
      <3>2. Queued = EventsIn(queue) /\ Queued' = EventsIn(queue') /\ queue \in Seq(Message)
        BY DEF Queued, EventsIn, Typed, TypeOK
      <3>3. (queue' = Append(queue, m) /\ UNCHANGED faults) \/ (Fault("publish") /\ UNCHANGED queue)
        BY <1>4 DEF PublishViewEvent
      <3> HIDE DEF m
      <3>4. EventsIn(Append(queue, m)) = EventsIn(queue) \cup {e}
        BY <3>1, <3>2, EventsInQueues
      <3> QED
        BY <3>2, <3>3, <3>4
    <2>3. Hidden(e) /\ \A f \in Events : f \notin saved' \/ f \in toPublish' => Hidden(f)'
      BY <1>1, <2>1, <2>2, LossesAre DEF Hidden
    <2>4. ASSUME NEW f \in Lost', f # e \/ e \in Queued' PROVE f \in Lost
      <3>1. f \in saved /\ f \in Events /\ ~Live(f)'
        BY <2>1, <2>4 DEF Lost, Missed, Typed, TypeOK
      <3>2. ~Live(f)
        <4>1. Queued \subseteq Queued' /\ (f # e => (f \in toPublish <=> f \in toPublish'))
          BY <2>1, <2>2
        <4> QED
          BY <1>2, <2>3, <2>4, <3>1, <4>1
      <3> QED
        BY <1>1, <2>4, <3>1, <3>2 DEF Lost, Missed
    <2>5. \/ Lost' \subseteq Lost
          \/ Lost' \subseteq Lost \cup {e} /\ Fault("publish")
      BY <2>2, <2>4
    <2>6. UNCHANGED faults \/ \E k \in Kinds : Fault(k)
      BY <2>2 DEF Kinds
    <2>7. Cardinality(Lost)' <= LossFaults'
      BY <2>5, <2>6, LossPaid, LossesAre
    <2> QED
      BY <2>3, <2>7 DEF LossesCounted, LossFaults, Hidden
  <1> QED
    BY <1>3, <1>4

LEMMA NextCounted ==
    ASSUME IsFiniteSet(Events), Typed, Typed', LossesCounted, [Next]_vars
    PROVE  LossesCounted'
  <1>1. ASSUME UNCHANGED <<saved, toPublish, queue, dead, key, hand, at, applied, faults>>
        PROVE  LossesCounted'
    <2>1. UNCHANGED <<Queued, Missed>> /\ \A e : UNCHANGED Processing(e)
      BY <1>1 DEF Queued, Missed, Processing
    <2>2. \A e : Live(e)' <=> Live(e)
      BY <1>1, <2>1 DEF Live
    <2>3. Lost' = Lost
      BY <2>1, <2>2 DEF Lost
    <2> QED
      BY <1>1, <2>1, <2>3 DEF LossesCounted
  <1>2. CASE \E e \in Events : SaveViewEvent(e) \/ PublishViewEvent(e)
    BY <1>2, ApiCounted
  <1>3. CASE \E w \in Workers : Work(w) \/ Crash(w)
    BY <1>3, WorkCounted, IdleCounted
  <1>4. CASE \E r \in Readers : Load(r) \/ Aggregate(r) \/ Store(r)
    BY <1>1, <1>4 DEF Load, Aggregate, Store, api, worker
  <1>5. CASE Tick
    BY <1>1, <1>5 DEF Tick, api, worker
  <1>6. CASE UNCHANGED vars
    BY <1>1, <1>6 DEF vars, api, worker
  <1> QED
    BY <1>2, <1>3, <1>4, <1>5, <1>6 DEF Next

LEMMA InitCounted == Init => LossesCounted
  <1> SUFFICES ASSUME Init PROVE LossesCounted
    OBVIOUS
  <1>1. Lost = {} /\ Cardinality(Lost) = 0
    BY FS_EmptySet DEF Init, Lost, Missed
  <1>2. \A e \in Events : Hidden(e)
    BY DEF Init, Hidden, Queued
  <1>3. LossFaults = 0
    BY DEF Init, LossFaults, Kinds
  <1> QED
    BY <1>1, <1>2, <1>3, LossesAre

\* Once everything has settled nothing is alive, and what was missed is lost.
LEMMA SettledLosses ==
    ASSUME LossesCounted
    PROVE  LossesExplained
  <1>1. ASSUME Settled PROVE Missed = Lost
    <2>1. ASSUME NEW e, Live(e) PROVE FALSE
      <3>1. toPublish = {} /\ Queued = {} /\ Processing(e) = {}
        BY <1>1 DEF Settled, Queued, Processing
      <3> QED
        BY <1>1, <2>1, <3>1 DEF Settled, Live
    <2> QED
      BY <2>1 DEF Lost
  <1> QED
    BY <1>1, LossesAre DEF LossesExplained, LossFaults

\* worker.go:88, 99: a recorded event is applied or dead-lettered in the end,
\* and each one that is neither was lost by one failed publication, one crash
\* under a claimed key or one failed release, for any finite set of events and
\* any number of workers, readers and retries.
THEOREM LossesAreExplained ==
    ASSUME IsFiniteSet(Events)
    PROVE  Spec => []LossesExplained
  <1>1. Init => Typed /\ LossesCounted
    BY InitTypes, InitCounted
  <1>2. Typed /\ LossesCounted /\ [Next]_vars => Typed' /\ LossesCounted'
    BY NextTypes, NextCounted
  <1>3. Typed /\ LossesCounted => LossesExplained
    BY SettledLosses
  <1> QED
    BY <1>1, <1>2, <1>3, PTL DEF Spec
================================================================================
