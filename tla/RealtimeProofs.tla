----------------------------- MODULE RealtimeProofs -----------------------------
(***************************************************************************)
(* Proofs about the hub and the streams, for any users, handlers, sizes    *)
(* and numbers of messages, calls and faults.                              *)
(*                                                                         *)
(* The hub by itself keeps its books (HubIInv): a client is registered for *)
(* its owner only, so what one call takes out of the registry no other     *)
(* finds there. Every step of the composition is a step of the hub or      *)
(* leaves it alone. What a stream is told follows a notification on its    *)
(* way: from the goroutine that counts to Redis, to the dispatch, to the   *)
(* buffer, to the response (NothingIsDropped); a change of a user's unread *)
(* messages starts a new one (CountChanges).                               *)
(***************************************************************************)
EXTENDS Realtime, FiniteSetTheorems, FunctionTheorems, WellFoundedInduction, TLAPS

--------------------------------------------------------------------------------
(* Making room for a client.                                                 *)

\* A finite set of numbers has at most `n` members with fewer than `n` above them.
LEMMA FewNewest ==
    ASSUME NEW S \in SUBSET Nat, IsFiniteSet(S), NEW n \in Nat
    PROVE  Cardinality({c \in S : Cardinality(Later(S, c)) < n}) <= n
  <1> DEFINE T == {c \in S : Cardinality(Later(S, c)) < n}
  <1>1. CASE T = {}
    <2> HIDE DEF T
    <2> QED
      BY <1>1, FS_EmptySet DEF T
  <1>2. CASE T # {}
    <2>1. IsWellFoundedOn(OpToRel(<, Nat), Nat)
      BY NatLessThanWellFounded
    <2>2. PICK m \in T : \A y \in T : <<y, m>> \notin OpToRel(<, Nat)
      <3> HIDE DEF T
      <3>1. T \subseteq Nat
        BY DEF T
      <3> QED
        BY <1>2, <2>1, <3>1, WFMin
    <2>3. \A y \in T : y >= m
      <3>1. T \subseteq Nat
        OBVIOUS
      <3> HIDE DEF T
      <3>2. \A y \in T : ~ (y < m)
        BY <2>2, <3>1, Zenon DEF OpToRel
      <3> QED
        BY <3>1, <3>2
    <2> DEFINE U == Later(S, m)
    <2>4. IsFiniteSet(U) /\ Cardinality(U) \in Nat /\ Cardinality(U) < n
      <3>1. U \in SUBSET S
        BY DEF Later
      <3>2. Cardinality(U) < n
        BY <2>2
      <3> HIDE DEF U
      <3> QED
        BY <3>1, <3>2, FS_Subset, FS_CardinalityType
    <2>5. T \subseteq U \cup {m}
      <3>1. T \subseteq S
        OBVIOUS
      <3> HIDE DEF T
      <3> SUFFICES ASSUME NEW c \in T, c # m PROVE c \in U
        OBVIOUS
      <3>2. c \in Nat /\ m \in Nat /\ c > m
        BY <2>3, <3>1
      <3> QED
        BY <3>1, <3>2 DEF Later
    <2>6. m \notin U
      BY DEF Later
    <2> HIDE DEF T, U
    <2>7. IsFiniteSet(U \cup {m}) /\ Cardinality(U \cup {m}) = Cardinality(U) + 1
      BY <2>4, <2>6, FS_AddElement
    <2>8. Cardinality(T) <= Cardinality(U) + 1
      BY <2>5, <2>7, FS_Subset
    <2>9. Cardinality(T) \in Nat
      BY <2>5, <2>7, FS_Subset, FS_CardinalityType
    <2> QED
      BY <2>4, <2>8, <2>9 DEF T
  <1> QED
    BY <1>1, <1>2

\* The clients that stay when a new one comes leave room for it.
LEMMA RoomIsMade ==
    ASSUME HubTypeOK, NEW u \in Users
    PROVE  /\ IsFiniteSet(members[u] \ Kicked(u))
           /\ Cardinality((members[u] \ Kicked(u)) \cup {nextID + 1}) <= MaxConnections
  <1> DEFINE S == members[u]
             T == {c \in S : Cardinality(Later(S, c)) < MaxConnections - 1}
  <1>1. S \in SUBSET (1..nextID) /\ nextID \in Nat
    BY MaxClientsNat DEF HubTypeOK
  <1>2. IsFiniteSet(S) /\ S \in SUBSET Nat
    <2> HIDE DEF S
    <2>1. IsFiniteSet(1..nextID)
      BY <1>1, FS_Interval
    <2>2. S \in SUBSET Nat
      BY <1>1
    <2> QED
      BY <1>1, <2>1, <2>2, FS_Subset
  <1>3. MaxConnections - 1 \in Nat
    BY SizesPositive
  <1>4. \A c \in S : Cardinality(Later(S, c)) \in Nat
    <2> SUFFICES ASSUME NEW c \in S PROVE Cardinality(Later(S, c)) \in Nat
      OBVIOUS
    <2>1. Later(S, c) \in SUBSET S
      BY DEF Later
    <2> QED
      BY <1>2, <2>1, FS_Subset, FS_CardinalityType
  <1>5. S \ Kicked(u) = T
    <2>1. \A c \in S : ~ (Cardinality(Later(S, c)) >= MaxConnections - 1)
                         <=> Cardinality(Later(S, c)) < MaxConnections - 1
      BY <1>3, <1>4
    <2> QED
      BY <2>1 DEF Kicked
  <1>6. Cardinality(T) <= MaxConnections - 1
    <2> HIDE DEF S
    <2> QED
      BY <1>2, <1>3, FewNewest
  <1>7. T \in SUBSET S
    OBVIOUS
  <1> HIDE DEF S, T
  <1>8. IsFiniteSet(T) /\ Cardinality(T) \in Nat
    BY <1>2, <1>7, FS_Subset, FS_CardinalityType
  <1>9. Cardinality(T \cup {nextID + 1}) <= Cardinality(T) + 1
    BY <1>8, FS_AddElement
  <1>10. Cardinality(T \cup {nextID + 1}) \in Nat
    BY <1>8, FS_AddElement, FS_CardinalityType
  <1> QED
    <2>1. Cardinality(T \cup {nextID + 1}) <= MaxConnections
      BY SizesPositive, <1>6, <1>8, <1>9, <1>10
    <2> QED
      BY <1>5, <1>8, <2>1 DEF S

--------------------------------------------------------------------------------
(* The types of the hub.                                                     *)

\* Everything the hub keeps is finite.
LEMMA HubFinite ==
    ASSUME HubTypeOK
    PROVE  /\ nextID \in Nat
           /\ \A S \in SUBSET (1..nextID) : IsFiniteSet(S) /\ Cardinality(S) \in Nat
           /\ \A u \in Users : members[u] \in SUBSET (1..nextID)
           /\ Registered \in SUBSET (1..nextID)
           /\ \A u \in Users : Kicked(u) \in SUBSET members[u]
           /\ \A p \in Callers : left[p] \in SUBSET (1..nextID)
  <1>1. nextID \in Nat
    BY MaxClientsNat DEF HubTypeOK
  <1>2. IsFiniteSet(1..nextID)
    BY <1>1, FS_Interval
  <1>3. \A S \in SUBSET (1..nextID) : IsFiniteSet(S) /\ Cardinality(S) \in Nat
    BY <1>2, FS_Subset, FS_CardinalityType
  <1>4. \A u \in Users : members[u] \in SUBSET (1..nextID)
    BY DEF HubTypeOK
  <1>5. Registered \in SUBSET (1..nextID)
    BY <1>4 DEF Registered
  <1>6. \A u \in Users : Kicked(u) \in SUBSET members[u]
    BY DEF Kicked
  <1>7. \A p \in Callers : left[p] \in SUBSET (1..nextID)
    BY DEF HubTypeOK
  <1> QED
    BY <1>1, <1>3, <1>4, <1>5, <1>6, <1>7

LEMMA InitHubTypes == HubInit => HubTypeOK
  <1> SUFFICES ASSUME HubInit PROVE HubTypeOK
    OBVIOUS
  <1>1. \A u \in Users : Cardinality(members[u]) <= MaxConnections
    BY FS_EmptySet, SizesPositive DEF HubInit
  <1>2. \A c \in Clients : Len(buffer[c]) <= BufferSize
    BY SizesPositive DEF HubInit
  <1> QED
    BY <1>1, <1>2, MaxClientsNat DEF HubInit, HubTypeOK, Clients

LEMMA RegisterTypes ==
    ASSUME HubTypeOK, NEW p \in Callers, NEW u \in Users, Register(p, u)
    PROVE  HubTypeOK'
  <1>1. nextID \in Nat /\ nextID' = nextID + 1 /\ nextID' \in 0..MaxClients
    BY HubFinite, MaxClientsNat DEF Register, HubTypeOK
  <1>2. Kicked(u) \subseteq 1..nextID'
    BY HubFinite, <1>1
  <1>3. members' \in [Users -> SUBSET (1..nextID')]
    BY <1>1 DEF Register, HubTypeOK
  <1>4. \A v \in Users : Cardinality(members'[v]) <= MaxConnections
    BY RoomIsMade DEF Register, HubTypeOK
  <1>5. owner' \in [Clients -> Users \cup {None}] /\ \A c \in 1..nextID' : owner'[c] \in Users
    BY <1>1 DEF Register, HubTypeOK, Clients
  <1>6. closed' \subseteq 1..nextID' /\ left' \in [Callers -> SUBSET (1..nextID')]
    <2>1. \A c \in 1..nextID : c \in 1..nextID'
      BY <1>1
    <2>2. closed' \subseteq 1..nextID'
      BY <1>2, <2>1 DEF Register, HubTypeOK, Shut
    <2>3. left \in [Callers -> SUBSET (1..nextID')]
      BY <2>1 DEF HubTypeOK
    <2>4. left' \in [Callers -> SUBSET (1..nextID')]
      BY <1>2, <2>3 DEF Register
    <2> QED
      BY <2>2, <2>4
  <1>7. closing' \in [Callers -> SUBSET (1..nextID')] /\ targets' \subseteq 1..nextID'
    BY <1>1 DEF Register, HubTypeOK
  <1>8. joined' \subseteq Callers /\ UNCHANGED <<buffer, event, targets, gauge>>
    BY DEF Register, HubTypeOK
  <1> QED
    BY <1>1, <1>3, <1>4, <1>5, <1>6, <1>7, <1>8 DEF HubTypeOK

LEMMA UnregisterTypes ==
    ASSUME HubTypeOK, NEW p \in Callers, NEW c \in 1..nextID, Unregister(p, c)
    PROVE  /\ members' \in [Users -> SUBSET (1..nextID)]
           /\ \A u \in Users : Cardinality(members'[u]) <= MaxConnections
           /\ closing' \in [Callers -> SUBSET (1..nextID)]
           /\ left' \in [Callers -> SUBSET (1..nextID)]
  <1>1. members' \in [Users -> SUBSET (1..nextID)]
    BY DEF Unregister, HubTypeOK
  <1>2. ASSUME NEW u \in Users PROVE Cardinality(members'[u]) <= MaxConnections
    <2>1. members'[u] = members[u] \/ members'[u] = members[u] \ {c}
      BY DEF Unregister, HubTypeOK
    <2>2. IsFiniteSet(members[u]) /\ Cardinality(members[u]) \in Nat
      BY HubFinite
    <2>3. Cardinality(members[u] \ {c}) <= Cardinality(members[u])
      <3>1. members[u] \ {c} \in SUBSET members[u]
        OBVIOUS
      <3> QED
        BY <2>2, <3>1, FS_Subset
    <2>4. Cardinality(members[u]) <= MaxConnections
      BY DEF HubTypeOK
    <2>5. Cardinality(members[u] \ {c}) \in Nat
      BY <2>2, FS_RemoveElement, FS_CardinalityType
    <2> QED
      BY <2>1, <2>2, <2>3, <2>4, <2>5, SizesPositive
  <1>3. Removed(c) \in SUBSET (1..nextID)
    BY DEF Removed
  <1>4. closing' \in [Callers -> SUBSET (1..nextID)] /\ left' \in [Callers -> SUBSET (1..nextID)]
    BY <1>3 DEF Unregister, HubTypeOK
  <1> QED
    BY <1>1, <1>2, <1>4

LEMMA CloseTypes ==
    ASSUME HubTypeOK, NEW p \in Callers, Close(p)
    PROVE  HubTypeOK'
  <1>1. \A u \in Users : Cardinality(members'[u]) <= MaxConnections
    BY FS_EmptySet, SizesPositive DEF Close
  <1>2. closing' \in [Callers -> SUBSET (1..nextID)] /\ left' \in [Callers -> SUBSET (1..nextID)]
    BY HubFinite DEF Close, HubTypeOK
  <1> QED
    BY <1>1, <1>2 DEF Close, HubTypeOK

LEMMA WithinTypes ==
    ASSUME HubTypeOK, NEW p \in Callers, Within(p)
    PROVE  HubTypeOK'
  <1>1. CASE CloseOne(p)
    BY <1>1 DEF CloseOne, HubTypeOK
  <1>2. CASE ObserveLeft(p)
    <2>1. Cardinality(left[p]) \in Nat
      BY HubFinite
    <2>2. gauge' \in Int
      BY <1>2, <2>1 DEF ObserveLeft, HubTypeOK
    <2> QED
      BY <1>2, <2>2 DEF ObserveLeft, HubTypeOK
  <1>3. CASE ObserveJoined(p)
    BY <1>3 DEF ObserveJoined, HubTypeOK
  <1> QED
    BY <1>1, <1>2, <1>3 DEF Within

LEMMA OnEventTypes ==
    ASSUME HubTypeOK, NEW u \in Users, NEW e \in Events, OnEvent(u, e)
    PROVE  HubTypeOK'
  <1>1. event' \in Events \cup {None} /\ (event' = None <=> targets' = {})
    BY NoneIsNothing DEF OnEvent
  <1>2. targets' \subseteq 1..nextID
    BY HubFinite DEF OnEvent
  <1> QED
    BY <1>1, <1>2 DEF OnEvent, HubTypeOK

\* The event of a dispatch goes to one more client.
LEMMA TrySendTypes ==
    ASSUME HubTypeOK, NEW c \in targets, TrySend(c)
    PROVE  HubTypeOK'
  <1>1. c \in 1..nextID /\ c \in Clients /\ event \in Events
    BY MaxClientsNat DEF HubTypeOK, Clients
  <1>2. /\ event' \in Events \cup {None} /\ (event' = None <=> targets' = {})
        /\ targets' \subseteq 1..nextID
    <2>1. targets' = {} <=> targets = {c}
      BY DEF TrySend
    <2>2. event # None /\ event' \in {event, None} /\ (event' = None <=> targets = {c})
      BY <1>1, NoneIsNothing DEF TrySend
    <2>3. targets' \subseteq 1..nextID
      BY DEF TrySend, HubTypeOK
    <2> QED
      BY <1>1, <2>1, <2>2, <2>3
  <1>3. CASE Sent(c)
    <2>1. buffer[c] \in Seq(Events) /\ Len(buffer[c]) < BufferSize
      BY <1>1, <1>3 DEF Sent, HasRoom, HubTypeOK
    <2>2. Append(buffer[c], event) \in Seq(Events) /\ Len(Append(buffer[c], event)) <= BufferSize
      BY <1>1, <2>1, SizesPositive
    <2>3. buffer' \in [Clients -> Seq(Events)] /\ \A d \in Clients : Len(buffer'[d]) <= BufferSize
      BY <1>3, <2>2 DEF Sent, HubTypeOK
    <2> QED
      BY <1>2, <1>3, <2>3 DEF Sent, HubTypeOK
  <1>4. CASE Skipped(c)
    BY <1>2, <1>4 DEF Skipped, HubTypeOK
  <1>5. CASE Dropped(c)
    <2>1. Unregister(Dispatcher, c)
      BY <1>5 DEF Dropped
    <2>2. UNCHANGED <<nextID, owner, buffer, closed, joined, gauge>>
      BY <2>1 DEF Unregister
    <2> QED
      BY <1>1, <1>2, <2>1, <2>2, DispatcherCalls, UnregisterTypes DEF HubTypeOK
  <1> QED
    BY <1>3, <1>4, <1>5 DEF TrySend

LEMMA ReceiveTypes ==
    ASSUME HubTypeOK, NEW c \in 1..nextID, Receive(c)
    PROVE  HubTypeOK'
  <1>1. buffer[c] \in Seq(Events) /\ buffer[c] # <<>> /\ Len(buffer[c]) <= BufferSize
    BY MaxClientsNat DEF Receive, HubTypeOK, Clients
  <1>2. Tail(buffer[c]) \in Seq(Events) /\ Len(Tail(buffer[c])) <= BufferSize
    BY <1>1, SizesPositive
  <1>3. buffer' \in [Clients -> Seq(Events)] /\ \A d \in Clients : Len(buffer'[d]) <= BufferSize
    BY <1>2 DEF Receive, HubTypeOK
  <1> QED
    BY <1>3 DEF Receive, HubTypeOK

LEMMA HubNextTypes == HubTypeOK /\ [HubNext]_hubVars => HubTypeOK'
  <1> SUFFICES ASSUME HubTypeOK, [HubNext]_hubVars PROVE HubTypeOK'
    OBVIOUS
  <1>1. ASSUME NEW p \in Callers, NEW c \in 1..nextID, Unregister(p, c),
               UNCHANGED <<targets, event>>
        PROVE  HubTypeOK'
    BY <1>1, UnregisterTypes DEF Unregister, HubTypeOK
  <1>2. CASE UNCHANGED hubVars
    BY <1>2 DEF hubVars, HubTypeOK
  <1> QED
    BY <1>1, <1>2, RegisterTypes, CloseTypes, WithinTypes, OnEventTypes, TrySendTypes,
       ReceiveTypes DEF HubNext

--------------------------------------------------------------------------------
(* The registry and the gauge.                                               *)

\* A call that owes the gauge the clients `K` adds them to what is owed.
LEMMA LeavingGrows ==
    ASSUME HubTypeOK, IsFiniteSet(Leaving), NEW p \in Callers, left[p] = {},
           NEW K \in SUBSET (1..nextID), left' = [left EXCEPT ![p] = K],
           nextID' \in Nat, nextID' >= nextID
    PROVE  /\ IsFiniteSet(Leaving')
           /\ Cardinality(Leaving') = Cardinality(Leaving) + Cardinality(K)
  <1> DEFINE New == {p} \X K
  <1>1. IsFiniteSet(K) /\ Cardinality(K) \in Nat /\ nextID \in Nat
    BY HubFinite
  <1>2. IsFiniteSet({p}) /\ Cardinality({p}) = 1
    BY FS_Singleton
  <1>3. IsFiniteSet(New) /\ Cardinality(New) = Cardinality(K)
    BY <1>1, <1>2, FS_Product
  <1>0. \A c \in 1..nextID : c \in 1..nextID'
    BY <1>1
  <1>4. Leaving' = Leaving \cup New
    <2>1. \A t \in Leaving' : t \in Leaving \cup New
      BY <1>1 DEF Leaving, HubTypeOK
    <2>2. \A t \in Leaving : t \in Leaving'
      BY <1>1 DEF Leaving, HubTypeOK
    <2>3. \A t \in New : t \in Leaving'
      BY <1>0 DEF Leaving, HubTypeOK
    <2> QED
      BY <2>1, <2>2, <2>3
  <1>5. Leaving \cap New = {}
    BY DEF Leaving
  <1> HIDE DEF New
  <1>6. Cardinality(Leaving) \in Nat
    BY FS_CardinalityType
  <1>7. /\ IsFiniteSet(Leaving \cup New)
        /\ Cardinality(Leaving \cup New) = Cardinality(Leaving) + Cardinality(New) - Cardinality({})
    BY <1>3, <1>5, FS_Union
  <1> QED
    BY <1>1, <1>3, <1>4, <1>6, <1>7, FS_EmptySet

LEMMA LeavingShrinks ==
    ASSUME HubTypeOK, IsFiniteSet(Leaving), NEW p \in Callers,
           left' = [left EXCEPT ![p] = {}], nextID' = nextID
    PROVE  /\ IsFiniteSet(Leaving')
           /\ Cardinality(Leaving') = Cardinality(Leaving) - Cardinality(left[p])
  <1> DEFINE Gone == {p} \X left[p]
  <1>1. IsFiniteSet(left[p]) /\ Cardinality(left[p]) \in Nat
    BY HubFinite
  <1>2. IsFiniteSet({p}) /\ Cardinality({p}) = 1
    BY FS_Singleton
  <1>3. IsFiniteSet(Gone) /\ Cardinality(Gone) = Cardinality(left[p])
    BY <1>1, <1>2, FS_Product
  <1>4. Leaving' = Leaving \ Gone
    <2>1. \A t \in Leaving' : t \in Leaving \ Gone
      BY DEF Leaving, HubTypeOK
    <2>2. \A t \in Leaving \ Gone : t \in Leaving'
      BY DEF Leaving, HubTypeOK
    <2> QED
      BY <2>1, <2>2
  <1>5. Leaving \cap Gone = Gone
    BY DEF Leaving, HubTypeOK
  <1> HIDE DEF Gone
  <1> QED
    <2>1. /\ IsFiniteSet(Leaving \ Gone)
          /\ Cardinality(Leaving \ Gone) = Cardinality(Leaving) - Cardinality(Leaving \cap Gone)
      BY FS_Difference
    <2> QED
      BY <1>3, <1>4, <1>5, <2>1

LEMMA InitHub == HubInit => HubIInv
  <1> SUFFICES ASSUME HubInit PROVE HubIInv
    OBVIOUS
  <1>1. nextID = 0 /\ Registered = {} /\ Leaving = {} /\ joined = {} /\ gauge = 0
    BY DEF HubInit, Registered, Leaving
  <1>2. 1..nextID = {}
    BY <1>1
  <1>3. CallsFinite /\ GaugeAgrees
    BY <1>1, FS_EmptySet DEF CallsFinite, GaugeAgrees
  <1>4. ClientsAccountedFor /\ OwnersMatch
    BY <1>2 DEF ClientsAccountedFor, OwnersMatch, HubInit
  <1> QED
    BY <1>3, <1>4, InitHubTypes DEF HubIInv, StreamsAccountedFor

\* register takes the kicked clients out, closes them, and puts the new one in.
LEMMA RegisterKeeps ==
    ASSUME HubIInv, NEW p \in Callers, NEW u \in Users, Register(p, u)
    PROVE  OwnersMatch' /\ CallsFinite' /\ StreamsAccountedFor'
  <1> USE DEF HubIInv, StreamsAccountedFor
  <1>1. /\ nextID \in Nat /\ nextID' = nextID + 1 /\ nextID + 1 \in Clients
        /\ \A c \in 1..nextID' : c \in 1..nextID \/ c = nextID + 1
        /\ nextID + 1 \notin 1..nextID
    BY HubFinite, MaxClientsNat DEF Register, Clients
  <1>2. /\ members' = [members EXCEPT ![u] = (members[u] \ Kicked(u)) \cup {nextID + 1}]
        /\ owner' = [owner EXCEPT ![nextID + 1] = u]
        /\ closed' = closed \cup Kicked(u)
        /\ closing' = closing
    BY DEF Register, Shut
  <1>3. OwnersMatch'
    BY <1>1, <1>2, HubFinite DEF OwnersMatch, HubTypeOK
  <1>4. ASSUME NEW c \in 1..nextID' PROVE Doomed(c)' <=> c \notin members'[owner'[c]]
    <2>1. CASE c = nextID + 1
      <3>1. ~ Doomed(c)'
        BY <1>1, <1>2, <2>1, HubFinite DEF Doomed, HubTypeOK
      <3>2. c \in members'[owner'[c]]
        BY <1>1, <1>2, <2>1 DEF HubTypeOK
      <3> QED
        BY <3>1, <3>2
    <2>2. CASE c \in 1..nextID
      <3>1. owner'[c] = owner[c] /\ owner[c] \in Users /\ c # nextID + 1
        BY <1>1, <1>2, <2>2, MaxClientsNat DEF HubTypeOK, Clients
      <3>2. Doomed(c)' <=> Doomed(c) \/ c \in Kicked(u)
        BY <1>2 DEF Doomed
      <3>3. Doomed(c) <=> c \notin members[owner[c]]
        BY <2>2 DEF ClientsAccountedFor
      <3>4. c \in Kicked(u) => owner[c] = u
        BY HubFinite DEF OwnersMatch
      <3>5. c \in members'[owner[c]] <=> c \in members[owner[c]] /\ ~ (owner[c] = u /\ c \in Kicked(u))
        BY <1>2, <3>1 DEF HubTypeOK
      <3> QED
        BY <3>1, <3>2, <3>3, <3>4, <3>5
    <2> QED
      BY <1>1, <2>1, <2>2
  <1>5. PICK K : K = Kicked(u)
    OBVIOUS
  <1>6. K \in SUBSET (1..nextID) /\ IsFiniteSet(K) /\ Cardinality(K) \in Nat /\ K \subseteq Registered
    BY <1>5, HubFinite DEF Registered
  <1>7. IsFiniteSet(Leaving') /\ Cardinality(Leaving') = Cardinality(Leaving) + Cardinality(K)
    <2>1. left[p] = {} /\ left' = [left EXCEPT ![p] = K]
      BY <1>5 DEF Register, Free
    <2>2. nextID' \in Nat /\ nextID' >= nextID
      BY <1>1
    <2>3. HubTypeOK /\ IsFiniteSet(Leaving)
      BY DEF CallsFinite
    <2> QED
      BY <1>6, <2>1, <2>2, <2>3, LeavingGrows
  <1>8. Registered' = (Registered \ K) \cup {nextID + 1}
    <2>1. \A v \in Users \ {u} : members[v] \cap K = {}
      BY <1>5, HubFinite DEF OwnersMatch
    <2>2. \A v \in Users : members'[v] = IF v = u THEN (members[u] \ K) \cup {nextID + 1} ELSE members[v]
      BY <1>2, <1>5 DEF HubTypeOK
    <2> QED
      BY <2>1, <2>2 DEF Registered
  <1>9. Cardinality(Registered') = Cardinality(Registered) - Cardinality(K) + 1
    <2>1. IsFiniteSet(Registered) /\ Cardinality(Registered) \in Nat /\ nextID + 1 \notin Registered
      BY <1>1, HubFinite
    <2>2. Registered \cap K = K
      BY <1>6
    <2>3. IsFiniteSet(Registered \ K) /\ Cardinality(Registered \ K) = Cardinality(Registered) - Cardinality(K)
      BY <2>1, <2>2, FS_Difference
    <2>4. nextID + 1 \notin Registered \ K
      BY <2>1
    <2>5. Cardinality((Registered \ K) \cup {nextID + 1}) = Cardinality(Registered \ K) + 1
      BY <2>3, <2>4, FS_AddElement
    <2> QED
      BY <1>8, <2>3, <2>5
  <1>10. /\ IsFiniteSet(joined') /\ Cardinality(joined') = Cardinality(joined) + 1
         /\ Cardinality(joined) \in Nat /\ Cardinality(Leaving) \in Nat
         /\ Cardinality(Registered) \in Nat
    BY FS_AddElement, FS_CardinalityType, HubFinite DEF Register, Free, CallsFinite
  <1>11. GaugeAgrees'
    <2>1. gauge' = gauge /\ gauge = Cardinality(Registered) + Cardinality(Leaving) - Cardinality(joined)
      BY DEF Register, GaugeAgrees
    <2>2. gauge' = Cardinality(Registered') + Cardinality(Leaving') - Cardinality(joined')
      BY <1>6, <1>7, <1>9, <1>10, <2>1
    <2> QED
      BY <2>2 DEF GaugeAgrees
  <1> QED
    BY <1>3, <1>4, <1>7, <1>10, <1>11 DEF ClientsAccountedFor, CallsFinite

\* unregister takes a client out once, and closes it in any case.
LEMMA UnregisterKeeps ==
    ASSUME HubIInv, NEW p \in Callers, NEW c \in 1..nextID, Unregister(p, c)
    PROVE  OwnersMatch' /\ CallsFinite' /\ StreamsAccountedFor'
  <1> USE DEF HubIInv, StreamsAccountedFor
  <1>1. /\ members' = [members EXCEPT ![owner[c]] = @ \ {c}]
        /\ closing[p] = {} /\ closing' = [closing EXCEPT ![p] = {c}]
        /\ nextID' = nextID /\ owner' = owner /\ closed' = closed
        /\ joined' = joined /\ gauge' = gauge
        /\ owner[c] \in Users /\ nextID \in Nat
    BY HubFinite DEF Unregister, Free, HubTypeOK
  <1>2. OwnersMatch'
    BY <1>1 DEF OwnersMatch, HubTypeOK
  <1>3. ASSUME NEW d \in 1..nextID PROVE Doomed(d)' <=> d \notin members'[owner'[d]]
    <2>1. Doomed(d)' <=> Doomed(d) \/ d = c
      BY <1>1 DEF Doomed, HubTypeOK
    <2>2. d \in members'[owner[d]] <=> d \in members[owner[d]] /\ d # c
      BY <1>1 DEF HubTypeOK
    <2>3. Doomed(d) <=> d \notin members[owner[d]]
      BY DEF ClientsAccountedFor
    <2> QED
      BY <1>1, <2>1, <2>2, <2>3
  <1>4. PICK K : K = Removed(c)
    OBVIOUS
  <1>5. K \in SUBSET (1..nextID) /\ IsFiniteSet(K) /\ Cardinality(K) \in Nat /\ Registered \cap K = K
    <2>1. K \in SUBSET (1..nextID) /\ K \subseteq Registered
      BY <1>1, <1>4 DEF Removed, Registered
    <2> QED
      BY <2>1, HubFinite
  <1>6. IsFiniteSet(Leaving') /\ Cardinality(Leaving') = Cardinality(Leaving) + Cardinality(K)
    <2>1. left[p] = {} /\ left' = [left EXCEPT ![p] = K]
      BY <1>4 DEF Unregister, Free
    <2>2. nextID' \in Nat /\ nextID' >= nextID
      BY <1>1
    <2>3. HubTypeOK /\ IsFiniteSet(Leaving)
      BY DEF CallsFinite
    <2> QED
      BY <1>5, <2>1, <2>2, <2>3, LeavingGrows
  <1>7. Registered' = Registered \ K
    <2>1. \A v \in Users : members'[v] = members[v] \ K
      BY <1>1, <1>4 DEF Removed, OwnersMatch, HubTypeOK
    <2> QED
      BY <2>1 DEF Registered
  <1>8. /\ Cardinality(Registered') = Cardinality(Registered) - Cardinality(K)
        /\ Cardinality(Registered) \in Nat /\ Cardinality(Leaving) \in Nat /\ Cardinality(joined) \in Nat
    <2>1. IsFiniteSet(Registered) /\ Cardinality(Registered) \in Nat
      BY HubFinite
    <2>2. Cardinality(Leaving) \in Nat /\ Cardinality(joined) \in Nat
      BY FS_CardinalityType DEF CallsFinite
    <2>3. Cardinality(Registered \ K) = Cardinality(Registered) - Cardinality(Registered \cap K)
      BY <2>1, FS_Difference
    <2> QED
      BY <1>5, <1>7, <2>1, <2>2, <2>3
  <1>9. GaugeAgrees'
    <2>1. gauge = Cardinality(Registered) + Cardinality(Leaving) - Cardinality(joined)
      BY DEF GaugeAgrees
    <2>2. gauge' = Cardinality(Registered') + Cardinality(Leaving') - Cardinality(joined')
      BY <1>1, <1>5, <1>6, <1>8, <2>1
    <2> QED
      BY <2>2 DEF GaugeAgrees
  <1> QED
    BY <1>1, <1>2, <1>3, <1>6, <1>9 DEF ClientsAccountedFor, CallsFinite

\* Close empties the registry; everybody in it is now about to be closed.
LEMMA CloseKeeps ==
    ASSUME HubIInv, NEW p \in Callers, Close(p)
    PROVE  OwnersMatch' /\ CallsFinite' /\ StreamsAccountedFor'
  <1> USE DEF HubIInv, StreamsAccountedFor
  <1>1. /\ members' = [u \in Users |-> {}]
        /\ closing[p] = {} /\ closing' = [closing EXCEPT ![p] = Registered]
        /\ nextID' = nextID /\ owner' = owner /\ closed' = closed
        /\ joined' = joined /\ gauge' = gauge /\ nextID \in Nat
    BY HubFinite DEF Close, Free
  <1>2. OwnersMatch'
    BY <1>1 DEF OwnersMatch
  <1>3. ASSUME NEW d \in 1..nextID PROVE Doomed(d)' <=> d \notin members'[owner'[d]]
    <2>1. owner[d] \in Users
      BY DEF HubTypeOK
    <2>2. d \in members[owner[d]] => d \in Registered
      BY <2>1 DEF Registered
    <2>3. Doomed(d) \/ d \in Registered
      BY <2>2 DEF ClientsAccountedFor
    <2>4. Doomed(d)'
      BY <1>1, <2>3 DEF Doomed, HubTypeOK
    <2> QED
      BY <1>1, <2>1, <2>4
  <1>4. PICK K : K = Registered
    OBVIOUS
  <1>5. K \in SUBSET (1..nextID) /\ Cardinality(K) \in Nat
    BY <1>4, HubFinite
  <1>6. IsFiniteSet(Leaving') /\ Cardinality(Leaving') = Cardinality(Leaving) + Cardinality(K)
    <2>1. left[p] = {} /\ left' = [left EXCEPT ![p] = K]
      BY <1>4 DEF Close, Free
    <2>2. nextID' \in Nat /\ nextID' >= nextID
      BY <1>1
    <2>3. HubTypeOK /\ IsFiniteSet(Leaving)
      BY DEF CallsFinite
    <2> QED
      BY <1>5, <2>1, <2>2, <2>3, LeavingGrows
  <1>7. Registered' = {} /\ Cardinality({}) = 0
    BY <1>1, FS_EmptySet DEF Registered
  <1>8. Cardinality(Leaving) \in Nat /\ Cardinality(joined) \in Nat
    BY FS_CardinalityType DEF CallsFinite
  <1>9. GaugeAgrees'
    <2>1. gauge = Cardinality(K) + Cardinality(Leaving) - Cardinality(joined)
      BY <1>4 DEF GaugeAgrees
    <2>2. gauge' = Cardinality(Registered') + Cardinality(Leaving') - Cardinality(joined')
      BY <1>1, <1>5, <1>6, <1>7, <1>8, <2>1
    <2> QED
      BY <2>2 DEF GaugeAgrees
  <1> QED
    BY <1>1, <1>2, <1>3, <1>6, <1>9 DEF ClientsAccountedFor, CallsFinite

LEMMA WithinKeeps ==
    ASSUME HubIInv, NEW p \in Callers, Within(p)
    PROVE  OwnersMatch' /\ CallsFinite' /\ StreamsAccountedFor'
  <1> USE DEF HubIInv, StreamsAccountedFor
  <1>1. /\ members' = members /\ nextID' = nextID /\ owner' = owner
        /\ nextID \in Nat /\ Registered' = Registered
    BY HubFinite DEF Within, CloseOne, ObserveLeft, ObserveJoined, Registered
  <1>2. OwnersMatch'
    BY <1>1 DEF OwnersMatch
  <1>3. ASSUME NEW d \in 1..nextID PROVE Doomed(d)' <=> Doomed(d)
    BY DEF Within, CloseOne, ObserveLeft, ObserveJoined, Doomed, HubTypeOK
  <1>4. ClientsAccountedFor'
    BY <1>1, <1>3 DEF ClientsAccountedFor
  <1>5. Cardinality(Registered) \in Nat /\ Cardinality(Leaving) \in Nat /\ Cardinality(joined) \in Nat
    BY HubFinite, FS_CardinalityType DEF CallsFinite
  <1>6. gauge = Cardinality(Registered) + Cardinality(Leaving) - Cardinality(joined)
    BY DEF GaugeAgrees
  <1>7. CASE CloseOne(p)
    <2>1. Leaving' = Leaving /\ joined' = joined /\ gauge' = gauge
      BY <1>7 DEF CloseOne, Leaving
    <2> QED
      BY <1>1, <1>2, <1>4, <2>1 DEF CallsFinite, GaugeAgrees
  <1>8. CASE ObserveLeft(p)
    <2>1. /\ left' = [left EXCEPT ![p] = {}] /\ joined' = joined
          /\ gauge' = gauge - Cardinality(left[p]) /\ Cardinality(left[p]) \in Nat
      BY <1>8, HubFinite DEF ObserveLeft
    <2>2. IsFiniteSet(Leaving') /\ Cardinality(Leaving') = Cardinality(Leaving) - Cardinality(left[p])
      BY <1>1, <2>1, LeavingShrinks DEF CallsFinite
    <2>3. gauge' = Cardinality(Registered') + Cardinality(Leaving') - Cardinality(joined')
      BY <1>1, <1>5, <1>6, <2>1, <2>2
    <2> QED
      BY <1>2, <1>4, <2>1, <2>2, <2>3 DEF CallsFinite, GaugeAgrees
  <1>9. CASE ObserveJoined(p)
    <2>1. Leaving' = Leaving /\ joined' = joined \ {p} /\ p \in joined /\ gauge' = gauge + 1
      BY <1>9 DEF ObserveJoined, Leaving
    <2>2. IsFiniteSet(joined') /\ Cardinality(joined') = Cardinality(joined) - 1
      BY <2>1, FS_RemoveElement DEF CallsFinite
    <2>3. gauge' = Cardinality(Registered') + Cardinality(Leaving') - Cardinality(joined')
      BY <1>1, <1>5, <1>6, <2>1, <2>2
    <2> QED
      BY <1>2, <1>4, <2>1, <2>2, <2>3 DEF CallsFinite, GaugeAgrees
  <1> QED
    BY <1>7, <1>8, <1>9 DEF Within

\* The other steps leave the registry, the channels' ends and the gauge alone.
LEMMA OthersKeep ==
    ASSUME HubIInv, UNCHANGED <<members, nextID, owner, closed, closing, left, joined, gauge>>
    PROVE  OwnersMatch' /\ CallsFinite' /\ StreamsAccountedFor'
  <1>1. Registered' = Registered /\ Leaving' = Leaving
    BY DEF Registered, Leaving
  <1>2. \A c : Doomed(c)' <=> Doomed(c)
    BY DEF Doomed
  <1> QED
    BY <1>1, <1>2 DEF HubIInv, OwnersMatch, CallsFinite, StreamsAccountedFor,
                      ClientsAccountedFor, GaugeAgrees

LEMMA NextHub == HubIInv /\ [HubNext]_hubVars => HubIInv'
  <1> SUFFICES ASSUME HubIInv, [HubNext]_hubVars PROVE OwnersMatch' /\ CallsFinite' /\ StreamsAccountedFor'
    BY HubNextTypes DEF HubIInv
  <1>1. ASSUME NEW u \in Users, NEW e \in Events, OnEvent(u, e)
        PROVE  OwnersMatch' /\ CallsFinite' /\ StreamsAccountedFor'
    BY <1>1, OthersKeep DEF OnEvent
  <1>2. ASSUME NEW c \in targets, TrySend(c)
        PROVE  OwnersMatch' /\ CallsFinite' /\ StreamsAccountedFor'
    <2>1. CASE Sent(c)
      BY <2>1, OthersKeep DEF Sent
    <2>2. CASE Skipped(c)
      BY <2>2, OthersKeep DEF Skipped
    <2>3. CASE Dropped(c)
      <3>1. c \in 1..nextID
        BY DEF HubIInv, HubTypeOK
      <3> QED
        BY <2>3, <3>1, UnregisterKeeps, DispatcherCalls DEF Dropped
    <2> QED
      BY <1>2, <2>1, <2>2, <2>3 DEF TrySend
  <1>3. ASSUME NEW c \in 1..nextID, Receive(c)
        PROVE  OwnersMatch' /\ CallsFinite' /\ StreamsAccountedFor'
    BY <1>3, OthersKeep DEF Receive
  <1>4. CASE UNCHANGED hubVars
    BY <1>4, OthersKeep DEF hubVars
  <1> QED
    BY <1>1, <1>2, <1>3, <1>4, RegisterKeeps, UnregisterKeeps, CloseKeeps, WithinKeeps DEF HubNext

\* A step never makes the buffer of a closed client longer.
LEMMA ClosedOnlyDrain ==
    ASSUME HubTypeOK, [HubNext]_hubVars
    PROVE  \A c \in closed : Len(buffer'[c]) <= Len(buffer[c])
  <1> SUFFICES ASSUME NEW c \in closed PROVE Len(buffer'[c]) <= Len(buffer[c])
    OBVIOUS
  <1>1. c \in Clients /\ buffer[c] \in Seq(Events) /\ Len(buffer[c]) \in Nat
    BY MaxClientsNat DEF HubTypeOK, Clients
  <1>2. ASSUME NEW d \in targets, TrySend(d) PROVE buffer'[c] = buffer[c]
    <2>1. CASE Sent(d)
      BY <1>1, <2>1 DEF Sent, Open, HubTypeOK
    <2> QED
      BY <1>2, <2>1 DEF TrySend, Skipped, Dropped, Unregister
  <1>3. ASSUME NEW d \in 1..nextID, Receive(d) PROVE Len(buffer'[c]) <= Len(buffer[c])
    <2>1. CASE c = d
      <3>1. buffer[c] # <<>> /\ buffer'[c] = Tail(buffer[c])
        BY <1>1, <1>3, <2>1 DEF Receive, HubTypeOK
      <3> QED
        BY <1>1, <3>1
    <2>2. CASE c # d
      BY <1>1, <1>3, <2>2 DEF Receive, HubTypeOK
    <2> QED
      BY <2>1, <2>2
  <1>4. CASE UNCHANGED buffer
    BY <1>1, <1>4
  <1> QED
    BY <1>1, <1>2, <1>3, <1>4
    DEF HubNext, hubVars, Register, Unregister, Close, Within, CloseOne, ObserveLeft,
        ObserveJoined, OnEvent

--------------------------------------------------------------------------------
(* The types of the messages.                                                *)

Row == [id : 1..MaxChanges, user : Addressees, event : {s.event : s \in Sources},
        key : {s.key : s \in Sources}, read : BOOLEAN]

\* Marking the rows `hit` makes no more rows than there were.
LEMMA MarkedRows ==
    ASSUME NEW M \in SUBSET Row, IsFiniteSet(M), NEW hit \in SUBSET M
    PROVE  LET after == (M \ hit) \cup {[m EXCEPT !.read = TRUE] : m \in hit}
           IN  /\ after \subseteq Row
               /\ IsFiniteSet(after)
               /\ Cardinality(after) <= Cardinality(M)
  <1> DEFINE f == [m \in hit |-> [m EXCEPT !.read = TRUE]]
             image == {[m EXCEPT !.read = TRUE] : m \in hit}
             rest == M \ hit
  <1>1. IsFiniteSet(hit) /\ IsFiniteSet(rest) /\ Cardinality(rest) = Cardinality(M) - Cardinality(hit)
    <2>1. M \cap hit = hit
      OBVIOUS
    <2> QED
      <3> HIDE DEF f, image
      <3>1. IsFiniteSet(hit)
        BY FS_Subset
      <3>2. IsFiniteSet(rest) /\ Cardinality(rest) = Cardinality(M) - Cardinality(M \cap hit)
        BY FS_Difference
      <3> QED
        BY <2>1, <3>1, <3>2
  <1>2. f \in Surjection(hit, image)
    BY DEF Surjection
  <1>3. image \subseteq Row
    BY DEF Row
  <1> HIDE DEF f, image, rest
  <1>4. IsFiniteSet(image) /\ Cardinality(image) <= Cardinality(hit)
    BY <1>1, <1>2, FS_Surjection
  <1>5. /\ IsFiniteSet(rest \cup image)
        /\ Cardinality(rest \cup image) = Cardinality(rest) + Cardinality(image) - Cardinality(rest \cap image)
    BY <1>1, <1>4, FS_Union
  <1>6. IsFiniteSet(rest \cap image)
    BY <1>1, FS_Intersection
  <1>7. /\ Cardinality(M) \in Nat /\ Cardinality(hit) \in Nat /\ Cardinality(rest) \in Nat
        /\ Cardinality(image) \in Nat /\ Cardinality(rest \cap image) \in Nat
    BY <1>1, <1>4, <1>6, FS_CardinalityType
  <1>8. Cardinality(rest \cup image) <= Cardinality(M)
    BY <1>1, <1>4, <1>5, <1>7
  <1>9. rest \cup image \subseteq Row
    BY <1>3 DEF rest
  <1> QED
    BY <1>5, <1>8, <1>9 DEF rest, image

\* No user has more unread messages than there were calls.
LEMMA CountIsBounded ==
    ASSUME MessagesTypeOK, NEW u
    PROVE  IsFiniteSet(UnreadOf(u)) /\ CountUnread(u) \in 0..MaxChanges
  <1>1. UnreadOf(u) \in SUBSET messages
    BY DEF UnreadOf
  <1>2. IsFiniteSet(UnreadOf(u)) /\ Cardinality(UnreadOf(u)) <= Cardinality(messages)
    BY <1>1, FS_Subset DEF MessagesTypeOK
  <1>3. Cardinality(UnreadOf(u)) \in Nat /\ Cardinality(messages) \in Nat
    BY <1>2, FS_CardinalityType DEF MessagesTypeOK
  <1> QED
    BY <1>2, <1>3, MaxChangesNat DEF MessagesTypeOK, CountUnread

LEMMA NewRow ==
    ASSUME NEW s \in Sources, NEW i \in 1..MaxChanges
    PROVE  [id |-> i, user |-> s.user, event |-> s.event, key |-> s.key, read |-> FALSE] \in Row
  <1>1. s.user \in Addressees /\ s.event \in {r.event : r \in Sources} /\ s.key \in {r.key : r \in Sources}
    BY DEF Addressees
  <1> QED
    BY <1>1 DEF Row

LEMMA CreateTypes ==
    ASSUME MessagesTypeOK, NEW s \in Sources, CreateFromEvent(s)
    PROVE  MessagesTypeOK'
  <1>1. changes \in Nat /\ changes' = changes + 1 /\ changes' \in 0..MaxChanges
    BY MaxChangesNat DEF CreateFromEvent, MessagesTypeOK
  <1> DEFINE row == [id |-> Cardinality(messages) + 1, user |-> s.user,
                     event |-> s.event, key |-> s.key, read |-> FALSE]
  <1>2. Cardinality(messages) \in Nat /\ Cardinality(messages) <= changes
    BY FS_CardinalityType DEF MessagesTypeOK
  <1>3. row \in Row
    <2>1. Cardinality(messages) + 1 \in 1..MaxChanges
      BY <1>1, <1>2, MaxChangesNat
    <2> QED
      BY <2>1, NewRow
  <1>4. messages \subseteq Row /\ IsFiniteSet(messages)
    BY DEF MessagesTypeOK, Row
  <1>5. messages' = messages \cup {row} \/ messages' = messages
    BY DEF CreateFromEvent
  <1>6. messages' \subseteq Row /\ IsFiniteSet(messages') /\ Cardinality(messages') <= changes'
    <2> HIDE DEF row
    <2>1. IsFiniteSet(messages \cup {row}) /\ Cardinality(messages \cup {row}) <= Cardinality(messages) + 1
      <3>1. /\ IsFiniteSet(messages \cup {row})
            /\ Cardinality(messages \cup {row})
                 = IF row \in messages THEN Cardinality(messages) ELSE Cardinality(messages) + 1
        BY <1>4, FS_AddElement
      <3> QED
        BY <1>2, <3>1
    <2>2. Cardinality(messages \cup {row}) \in Nat
      BY <2>1, FS_CardinalityType
    <2> QED
      BY <1>1, <1>2, <1>3, <1>4, <1>5, <2>1, <2>2
  <1>7. Notice("message", s.user) \in [type : Kinds, id : 0..MaxChanges, user : Addressees]
    BY MaxChangesNat DEF Notice, Kinds, Addressees, MessagesTypeOK
  <1>8. notices' \subseteq [type : Kinds, id : 0..MaxChanges, user : Addressees]
    BY <1>7 DEF CreateFromEvent, MessagesTypeOK
  <1> QED
    BY <1>1, <1>6, <1>8 DEF CreateFromEvent, MessagesTypeOK, Row

LEMMA MarkReadTypes ==
    ASSUME MessagesTypeOK, NEW u, NEW ids, MarkRead(u, ids)
    PROVE  MessagesTypeOK'
  <1>1. changes \in Nat /\ changes' = changes + 1 /\ changes' \in 0..MaxChanges
    BY MaxChangesNat DEF MarkRead, MessagesTypeOK
  <1>2. PICK hit : /\ hit = {m \in UnreadOf(u) : ids = {} \/ m.id \in ids}
                   /\ hit # {}
                   /\ messages' = (messages \ hit) \cup {[m EXCEPT !.read = TRUE] : m \in hit}
    BY DEF MarkRead
  <1>3. messages \in SUBSET Row /\ IsFiniteSet(messages) /\ hit \in SUBSET messages
    BY <1>2 DEF MessagesTypeOK, Row, UnreadOf
  <1>4. messages' \subseteq Row /\ IsFiniteSet(messages') /\ Cardinality(messages') <= Cardinality(messages)
    BY <1>2, <1>3, MarkedRows
  <1>5. Cardinality(messages) \in Nat /\ Cardinality(messages') \in Nat /\ Cardinality(messages) <= changes
    BY <1>3, <1>4, FS_CardinalityType DEF MessagesTypeOK
  <1>6. Cardinality(messages') <= changes'
    BY <1>1, <1>4, <1>5
  <1>7. u \in Addressees
    BY <1>2, <1>3 DEF UnreadOf, Row
  <1>8. notices' \subseteq [type : Kinds, id : 0..MaxChanges, user : Addressees]
    BY <1>7 DEF MarkRead, Notice, Kinds, MessagesTypeOK
  <1> QED
    BY <1>1, <1>4, <1>6, <1>8 DEF MarkRead, MessagesTypeOK, Row

LEMMA CountTypes ==
    ASSUME MessagesTypeOK, NEW n, NEW count \in 0..MaxChanges \cup {Unknown},
           CountForNotice(n, count)
    PROVE  MessagesTypeOK'
  <1>1. [type |-> n.type, id |-> n.id, user |-> n.user, count |-> count] \in Frames
    BY DEF CountForNotice, MessagesTypeOK, Frames
  <1> QED
    BY <1>1 DEF CountForNotice, MessagesTypeOK

LEMMA EndTypes ==
    ASSUME MessagesTypeOK, NEW n, NoticeEnds(n)
    PROVE  MessagesTypeOK'
  BY DEF NoticeEnds, MessagesTypeOK

LEMMA InitMessageTypes == MessagesInit => MessagesTypeOK
  BY FS_EmptySet, MaxChangesNat DEF MessagesInit, MessagesTypeOK

--------------------------------------------------------------------------------

\* The messages change by their own actions only.
LEMMA MessageTypesKept ==
    ASSUME MessagesTypeOK, Next
    PROVE  MessagesTypeOK'
  <1>1. CASE UNCHANGED messageVars
    BY <1>1 DEF messageVars, MessagesTypeOK
  <1>2. ASSUME NEW u \in Users, NEW ids, Read(u, ids) PROVE MessagesTypeOK'
    BY <1>2, MarkReadTypes DEF Read
  <1>3. ASSUME NEW s \in Sources, Create(s) PROVE MessagesTypeOK'
    BY <1>3, CreateTypes DEF Create
  <1>4. ASSUME NEW n \in notices, Count(n) \/ CountFails(n) PROVE MessagesTypeOK'
    <2>1. CurrentCount(n) \in 0..MaxChanges
      BY CountIsBounded DEF CurrentCount
    <2>2. PICK count \in 0..MaxChanges \cup {Unknown} : CountForNotice(n, count)
      BY <1>4, <2>1 DEF Count, CountFails
    <2> QED
      BY <2>2, CountTypes
  <1>5. ASSUME NEW n \in counted, Publish(n) \/ PublishFails(n) PROVE MessagesTypeOK'
    BY <1>5, EndTypes DEF Publish, PublishFails
  <1>6. ASSUME NEW h \in Handlers, Stream(h) \/ ReadUnreadFails(h) \/ Disconnect(h)
        PROVE  UNCHANGED messageVars
    BY <1>6 DEF Stream, Subscribe, ReadUnread, ReadUnreadFails, WriteReady, WriteEvent,
                ChannelClosed, Disconnect, Leave, Proceed
  <1>7. ASSUME RunOnce \/ Reconnect \/ Dispatch \/ LoseConnection \/ RunOnceEnds \/ Stop
        PROVE  UNCHANGED messageVars
    BY <1>7 DEF RunOnce, Reconnect, Dispatch, LoseConnection, RunOnceEnds, Stop
  <1>8. \A c : Send(c) \/ Proceed(c) => UNCHANGED messageVars
    BY DEF Send, Proceed
  <1>9. /\ \A u : IssueTicket(u) => UNCHANGED messageVars
        /\ \A t : ExpireTicket(t) => UNCHANGED messageVars
        /\ \A h, t : ConsumeTicket(h, t) => UNCHANGED messageVars
    BY DEF IssueTicket, ExpireTicket, ConsumeTicket
  <1> QED
    <2>1. CASE \E u \in Users : IssueTicket(u) \/ \E ids \in Ids(u) : Read(u, ids)
      BY <1>1, <1>2, <1>9, <2>1
    <2>2. CASE \E t \in tickets : ExpireTicket(t) \/ \E h \in Handlers : ConsumeTicket(h, t)
      BY <1>1, <1>9, <2>2
    <2>3. CASE \E h \in Handlers : Stream(h) \/ ReadUnreadFails(h) \/ Disconnect(h)
      BY <1>1, <1>6, <2>3
    <2>4. CASE \/ \E n \in notices : Count(n) \/ CountFails(n)
               \/ \E n \in counted : Publish(n) \/ PublishFails(n)
      BY <1>4, <1>5, <2>4
    <2>5. CASE RunOnce \/ Reconnect \/ Dispatch \/ LoseConnection \/ RunOnceEnds \/ Stop
      BY <1>1, <1>7, <2>5
    <2>6. CASE (\E c \in targets : Send(c)) \/ \E p \in {Dispatcher, Closer} : Proceed(p)
      BY <1>1, <1>8, <2>6
    <2> QED
      BY <1>3, <2>1, <2>2, <2>3, <2>4, <2>5, <2>6 DEF Next

\* Every step of the process is one of the hub's, or leaves the hub alone.
LEMMA HubSteps ==
    ASSUME TypeOK, [Next]_vars
    PROVE  [HubNext]_hubVars
  <1>1. CASE UNCHANGED hubVars
    BY <1>1
  <1>2. ASSUME NEW h \in Handlers, Subscribe(h) PROVE HubNext
    <2>1. h \in Callers /\ visitor[h] \in Users
      BY <1>2, HandlersCall DEF Subscribe, TypeOK, StreamTypeOK
    <2> QED
      BY <1>2, <2>1 DEF Subscribe, HubNext
  <1>3. ASSUME NEW h \in Handlers, pc[h] \in {"greeting", "live"} PROVE h \in Callers /\ client[h] \in 1..nextID
    <2>1. HubTypeOK /\ client[h] \in 0..nextID /\ client[h] # 0
      BY <1>3 DEF TypeOK, StreamTypeOK
    <2> QED
      BY <2>1, HubFinite, HandlersCall
  <1>4. ASSUME NEW h \in Handlers, WriteEvent(h) PROVE HubNext
    BY <1>3, <1>4 DEF WriteEvent, HubNext
  <1>5. ASSUME NEW h \in Handlers, ChannelClosed(h) \/ Disconnect(h) PROVE HubNext
    <2>1. pc[h] \in {"greeting", "live"} /\ Unregister(h, client[h]) /\ UNCHANGED <<targets, event>>
      BY <1>5 DEF ChannelClosed, Drained, Disconnect, Leave
    <2> QED
      BY <1>3, <2>1 DEF HubNext
  <1>6. ASSUME NEW p \in Callers, Proceed(p) PROVE HubNext
    BY <1>6 DEF Proceed, HubNext
  <1>7. CASE Dispatch
    <2>1. Head(pubsub) \in Frames
      BY <1>7 DEF Dispatch, TypeOK, StreamTypeOK
    <2>2. Head(pubsub) \in Events /\ Head(pubsub).user \in Users
      BY <2>1, FramesAreEvents, UsersHaveStreams DEF Frames
    <2> QED
      BY <1>7, <2>2 DEF Dispatch, HubNext
  <1>8. ASSUME NEW c \in targets, Send(c) PROVE HubNext
    BY <1>8 DEF Send, HubNext
  <1>9. CASE Stop
    BY <1>9, HandlersCall DEF Stop, HubNext
  <1>10. Handlers \cup {Dispatcher, Closer} \subseteq Callers
    BY HandlersCall
  <1> QED
    BY <1>1, <1>2, <1>4, <1>5, <1>6, <1>7, <1>8, <1>9, <1>10
    DEF Next, vars, hubVars, Stream, IssueTicket, ExpireTicket, ConsumeTicket, ReadUnread,
        ReadUnreadFails, WriteReady, Read, Create, Count, CountFails, Publish, PublishFails,
        RunOnce, Reconnect, LoseConnection, RunOnceEnds

--------------------------------------------------------------------------------
(* The types of the streams.                                                 *)

\* Clients are only ever added, and keep their owner.
LEMMA HubGrows ==
    ASSUME HubTypeOK, [HubNext]_hubVars
    PROVE  /\ nextID \in Nat /\ nextID' \in Nat /\ nextID <= nextID' /\ nextID' <= MaxClients
           /\ \A c \in 1..nextID : c \in 1..nextID' /\ owner'[c] = owner[c]
  <1>1. nextID \in Nat /\ nextID' \in Nat /\ nextID' <= MaxClients
    BY HubFinite, HubNextTypes, MaxClientsNat DEF HubTypeOK
  <1>2. ASSUME NEW p \in Callers, NEW u \in Users, Register(p, u)
        PROVE  nextID' = nextID + 1 /\ \A c \in 1..nextID : owner'[c] = owner[c]
    BY <1>1, <1>2 DEF Register, HubTypeOK, Clients
  <1>3. nextID' \in {nextID, nextID + 1} /\ \A c \in 1..nextID : owner'[c] = owner[c]
    <2>1. CASE UNCHANGED <<nextID, owner>>
      BY <2>1
    <2> QED
      BY <1>2, <2>1 DEF HubNext, hubVars, Unregister, Close, Within, CloseOne, ObserveLeft,
         ObserveJoined, OnEvent, TrySend, Sent, Skipped, Dropped, Receive
  <1> QED
    BY <1>1, <1>3

LEMMA InitStreamTypes == Init => StreamTypeOK
  <1> SUFFICES ASSUME Init PROVE StreamTypeOK
    OBVIOUS
  <1>1. None \notin Users
    BY NoneIsNothing
  <1>2. pubsub \in Seq(Frames) /\ tickets \subseteq [id : 1..issued, user : Users]
    BY DEF Init
  <1>3. /\ client \in [Handlers -> 0..nextID] /\ hello \in [Handlers -> 0..MaxChanges \cup {Unknown}]
        /\ pc \in [Handlers -> PCs] /\ visitor \in [Handlers -> Users \cup {None}]
    BY DEF Init, HubInit, PCs
  <1>4. \A h \in Handlers :
            /\ pc[h] \in {"idle", "admitted"} <=> client[h] = 0
            /\ pc[h] # "idle" <=> visitor[h] \in Users
            /\ client[h] # 0 => owner[client[h]] = visitor[h]
    BY <1>1 DEF Init
  <1>5. /\ fresh \subseteq 1..nextID /\ awaited \in [Clients -> SUBSET (0..MaxChanges)]
        /\ \A c \in Clients : awaited[c] # {} => c <= nextID
    BY DEF Init
  <1>6. faults \in 0..MaxFaults /\ issued \in Nat
    BY BoundsNat DEF Init
  <1> QED
    BY <1>2, <1>3, <1>4, <1>5, <1>6 DEF Init, StreamTypeOK

\* What the hub does by itself changes no stream's type.
LEMMA StreamTypesStay ==
    ASSUME TypeOK, [HubNext]_hubVars,
           UNCHANGED <<redis, ticket, handler, process, history>>
    PROVE  StreamTypeOK'
  <1>1. /\ nextID \in Nat /\ nextID' \in Nat /\ nextID <= nextID' /\ nextID' <= MaxClients
        /\ \A c \in 1..nextID : c \in 1..nextID' /\ owner'[c] = owner[c]
    BY HubGrows DEF TypeOK
  <1>2. \A i \in 0..nextID : i \in 0..nextID'
    BY <1>1
  <1>3. client' \in [Handlers -> 0..nextID'] /\ fresh' \subseteq 1..nextID'
    BY <1>1, <1>2 DEF TypeOK, StreamTypeOK, handler, history
  <1>4. \A h \in Handlers : client'[h] # 0 => owner'[client'[h]] = visitor'[h]
    BY <1>1 DEF TypeOK, StreamTypeOK, handler
  <1>5. \A c \in Clients : awaited'[c] # {} => c <= nextID'
    BY <1>1 DEF TypeOK, StreamTypeOK, history, Clients
  <1> QED
    BY <1>1, <1>3, <1>4, <1>5 DEF TypeOK, StreamTypeOK, redis, ticket, handler, process, history

LEMMA TicketTypes ==
    ASSUME TypeOK, UNCHANGED hubVars, UNCHANGED messageVars
    PROVE  /\ \A u \in Users : IssueTicket(u) => StreamTypeOK'
           /\ \A t \in tickets : ExpireTicket(t) => StreamTypeOK'
           /\ \A t \in tickets, h \in Handlers : ConsumeTicket(h, t) => StreamTypeOK'
  <1> USE DEF TypeOK, StreamTypeOK
  <1>1. ASSUME NEW u \in Users, IssueTicket(u) PROVE StreamTypeOK'
    <2>1. issued' = issued + 1 /\ issued' \in Nat
      BY <1>1 DEF IssueTicket
    <2>2. tickets' \subseteq [id : 1..issued', user : Users]
      BY <1>1, <2>1 DEF IssueTicket
    <2> QED
      BY <1>1, <2>1, <2>2 DEF IssueTicket, redis, handler, process, history, hubVars
  <1>2. ASSUME NEW t \in tickets, ExpireTicket(t) PROVE StreamTypeOK'
    BY <1>2 DEF ExpireTicket, redis, handler, process, history, hubVars
  <1>3. ASSUME NEW t \in tickets, NEW h \in Handlers, ConsumeTicket(h, t) PROVE StreamTypeOK'
    <2>1. t.user \in Users /\ None \notin Users
      BY NoneIsNothing
    <2>2. /\ pc' \in [Handlers -> PCs] /\ visitor' \in [Handlers -> Users \cup {None}]
          /\ client' = client /\ pc[h] = "idle" /\ client[h] = 0
      BY <1>3, <2>1 DEF ConsumeTicket, Goto, PCs
    <2>3. \A g \in Handlers :
            /\ pc'[g] \in {"idle", "admitted"} <=> client'[g] = 0
            /\ pc'[g] # "idle" <=> visitor'[g] \in Users
            /\ client'[g] # 0 => owner'[client'[g]] = visitor'[g]
      BY <1>3, <2>1, <2>2 DEF ConsumeTicket, Goto, hubVars
    <2> QED
      BY <1>3, <2>2, <2>3 DEF ConsumeTicket, Kept, redis, process, history, hubVars
  <1> QED
    BY <1>1, <1>2, <1>3

LEMMA SubscribeTypes ==
    ASSUME TypeOK, NEW h \in Handlers, Subscribe(h)
    PROVE  StreamTypeOK'
  <1> USE DEF TypeOK, StreamTypeOK
  <1>1. visitor[h] \in Users /\ h \in Callers /\ pc[h] = "admitted"
    BY HandlersCall DEF Subscribe
  <1>2. Register(h, visitor[h])
    BY DEF Subscribe
  <1>3. HubNext
    BY <1>1, <1>2 DEF HubNext
  <1>4. /\ nextID \in Nat /\ nextID' \in Nat /\ nextID <= nextID' /\ nextID' <= MaxClients
        /\ \A c \in 1..nextID : c \in 1..nextID' /\ owner'[c] = owner[c]
    BY <1>3, HubGrows
  <1>5. nextID' = nextID + 1 /\ owner'[nextID + 1] = visitor[h]
    BY <1>2, <1>4 DEF Register, HubTypeOK, Clients
  <1>6. client' = [client EXCEPT ![h] = nextID + 1] /\ pc' = [pc EXCEPT ![h] = "registered"]
    BY DEF Subscribe, Goto
  <1>7. client' \in [Handlers -> 0..nextID'] /\ fresh' \subseteq 1..nextID'
    <2>1. \A i \in 0..nextID : i \in 0..nextID'
      BY <1>4
    <2>2. nextID + 1 \in 0..nextID'
      BY <1>4, <1>5
    <2> QED
      BY <1>4, <1>6, <2>1, <2>2 DEF Subscribe, history
  <1>8. ASSUME NEW g \in Handlers
        PROVE  /\ pc'[g] \in {"idle", "admitted"} <=> client'[g] = 0
               /\ pc'[g] # "idle" <=> visitor'[g] \in Users
               /\ client'[g] # 0 => owner'[client'[g]] = visitor'[g]
    <2>1. visitor' = visitor
      BY DEF Subscribe
    <2>2. CASE g = h
      <3>1. pc'[g] = "registered" /\ client'[g] = nextID + 1 /\ client'[g] # 0
        BY <1>4, <1>6, <2>2
      <3> QED
        BY <1>1, <1>5, <2>1, <2>2, <3>1
    <2>3. CASE g # h
      <3>1. pc'[g] = pc[g] /\ client'[g] = client[g]
        BY <1>6, <2>3
      <3>2. client[g] # 0 => owner'[client[g]] = owner[client[g]]
        BY <1>4
      <3> QED
        BY <2>1, <3>1, <3>2
    <2> QED
      BY <2>2, <2>3
  <1>9. pc' \in [Handlers -> PCs]
    BY <1>6 DEF PCs
  <1>10. \A c \in Clients : awaited'[c] # {} => c <= nextID'
    BY <1>4 DEF Subscribe, history, Clients
  <1> QED
    BY <1>7, <1>8, <1>9, <1>10 DEF Subscribe, redis, ticket, process, history

\* A handler that is past its registration goes on to `label`.
LEMMA StepTypes ==
    ASSUME TypeOK, NEW h \in Handlers, client[h] # 0,
           NEW label \in PCs \ {"idle", "admitted"}, Goto(h, label),
           UNCHANGED <<client, visitor, nextID, owner>>
    PROVE  /\ pc' \in [Handlers -> PCs]
           /\ client' \in [Handlers -> 0..nextID']
           /\ visitor' \in [Handlers -> Users \cup {None}]
           /\ \A g \in Handlers :
                /\ pc'[g] \in {"idle", "admitted"} <=> client'[g] = 0
                /\ pc'[g] # "idle" <=> visitor'[g] \in Users
                /\ client'[g] # 0 => owner'[client'[g]] = visitor'[g]
  <1>1. pc' = [pc EXCEPT ![h] = label] /\ pc' \in [Handlers -> PCs]
    BY DEF Goto, TypeOK, StreamTypeOK
  <1>2. pc[h] \notin {"idle", "admitted"} /\ label \notin {"idle", "admitted"}
    BY DEF TypeOK, StreamTypeOK
  <1>3. ASSUME NEW g \in Handlers
        PROVE  /\ pc'[g] \in {"idle", "admitted"} <=> pc[g] \in {"idle", "admitted"}
               /\ pc'[g] = "idle" <=> pc[g] = "idle"
    BY <1>1, <1>2 DEF TypeOK, StreamTypeOK
  <1> QED
    BY <1>1, <1>3 DEF TypeOK, StreamTypeOK

LEMMA HandlerTypes ==
    ASSUME TypeOK, NEW h \in Handlers,
           \/ ReadUnread(h) \/ WriteReady(h) \/ WriteEvent(h)
           \/ ChannelClosed(h) \/ ReadUnreadFails(h) \/ Disconnect(h)
    PROVE  StreamTypeOK'
  <1>1. client[h] # 0 /\ client[h] \in 1..nextID /\ nextID \in Nat
    <2>1. pc[h] \in {"registered", "greeting", "live"}
      BY DEF ReadUnread, WriteReady, WriteEvent, ChannelClosed, Drained, ReadUnreadFails, Disconnect
    <2>2. client[h] # 0 /\ client[h] \in 0..nextID /\ nextID \in Nat
      BY <2>1, HubFinite DEF TypeOK, StreamTypeOK
    <2> QED
      BY <2>2
  <1>2. fresh \cup {client[h]} \subseteq 1..nextID
    BY <1>1 DEF TypeOK, StreamTypeOK
  <1>3. \A n : Told(h, n) \subseteq 1..nextID
    BY <1>2 DEF Told
  <1>4. CASE ReadUnread(h)
    <2>1. hello' \in [Handlers -> 0..MaxChanges \cup {Unknown}]
      BY <1>4, CountIsBounded DEF ReadUnread, TypeOK, StreamTypeOK
    <2> QED
      BY <1>1, <1>4, <2>1, StepTypes
      DEF ReadUnread, TypeOK, StreamTypeOK, PCs, redis, ticket, process, history, hubVars
  <1>5. CASE ReadUnreadFails(h)
    <2>1. faults' \in 0..MaxFaults
      BY <1>5, BoundsNat DEF ReadUnreadFails, Fault, TypeOK, StreamTypeOK
    <2> QED
      BY <1>1, <1>5, <2>1, StepTypes
      DEF ReadUnreadFails, TypeOK, StreamTypeOK, PCs, redis, ticket, history, hubVars
  <1>6. CASE WriteReady(h)
    <2>1. hello' \in [Handlers -> 0..MaxChanges \cup {Unknown}] /\ fresh' \subseteq 1..nextID
      BY <1>3, <1>6 DEF WriteReady, TypeOK, StreamTypeOK
    <2> QED
      BY <1>1, <1>6, <2>1, StepTypes
      DEF WriteReady, TypeOK, StreamTypeOK, PCs, redis, ticket, process, hubVars
  <1>7. CASE WriteEvent(h)
    <2>1. fresh' \subseteq 1..nextID
      BY <1>3, <1>7 DEF WriteEvent
    <2>2. PICK k : awaited' = [awaited EXCEPT ![client[h]] = @ \ {k}]
      BY <1>7 DEF WriteEvent
    <2>3. awaited' \in [Clients -> SUBSET (0..MaxChanges)] /\ \A c \in Clients : awaited'[c] # {} => c <= nextID
      BY <2>2 DEF TypeOK, StreamTypeOK
    <2>4. nextID' = nextID /\ owner' = owner
      BY <1>7 DEF WriteEvent, Receive
    <2> QED
      BY <1>7, <2>1, <2>3, <2>4 DEF WriteEvent, TypeOK, StreamTypeOK, redis, ticket, handler, process
  <1>8. CASE ChannelClosed(h) \/ Disconnect(h)
    <2>1. Leave(h)
      BY <1>8 DEF ChannelClosed, Disconnect
    <2>2. nextID' = nextID /\ owner' = owner
      BY <2>1 DEF Leave, Unregister
    <2> QED
      BY <1>1, <2>1, <2>2, StepTypes
      DEF Leave, TypeOK, StreamTypeOK, PCs, redis, ticket, process, history
  <1> QED
    BY <1>4, <1>5, <1>6, <1>7, <1>8

\* Messages and notifications.
LEMMA MessageStepTypes ==
    ASSUME TypeOK, UNCHANGED hubVars,
           \/ \E s \in Sources : Create(s)
           \/ \E u, ids : Read(u, ids)
           \/ \E n \in notices : Count(n) \/ CountFails(n)
           \/ \E n \in counted : Publish(n) \/ PublishFails(n)
    PROVE  StreamTypeOK'
  <1> USE DEF TypeOK, StreamTypeOK
  <1>1. ASSUME NEW s \in Sources, Create(s) PROVE StreamTypeOK'
    <2>1. CASE ~ Inserted(s)
      BY <1>1, <2>1 DEF Create, redis, ticket, handler, process, history, hubVars
    <2>2. CASE Inserted(s)
      <3>1. fresh' \subseteq 1..nextID
        BY <1>1, <2>2 DEF Create, Outdate
      <3>2. /\ awaited' = [c \in Clients |-> awaited[c] \cup
                             (IF c \in ClientsOf(s.user) THEN {changes} ELSE {})]
            /\ changes \in 0..MaxChanges
        BY <1>1, <2>2 DEF Create, MessagesTypeOK
      <3>3. awaited' \in [Clients -> SUBSET (0..MaxChanges)]
        BY <3>2
      <3>4. ASSUME NEW c \in Clients, awaited'[c] # {} PROVE c <= nextID
        <4>1. CASE c \in ClientsOf(s.user)
          BY <4>1, HubFinite DEF ClientsOf
        <4>2. CASE c \notin ClientsOf(s.user)
          <5>1. awaited'[c] = awaited[c]
            BY <3>2, <4>2
          <5> QED
            BY <3>4, <5>1
        <4> QED
          BY <4>1, <4>2
      <3> QED
        BY <1>1, <3>1, <3>3, <3>4 DEF Create, redis, ticket, handler, process, hubVars
    <2> QED
      BY <2>1, <2>2
  <1>2. ASSUME NEW u, NEW ids, Read(u, ids) PROVE StreamTypeOK'
    BY <1>2 DEF Read, Outdate, redis, ticket, handler, process, hubVars
  <1>3. ASSUME NEW n, Count(n) PROVE StreamTypeOK'
    BY <1>3 DEF Count, redis, ticket, handler, process, history, hubVars
  <1>4. ASSUME NEW n, CountFails(n) \/ PublishFails(n) PROVE StreamTypeOK'
    <2>1. faults' \in 0..MaxFaults
      BY <1>4, BoundsNat DEF CountFails, PublishFails, Fault
    <2> QED
      BY <1>4, <2>1 DEF CountFails, PublishFails, redis, ticket, handler, history, hubVars
  <1>5. ASSUME NEW n \in counted, Publish(n) PROVE StreamTypeOK'
    <2>1. n \in Frames
      BY DEF MessagesTypeOK
    <2>2. pubsub' \in Seq(Frames)
      BY <1>5, <2>1 DEF Publish
    <2> QED
      BY <1>5, <2>2 DEF Publish, ticket, handler, process, history, hubVars
  <1> QED
    BY <1>1, <1>2, <1>3, <1>4, <1>5

LEMMA SubscriptionTypes ==
    ASSUME TypeOK, RunOnce \/ Reconnect \/ LoseConnection \/ RunOnceEnds \/ Dispatch \/ Stop
    PROVE  StreamTypeOK'
  <1> USE DEF TypeOK, StreamTypeOK
  <1>1. CASE RunOnce \/ Reconnect
    BY <1>1 DEF RunOnce, Reconnect, ticket, handler, process, history, hubVars
  <1>2. CASE LoseConnection \/ RunOnceEnds
    <2>1. faults' \in 0..MaxFaults
      BY <1>2, BoundsNat DEF LoseConnection, RunOnceEnds, Fault
    <2>2. pubsub' = <<>> /\ subscribed' = FALSE /\ ready' \in {ready, FALSE}
      BY <1>2 DEF LoseConnection, RunOnceEnds
    <2>3. pubsub' \in Seq(Frames) /\ subscribed' \in BOOLEAN /\ ready' \in BOOLEAN
      <3>1. ready \in BOOLEAN /\ <<>> \in Seq(Frames)
        OBVIOUS
      <3>2. ready' \in BOOLEAN
        BY <2>2, <3>1
      <3> QED
        BY <2>2, <3>1, <3>2
    <2> QED
      BY <1>2, <2>1, <2>3 DEF LoseConnection, RunOnceEnds, ticket, handler, history, hubVars
  <1>3. CASE Dispatch
    <2>1. pubsub' \in Seq(Frames) /\ nextID' = nextID /\ owner' = owner
      BY <1>3 DEF Dispatch, OnEvent
    <2> QED
      BY <1>3, <2>1 DEF Dispatch, ticket, handler, process, history
  <1>4. CASE Stop
    <2>1. faults' \in 0..MaxFaults /\ nextID' = nextID /\ owner' = owner /\ stopping' = TRUE
      BY <1>4, BoundsNat DEF Stop, Fault, Close
    <2> QED
      BY <1>4, <2>1 DEF Stop, redis, ticket, handler, history
  <1> QED
    BY <1>1, <1>2, <1>3, <1>4

LEMMA NextTypes == TypeOK /\ [Next]_vars => TypeOK'
  <1> SUFFICES ASSUME TypeOK, [Next]_vars PROVE TypeOK'
    OBVIOUS
  <1>1. HubTypeOK'
    BY HubSteps, HubNextTypes DEF TypeOK
  <1>2. CASE UNCHANGED vars
    <2>1. UNCHANGED messageVars /\ UNCHANGED <<redis, ticket, handler, process, history>>
      BY <1>2 DEF vars
    <2>2. MessagesTypeOK'
      BY <2>1 DEF messageVars, MessagesTypeOK, TypeOK
    <2> QED
      BY <1>1, <2>1, <2>2, HubSteps, StreamTypesStay DEF TypeOK
  <1>3. CASE Next
    <2>1. MessagesTypeOK'
      BY <1>3, MessageTypesKept DEF TypeOK
    <2>2. StreamTypeOK'
      <3>1. CASE \E u \in Users : IssueTicket(u)
        BY <3>1, TicketTypes DEF IssueTicket
      <3>2. CASE \E t \in tickets : ExpireTicket(t) \/ \E h \in Handlers : ConsumeTicket(h, t)
        BY <3>2, TicketTypes DEF ExpireTicket, ConsumeTicket
      <3>3. CASE \E h \in Handlers : Stream(h) \/ ReadUnreadFails(h) \/ Disconnect(h)
        BY <3>3, SubscribeTypes, HandlerTypes, HubSteps, StreamTypesStay DEF Stream, Proceed
      <3>4. CASE \/ \E u \in Users : \E ids \in Ids(u) : Read(u, ids)
                 \/ \E s \in Sources : Create(s)
                 \/ \E n \in notices : Count(n) \/ CountFails(n)
                 \/ \E n \in counted : Publish(n) \/ PublishFails(n)
        <4>1. UNCHANGED hubVars
          BY <3>4 DEF Read, Create, Count, CountFails, Publish, PublishFails
        <4> QED
          BY <3>4, <4>1, MessageStepTypes
      <3>5. CASE RunOnce \/ Reconnect \/ LoseConnection \/ RunOnceEnds \/ Dispatch \/ Stop
        BY <3>5, SubscriptionTypes
      <3>6. CASE (\E c \in targets : Send(c)) \/ \E p \in {Dispatcher, Closer} : Proceed(p)
        BY <3>6, HubSteps, StreamTypesStay DEF Send, Proceed
      <3> QED
        BY <1>3, <3>1, <3>2, <3>3, <3>4, <3>5, <3>6 DEF Next
    <2> QED
      BY <1>1, <2>1, <2>2 DEF TypeOK
  <1> QED
    BY <1>2, <1>3

--------------------------------------------------------------------------------

LEMMA InAppended ==
    ASSUME NEW S, NEW s \in Seq(S), NEW x \in S
    PROVE  /\ In(x, Append(s, x))
           /\ \A e : In(e, s) => In(e, Append(s, x))
  <1>1. Len(Append(s, x)) = Len(s) + 1 /\ Len(s) \in Nat
    OBVIOUS
  <1>2. Append(s, x)[Len(s) + 1] = x
    OBVIOUS
  <1>3. \A i \in 1..Len(s) : Append(s, x)[i] = s[i] /\ i \in 1..Len(s) + 1
    OBVIOUS
  <1>4. In(x, Append(s, x))
    BY <1>1, <1>2 DEF In
  <1>5. \A e : In(e, s) => In(e, Append(s, x))
    BY <1>1, <1>3 DEF In
  <1> QED
    BY <1>4, <1>5

LEMMA InTail ==
    ASSUME NEW S, NEW s \in Seq(S), s # <<>>, NEW e, In(e, s)
    PROVE  e = Head(s) \/ In(e, Tail(s))
  <1>1. PICK i \in 1..Len(s) : s[i] = e
    BY DEF In
  <1>2. Len(Tail(s)) = Len(s) - 1 /\ Len(s) \in Nat
    OBVIOUS
  <1>3. CASE i = 1
    BY <1>1, <1>3
  <1>4. CASE i # 1
    <2>1. i - 1 \in 1..Len(Tail(s)) /\ Tail(s)[i - 1] = s[i]
      BY <1>2, <1>4
    <2> QED
      BY <1>1, <2>1 DEF In
  <1> QED
    BY <1>3, <1>4

--------------------------------------------------------------------------------

\* Faults are counted and never forgotten.
LEMMA FaultsCounted ==
    ASSUME TypeOK, [Next]_vars, faults' = 0
    PROVE  faults = 0 /\ \A kind : ~ Fault(kind)
  <1>1. faults \in Nat
    BY BoundsNat DEF TypeOK, StreamTypeOK
  <1>2. ASSUME NEW kind PROVE ~ Fault(kind)
    BY <1>1 DEF Fault
  <1>3. CASE UNCHANGED faults
    BY <1>2, <1>3
  <1>4. CASE UNCHANGED process
    BY <1>3, <1>4 DEF process
  <1> QED
    BY <1>2, <1>3, <1>4
    DEF Next, vars, Stream, Subscribe, ReadUnread, ReadUnreadFails, WriteReady, WriteEvent,
        ChannelClosed, Disconnect, Leave, Proceed, IssueTicket, ExpireTicket, ConsumeTicket,
        Read, Create, Count, CountFails, Publish, PublishFails, RunOnce, Reconnect, Dispatch,
        LoseConnection, RunOnceEnds, Stop, Send

\* As long as nothing fails the subscription is kept once it is there.
LEMMA StaysConnected ==
    ASSUME TypeOK, TypeOK', Connected, [Next]_vars
    PROVE  Connected'
  <1> SUFFICES ASSUME faults' = 0
               PROVE  /\ ~ stopping'
                      /\ ready' => subscribed'
                      /\ nextID' > 0 => ready'
                      /\ \A h \in Handlers : pc'[h] # "idle" => ready'
    BY DEF Connected
  <1>1. /\ faults = 0 /\ \A kind : ~ Fault(kind)
        /\ ~ stopping /\ (ready => subscribed) /\ (nextID > 0 => ready)
        /\ \A h \in Handlers : pc[h] # "idle" => ready
    BY FaultsCounted DEF Connected
  <1>2. CASE UNCHANGED <<redis, process, nextID, pc>>
    BY <1>1, <1>2 DEF redis, process
  <1>3. CASE UNCHANGED vars
    BY <1>2, <1>3 DEF vars, redis, process, handler, hubVars
  <1>4. ASSUME UNCHANGED <<redis, process, nextID>>, NEW h \in Handlers, NEW label, ready, Goto(h, label)
        PROVE  Connected'
    BY <1>1, <1>4 DEF Connected, redis, process
  <1>5. ASSUME NEW h \in Handlers, Stream(h) PROVE Connected'
    <2>1. CASE Subscribe(h)
      <3>1. ready
        BY <1>1, <2>1 DEF Subscribe
      <3>2. UNCHANGED <<redis, process>> /\ ready' /\ ~ stopping' /\ subscribed'
        BY <1>1, <2>1, <3>1 DEF Subscribe, redis, process
      <3> QED
        BY <3>2 DEF Connected
    <2>2. CASE ReadUnread(h) \/ WriteReady(h) \/ ChannelClosed(h)
      <3>1. pc[h] # "idle" /\ ready
        BY <1>1, <2>2 DEF ReadUnread, WriteReady, ChannelClosed, Drained
      <3>2. UNCHANGED <<redis, process, nextID>>
        BY <2>2 DEF ReadUnread, WriteReady, ChannelClosed, Leave, Unregister, hubVars
      <3>3. \E label : Goto(h, label)
        BY <2>2 DEF ReadUnread, WriteReady, ChannelClosed, Leave
      <3> QED
        BY <1>4, <3>1, <3>2, <3>3
    <2>3. CASE WriteEvent(h)
      BY <1>1, <2>3 DEF WriteEvent, Receive, Connected, redis, process, handler
    <2>4. CASE Proceed(h)
      BY <1>1, <2>4 DEF Proceed, Within, CloseOne, ObserveLeft, ObserveJoined, Connected,
                        redis, process, handler
    <2> QED
      BY <1>5, <2>1, <2>2, <2>3, <2>4 DEF Stream
  <1>6. ASSUME NEW h \in Handlers, Disconnect(h) PROVE Connected'
    <2>1. ready /\ Goto(h, "leaving")
      BY <1>1, <1>6 DEF Disconnect, Leave
    <2>2. UNCHANGED <<redis, process, nextID>>
      BY <1>6 DEF Disconnect, Leave, Unregister
    <2> QED
      BY <1>4, <2>1, <2>2
  <1>7. ASSUME NEW h \in Handlers, NEW t, ConsumeTicket(h, t) PROVE Connected'
    BY <1>4, <1>7 DEF ConsumeTicket, process, hubVars
  <1>8. CASE RunOnce \/ Reconnect
    <2>1. ready' /\ subscribed' /\ ~ stopping'
      BY <1>1, <1>8 DEF RunOnce, Reconnect, process
    <2> QED
      BY <2>1
  <1>9. CASE Dispatch
    BY <1>1, <1>9 DEF Dispatch, OnEvent, handler, process
  <1>10. CASE LoseConnection \/ RunOnceEnds \/ Stop
    BY <1>1, <1>10 DEF LoseConnection, RunOnceEnds, Stop
  <1>11. ASSUME NEW c, Send(c) PROVE Connected'
    BY <1>1, <1>11 DEF Send, TrySend, Sent, Skipped, Dropped, Unregister, Connected,
                       redis, process, handler
  <1>12. ASSUME NEW p, Proceed(p) PROVE Connected'
    BY <1>1, <1>12 DEF Proceed, Within, CloseOne, ObserveLeft, ObserveJoined, Connected,
                       redis, process, handler
  <1>13. ASSUME NEW n, Publish(n) PROVE Connected'
    BY <1>1, <1>13 DEF Publish, Connected, process, handler, hubVars
  <1>14. ASSUME NEW n, CountFails(n) \/ PublishFails(n) PROVE FALSE
    BY <1>1, <1>14 DEF CountFails, PublishFails
  <1>15. ASSUME NEW h, ReadUnreadFails(h) PROVE FALSE
    BY <1>1, <1>15 DEF ReadUnreadFails
  <1>16. ASSUME \/ \E u : IssueTicket(u)
                \/ \E u, ids : Read(u, ids)
                \/ \E t : ExpireTicket(t)
                \/ \E s : Create(s)
                \/ \E n : Count(n)
         PROVE  UNCHANGED <<redis, process, nextID, pc>>
    BY <1>16 DEF IssueTicket, Read, ExpireTicket, Create, Count, handler, hubVars
  <1> QED
    <2>1. CASE \E u \in Users : IssueTicket(u) \/ \E ids \in Ids(u) : Read(u, ids)
      BY <1>2, <1>16, <2>1
    <2>2. CASE \E t \in tickets : ExpireTicket(t) \/ \E h \in Handlers : ConsumeTicket(h, t)
      BY <1>2, <1>7, <1>16, <2>2 DEF Connected
    <2>3. CASE \E h \in Handlers : Stream(h) \/ ReadUnreadFails(h) \/ Disconnect(h)
      BY <1>5, <1>6, <1>15, <2>3 DEF Connected
    <2>4. CASE \E s \in Sources : Create(s)
      BY <1>2, <1>16, <2>4
    <2>5. CASE \/ \E n \in notices : Count(n) \/ CountFails(n)
               \/ \E n \in counted : Publish(n) \/ PublishFails(n)
      BY <1>2, <1>13, <1>14, <1>16, <2>5 DEF Connected
    <2>6. CASE (\E c \in targets : Send(c)) \/ \E p \in {Dispatcher, Closer} : Proceed(p)
      BY <1>11, <1>12, <2>6 DEF Connected
    <2> QED
      BY <1>3, <1>8, <1>9, <1>10, <2>1, <2>2, <2>3, <2>4, <2>5, <2>6 DEF Next

--------------------------------------------------------------------------------
(* A notification on its way.                                                *)

\* A client that is to be closed is never taken back.
LEMMA DoomedStays ==
    ASSUME HubTypeOK, [HubNext]_hubVars, NEW c \in 1..nextID, ~ Doomed(c)'
    PROVE  ~ Doomed(c)
  <1> SUFFICES ASSUME Doomed(c) PROVE Doomed(c)'
    OBVIOUS
  <1>1. CASE UNCHANGED <<closed, closing>>
    BY <1>1 DEF Doomed
  <1>2. ASSUME NEW p \in Callers, NEW u \in Users, Register(p, u) PROVE Doomed(c)'
    BY <1>2 DEF Register, Doomed
  <1>3. ASSUME NEW p \in Callers, NEW d \in 1..nextID, Unregister(p, d) PROVE Doomed(c)'
    BY <1>3 DEF Unregister, Free, Doomed, HubTypeOK
  <1>4. ASSUME NEW p \in Callers, Close(p) PROVE Doomed(c)'
    BY <1>4 DEF Close, Free, Doomed, HubTypeOK
  <1>5. ASSUME NEW p \in Callers, Within(p) PROVE Doomed(c)'
    BY <1>5 DEF Within, CloseOne, ObserveLeft, ObserveJoined, Doomed, HubTypeOK
  <1>6. ASSUME NEW d \in targets, TrySend(d) PROVE Doomed(c)'
    <2>1. CASE Dropped(d)
      <3>1. d \in 1..nextID
        BY DEF HubTypeOK
      <3> QED
        BY <1>3, <2>1, <3>1, DispatcherCalls DEF Dropped
    <2> QED
      BY <1>1, <1>6, <2>1 DEF TrySend, Sent, Skipped
  <1>7. (\E u \in Users, e \in Events : OnEvent(u, e)) \/ (\E d \in 1..nextID : Receive(d))
           => UNCHANGED <<closed, closing>>
    BY DEF OnEvent, Receive
  <1>8. UNCHANGED hubVars => UNCHANGED <<closed, closing>>
    BY DEF hubVars
  <1> QED
    BY <1>1, <1>2, <1>3, <1>4, <1>5, <1>6, <1>7, <1>8 DEF HubNext

\* The dispatch takes an event to the clients of its user.
LEMMA DispatchCarries ==
    ASSUME TypeOK, HubIInv, Dispatch, NEW c \in 1..nextID, ~ Doomed(c), NEW e, OnItsWay(c, e)
    PROVE  OnItsWay(c, e)'
  <1>1. /\ pubsub # <<>> /\ pubsub \in Seq(Frames) /\ pubsub' = Tail(pubsub)
        /\ targets = {} /\ targets' = members[Head(pubsub).user]
        /\ (members[Head(pubsub).user] # {} => event' = Head(pubsub))
        /\ owner' = owner /\ buffer' = buffer /\ counted' = counted
    BY DEF Dispatch, OnEvent, messageVars, TypeOK, StreamTypeOK
  <1>2. CASE In(e, pubsub) /\ e.user = owner[c]
    <2>1. e = Head(pubsub) \/ In(e, Tail(pubsub))
      BY <1>1, <1>2, InTail
    <2>2. c \in members[owner[c]]
      BY DEF HubIInv, StreamsAccountedFor, ClientsAccountedFor
    <2>3. e = Head(pubsub) => c \in targets' /\ e = event'
      BY <1>1, <1>2, <2>2
    <2> QED
      BY <1>1, <1>2, <2>1, <2>3 DEF OnItsWay
  <1>3. CASE e \in counted /\ e.user = owner[c]
    BY <1>1, <1>3 DEF OnItsWay
  <1>4. CASE In(e, buffer[c])
    BY <1>1, <1>4 DEF OnItsWay
  <1> QED
    BY <1>1, <1>2, <1>3, <1>4 DEF OnItsWay

\* What is sent arrives in the buffer, unless the client is or will be closed.
LEMMA SendCarries ==
    ASSUME TypeOK, NEW d \in targets, Send(d), NEW c \in 1..nextID, ~ Doomed(c)',
           NEW e, OnItsWay(c, e)
    PROVE  OnItsWay(c, e)'
  <1>1. /\ TrySend(d) /\ targets' = targets \ {d} /\ (targets # {d} => event' = event)
        /\ pubsub' = pubsub /\ counted' = counted
    BY DEF Send, TrySend, redis, messageVars
  <1>2. owner' = owner
    BY <1>1 DEF TrySend, Sent, Skipped, Dropped, Unregister
  <1>3. d \in 1..nextID /\ d \in Clients /\ c \in Clients /\ event \in Events
    BY MaxClientsNat DEF TypeOK, HubTypeOK, Clients
  <1>4. \A b \in Clients : buffer'[b] = buffer[b] \/ (b = d /\ buffer'[b] = Append(buffer[b], event))
    BY <1>1 DEF TrySend, Sent, Skipped, Dropped, Unregister, TypeOK, HubTypeOK
  <1>5. buffer[c] \in Seq(Events)
    BY <1>3 DEF TypeOK, HubTypeOK
  <1>6. In(e, buffer[c]) => In(e, buffer'[c])
    BY <1>3, <1>4, <1>5, InAppended
  <1>7. CASE c \in targets /\ e = event
    <2>1. CASE d # c
      BY <1>1, <1>7, <2>1 DEF OnItsWay
    <2>2. CASE d = c
      <3>1. CASE Sent(d)
        <4>1. buffer'[c] = Append(buffer[c], event)
          BY <1>3, <2>2, <3>1 DEF Sent, TypeOK, HubTypeOK
        <4>2. In(e, buffer'[c])
          BY <1>3, <1>5, <1>7, <4>1, InAppended
        <4> QED
          BY <4>2 DEF OnItsWay
      <3>2. CASE Skipped(d)
        <4>1. c \in closed'
          BY <2>2, <3>2 DEF Skipped, Open
        <4> QED
          BY <4>1 DEF Doomed
      <3>3. CASE Dropped(d)
        <4>1. c \in closing'[Dispatcher]
          BY <2>2, <3>3, DispatcherCalls DEF Dropped, Unregister, TypeOK, HubTypeOK
        <4> QED
          BY <4>1, DispatcherCalls DEF Doomed
      <3> QED
        BY <1>1, <3>1, <3>2, <3>3 DEF TrySend
    <2> QED
      BY <2>1, <2>2
  <1>8. CASE ~ (c \in targets /\ e = event)
    BY <1>1, <1>2, <1>6, <1>8 DEF OnItsWay
  <1> QED
    BY <1>7, <1>8

\* A handler takes what it writes from the buffer of its client.
LEMMA WriteCarries ==
    ASSUME TypeOK, NEW h \in Handlers, WriteEvent(h), NEW c \in 1..nextID, NEW e, OnItsWay(c, e)
    PROVE  OnItsWay(c, e)' \/ (client[h] = c /\ e = Head(buffer[c]))
  <1>1. /\ pubsub' = pubsub /\ counted' = counted /\ owner' = owner
        /\ targets' = targets /\ event' = event
    BY DEF WriteEvent, Receive, redis, messageVars
  <1>2. c \in Clients /\ buffer[c] \in Seq(Events)
    BY MaxClientsNat DEF TypeOK, HubTypeOK, Clients
  <1>3. CASE client[h] = c /\ In(e, buffer[c])
    <2>1. buffer[c] # <<>> /\ buffer'[c] = Tail(buffer[c])
      BY <1>2, <1>3 DEF WriteEvent, Receive, TypeOK, HubTypeOK
    <2>2. e = Head(buffer[c]) \/ In(e, buffer'[c])
      BY <1>2, <1>3, <2>1, InTail
    <2> QED
      BY <1>3, <2>2 DEF OnItsWay
  <1>4. CASE client[h] # c
    <2>1. buffer'[c] = buffer[c]
      BY <1>2, <1>4 DEF WriteEvent, Receive, TypeOK, HubTypeOK
    <2> QED
      BY <1>1, <2>1 DEF OnItsWay
  <1>5. CASE ~ In(e, buffer[c])
    BY <1>1, <1>5 DEF OnItsWay
  <1> QED
    BY <1>3, <1>4, <1>5

\* A published notification goes to Redis and from there to this process.
LEMMA PublishCarries ==
    ASSUME TypeOK, Connected, faults = 0, NEW n \in counted, Publish(n),
           NEW c \in 1..nextID, NEW e, OnItsWay(c, e)
    PROVE  OnItsWay(c, e)'
  <1>1. subscribed
    <2>1. nextID \in Nat
      BY HubFinite DEF TypeOK
    <2>2. nextID > 0
      BY <2>1
    <2> QED
      BY <2>2 DEF Connected
  <1>2. /\ counted' = counted \ {n} /\ pubsub' = Append(pubsub, n) /\ UNCHANGED hubVars
        /\ n \in Frames /\ pubsub \in Seq(Frames)
    BY <1>1 DEF Publish, NoticeEnds, TypeOK, MessagesTypeOK, StreamTypeOK
  <1>3. In(n, pubsub') /\ (In(e, pubsub) => In(e, pubsub'))
    BY <1>2, InAppended
  <1> QED
    BY <1>2, <1>3 DEF OnItsWay, hubVars

\* As long as nothing fails, a notification that is on its way to a client stays
\* on its way until it is written, or until the client is to be closed.
LEMMA NothingIsDropped ==
    ASSUME TypeOK, HubIInv, Connected, [Next]_vars, faults' = 0,
           NEW c \in 1..nextID, ~ Doomed(c)', NEW e, OnItsWay(c, e)
    PROVE  \/ OnItsWay(c, e)'
           \/ \E h \in Handlers : WriteEvent(h) /\ client[h] = c /\ e = Head(buffer[c])
  <1>1. faults = 0 /\ (\A kind : ~ Fault(kind)) /\ ~ stopping
    BY FaultsCounted DEF Connected
  <1>2. [HubNext]_hubVars /\ ~ Doomed(c)
    BY HubSteps, DoomedStays DEF TypeOK
  <1>3. owner'[c] = owner[c]
    BY <1>2, HubGrows DEF TypeOK
  <1>4. CASE counted \subseteq counted' /\ UNCHANGED <<pubsub, targets, event, buffer>>
    BY <1>3, <1>4 DEF OnItsWay
  <1>5. CASE UNCHANGED <<counted, pubsub, targets, event, buffer>>
    BY <1>4, <1>5
  <1>6. ASSUME NEW h \in Handlers, Stream(h) \/ ReadUnreadFails(h) \/ Disconnect(h)
        PROVE  WriteEvent(h) \/ UNCHANGED <<counted, pubsub, targets, event, buffer>>
    BY <1>1, <1>6
    DEF Stream, Subscribe, Register, ReadUnread, ReadUnreadFails, WriteReady, ChannelClosed,
        Disconnect, Leave, Unregister, Proceed, Within, CloseOne, ObserveLeft, ObserveJoined,
        redis, messageVars, hubVars
  <1>7. ASSUME NEW n \in notices, Count(n) \/ CountFails(n)
        PROVE  counted \subseteq counted' /\ UNCHANGED <<pubsub, targets, event, buffer>>
    BY <1>1, <1>7 DEF Count, CountFails, CountForNotice, redis, hubVars
  <1>8. ASSUME NEW n, PublishFails(n) PROVE FALSE
    BY <1>1, <1>8 DEF PublishFails
  <1>9. ASSUME \/ \E u : IssueTicket(u)
               \/ \E u, ids : Read(u, ids)
               \/ \E t : ExpireTicket(t)
               \/ \E h, t : ConsumeTicket(h, t)
               \/ \E s : Create(s)
               \/ RunOnce \/ Reconnect
               \/ UNCHANGED vars
               \/ \E p : Proceed(p)
        PROVE  UNCHANGED <<counted, pubsub, targets, event, buffer>>
    BY <1>9 DEF IssueTicket, Read, MarkRead, ExpireTicket, ConsumeTicket, Create, CreateFromEvent,
       RunOnce, Reconnect, Proceed, Within, CloseOne, ObserveLeft, ObserveJoined, vars, redis,
       messageVars, hubVars
  <1>10. ~ (LoseConnection \/ RunOnceEnds \/ Stop)
    BY <1>1 DEF LoseConnection, RunOnceEnds, Stop
  <1> QED
    <2>1. CASE \E u \in Users : IssueTicket(u) \/ \E ids \in Ids(u) : Read(u, ids)
      BY <1>5, <1>9, <2>1
    <2>2. CASE \E t \in tickets : ExpireTicket(t) \/ \E h \in Handlers : ConsumeTicket(h, t)
      BY <1>5, <1>9, <2>2
    <2>3. CASE \E h \in Handlers : Stream(h) \/ ReadUnreadFails(h) \/ Disconnect(h)
      BY <1>5, <1>6, <2>3, WriteCarries
    <2>4. CASE \E s \in Sources : Create(s)
      BY <1>5, <1>9, <2>4
    <2>5. CASE \/ \E n \in notices : Count(n) \/ CountFails(n)
               \/ \E n \in counted : Publish(n) \/ PublishFails(n)
      BY <1>1, <1>4, <1>7, <1>8, <2>5, PublishCarries
    <2>6. CASE (\E d \in targets : Send(d)) \/ \E p \in {Dispatcher, Closer} : Proceed(p)
      BY <1>5, <1>9, <2>6, SendCarries
    <2>7. CASE Dispatch
      BY <1>2, <2>7, DispatchCarries
    <2> QED
      BY <1>5, <1>9, <1>10, <2>1, <2>2, <2>3, <2>4, <2>5, <2>6, <2>7 DEF Next

\* A notice is counted, and what has been counted is on its way.
LEMMA NoticeIsCounted ==
    ASSUME TypeOK, [Next]_vars, faults' = 0, NEW c \in 1..nextID,
           NEW n \in Uncounted(owner[c]), n \notin notices'
    PROVE  \E e \in Events :
               /\ OnItsWay(c, e)'
               /\ e.id = n.id /\ e.count = CountUnread(owner[c])
  <1>1. \A kind : ~ Fault(kind)
    BY FaultsCounted
  <1>2. n \in notices /\ n.user = owner[c]
    BY DEF Uncounted
  <1>3. owner'[c] = owner[c]
    BY HubSteps, HubGrows DEF TypeOK
  <1>4. ASSUME NEW m \in notices, Count(m) \/ CountFails(m)
        PROVE  m = n /\ CountForNotice(n, CountUnread(n.user))
    BY <1>1, <1>2, <1>4 DEF Count, CountFails, CountForNotice, CurrentCount
  <1>5. CountForNotice(n, CountUnread(n.user))
    <2>1. CASE notices \subseteq notices'
      BY <1>2, <2>1
    <2>2. ASSUME NEW h \in Handlers, Stream(h) \/ ReadUnreadFails(h) \/ Disconnect(h)
          PROVE  notices \subseteq notices'
      BY <2>2 DEF Stream, Subscribe, ReadUnread, ReadUnreadFails, WriteReady, WriteEvent,
                  ChannelClosed, Disconnect, Leave, Proceed, messageVars
    <2>3. ASSUME NEW s \in Sources, Create(s) PROVE notices \subseteq notices'
      BY <2>3 DEF Create, CreateFromEvent
    <2>4. ASSUME NEW u, NEW ids, Read(u, ids) PROVE notices \subseteq notices'
      BY <2>4 DEF Read, MarkRead
    <2>5. ASSUME \/ \E u : IssueTicket(u)
                 \/ \E t : ExpireTicket(t)
                 \/ \E h, t : ConsumeTicket(h, t)
                 \/ RunOnce \/ Reconnect \/ Dispatch \/ LoseConnection \/ RunOnceEnds \/ Stop
                 \/ UNCHANGED vars
                 \/ \E d : Proceed(d) \/ Send(d)
                 \/ \E m : Publish(m) \/ PublishFails(m)
          PROVE  notices \subseteq notices'
      BY <2>5 DEF IssueTicket, ExpireTicket, ConsumeTicket, RunOnce, Reconnect, Dispatch,
         LoseConnection, RunOnceEnds, Stop, Proceed, Send, Publish, PublishFails, NoticeEnds,
         vars, messageVars
    <2>6. CASE \E u \in Users : IssueTicket(u) \/ \E ids \in Ids(u) : Read(u, ids)
      BY <2>1, <2>4, <2>5, <2>6
    <2>7. CASE \E t \in tickets : ExpireTicket(t) \/ \E h \in Handlers : ConsumeTicket(h, t)
      BY <2>1, <2>5, <2>7
    <2>8. CASE \E h \in Handlers : Stream(h) \/ ReadUnreadFails(h) \/ Disconnect(h)
      BY <2>1, <2>2, <2>8
    <2>9. CASE \E s \in Sources : Create(s)
      BY <2>1, <2>3, <2>9
    <2>10. CASE \/ \E m \in notices : Count(m) \/ CountFails(m)
                \/ \E m \in counted : Publish(m) \/ PublishFails(m)
      BY <1>4, <2>1, <2>5, <2>10
    <2>11. CASE (\E d \in targets : Send(d)) \/ \E p \in {Dispatcher, Closer} : Proceed(p)
      BY <2>1, <2>5, <2>11
    <2> QED
      BY <2>1, <2>5, <2>6, <2>7, <2>8, <2>9, <2>10, <2>11 DEF Next
  <1>6. PICK e : e = [type |-> n.type, id |-> n.id, user |-> n.user, count |-> CountUnread(n.user)]
    OBVIOUS
  <1>7. e \in Events
    <2>1. CountUnread(n.user) \in 0..MaxChanges
      BY CountIsBounded DEF TypeOK
    <2>2. e \in Frames
      BY <1>2, <1>6, <2>1 DEF TypeOK, MessagesTypeOK, Frames
    <2> QED
      BY <2>2, FramesAreEvents
  <1>8. e \in counted' /\ e.user = owner'[c]
    BY <1>2, <1>3, <1>5, <1>6 DEF CountForNotice
  <1>9. e.id = n.id /\ e.count = CountUnread(owner[c])
    BY <1>2, <1>6
  <1> QED
    BY <1>7, <1>8, <1>9 DEF OnItsWay

\* The unread messages of a user change only when the user is notified of it.
LEMMA CountChanges ==
    ASSUME TypeOK, [Next]_vars, NEW u
    PROVE  \/ CountUnread(u)' = CountUnread(u) /\ \A c \in 1..nextID : owner[c] = u /\ c \in fresh => c \in fresh'
           \/ Uncounted(u)' # {}
  <1>1. CASE messages' = messages /\ fresh \subseteq fresh'
    BY <1>1 DEF CountUnread, UnreadOf
  <1>2. ASSUME NEW s \in Sources, Create(s), Inserted(s), s.user = u PROVE Uncounted(u)' # {}
    <2>1. Notice("message", u) \in notices' /\ Notice("message", u).user = u
      BY <1>2 DEF Create, CreateFromEvent, Notice
    <2>2. PICK n : n = Notice("message", u)
      OBVIOUS
    <2>3. n \in Uncounted(u)'
      BY <2>1, <2>2 DEF Uncounted
    <2> QED
      BY <2>3
  <1>3. ASSUME NEW s \in Sources, Create(s), Inserted(s), s.user # u
        PROVE  CountUnread(u)' = CountUnread(u) /\ \A c \in 1..nextID : owner[c] = u /\ c \in fresh => c \in fresh'
    <2>1. PICK row : row.user = s.user /\ messages' = messages \cup {row}
      BY <1>3 DEF Create, CreateFromEvent, Inserted
    <2>2. UnreadOf(u)' = UnreadOf(u)
      BY <1>3, <2>1 DEF UnreadOf
    <2>3. fresh' = fresh \ ClientsOf(s.user)
      BY <1>3 DEF Create, Outdate
    <2> QED
      BY <1>3, <2>2, <2>3 DEF CountUnread, ClientsOf
  <1>4. ASSUME NEW v, NEW ids, Read(v, ids), v = u PROVE Uncounted(u)' # {}
    <2>1. Notice("unread", u) \in notices' /\ Notice("unread", u).user = u
      BY <1>4 DEF Read, MarkRead, Notice
    <2>2. PICK n : n = Notice("unread", u)
      OBVIOUS
    <2>3. n \in Uncounted(u)'
      BY <2>1, <2>2 DEF Uncounted
    <2> QED
      BY <2>3
  <1>5. ASSUME NEW v, NEW ids, Read(v, ids), v # u
        PROVE  CountUnread(u)' = CountUnread(u) /\ \A c \in 1..nextID : owner[c] = u /\ c \in fresh => c \in fresh'
    <2>1. PICK hit : /\ hit \subseteq UnreadOf(v)
                     /\ messages' = (messages \ hit) \cup {[m EXCEPT !.read = TRUE] : m \in hit}
      BY <1>5 DEF Read, MarkRead
    <2>2. messages \subseteq Row
      BY DEF TypeOK, MessagesTypeOK, Row
    <2>3. \A m \in hit : m \in Row /\ m.user = v /\ [m EXCEPT !.read = TRUE].user = v
      BY <2>1, <2>2 DEF UnreadOf, Row
    <2>4. UnreadOf(u)' = UnreadOf(u)
      <3> DEFINE image == {[m EXCEPT !.read = TRUE] : m \in hit}
      <3>1. \A m \in image : m.user = v
        BY <2>3
      <3> HIDE DEF image
      <3>2. \A m : m.user = u => (m \in messages' <=> m \in messages)
        BY <1>5, <2>1, <2>3, <3>1 DEF image
      <3> QED
        BY <3>2 DEF UnreadOf
    <2>5. fresh' = fresh \ ClientsOf(v)
      BY <1>5 DEF Read, Outdate
    <2> QED
      BY <1>5, <2>4, <2>5 DEF CountUnread, ClientsOf
  <1>6. ASSUME NEW s \in Sources, Create(s), ~ Inserted(s) PROVE messages' = messages /\ fresh \subseteq fresh'
    BY <1>6 DEF Create, CreateFromEvent, Inserted, history
  <1>7. ASSUME NEW h \in Handlers, Stream(h) \/ ReadUnreadFails(h) \/ Disconnect(h)
        PROVE  messages' = messages /\ fresh \subseteq fresh'
    BY <1>7 DEF Stream, Subscribe, ReadUnread, ReadUnreadFails, WriteReady, WriteEvent, Told,
                ChannelClosed, Disconnect, Leave, Proceed, messageVars, history
  <1>8. ASSUME \/ \E v : IssueTicket(v)
               \/ \E t : ExpireTicket(t)
               \/ \E h, t : ConsumeTicket(h, t)
               \/ RunOnce \/ Reconnect \/ Dispatch \/ LoseConnection \/ RunOnceEnds \/ Stop
               \/ UNCHANGED vars
               \/ \E d : Proceed(d) \/ Send(d)
               \/ \E m : Publish(m) \/ PublishFails(m)
               \/ \E m : Count(m) \/ CountFails(m)
        PROVE  messages' = messages /\ fresh \subseteq fresh'
    BY <1>8 DEF IssueTicket, ExpireTicket, ConsumeTicket, RunOnce, Reconnect, Dispatch,
       LoseConnection, RunOnceEnds, Stop, Proceed, Send, Publish, PublishFails, NoticeEnds,
       Count, CountFails, CountForNotice, vars, messageVars, history
  <1>9. CASE \E v \in Users : IssueTicket(v) \/ \E ids \in Ids(v) : Read(v, ids)
    BY <1>1, <1>4, <1>5, <1>8, <1>9
  <1>10. CASE \E t \in tickets : ExpireTicket(t) \/ \E h \in Handlers : ConsumeTicket(h, t)
    BY <1>1, <1>8, <1>10
  <1>11. CASE \E h \in Handlers : Stream(h) \/ ReadUnreadFails(h) \/ Disconnect(h)
    BY <1>1, <1>7, <1>11
  <1>12. CASE \E s \in Sources : Create(s)
    BY <1>1, <1>2, <1>3, <1>6, <1>12
  <1>13. CASE \/ \E m \in notices : Count(m) \/ CountFails(m)
              \/ \E m \in counted : Publish(m) \/ PublishFails(m)
    BY <1>1, <1>8, <1>13
  <1>14. CASE (\E d \in targets : Send(d)) \/ \E p \in {Dispatcher, Closer} : Proceed(p)
    BY <1>1, <1>8, <1>14
  <1> QED
    BY <1>1, <1>8, <1>9, <1>10, <1>11, <1>12, <1>13, <1>14 DEF Next

--------------------------------------------------------------------------------
(* What the streams wait for.                                                *)

\* A client starts to wait for a message only when the message is made, and its
\* notice with it; a client that has just come waits for none.
LEMMA WaitsBegin ==
    ASSUME TypeOK, [Next]_vars, NEW c \in 1..nextID', NEW k \in awaited'[c]
    PROVE  /\ c \in 1..nextID
           /\ \/ k \in awaited[c]
              \/ \E n \in Uncounted(owner[c])' : n.id = k
  <1>1. /\ nextID \in Nat /\ nextID' \in Nat /\ nextID <= nextID' /\ nextID' <= MaxClients
        /\ \A d \in 1..nextID : d \in 1..nextID' /\ owner'[d] = owner[d]
    BY HubSteps, HubGrows DEF TypeOK
  <1>2. c \in Clients /\ (awaited[c] # {} => c \in 1..nextID)
    <2>1. c \in Clients
      BY <1>1, MaxClientsNat DEF Clients
    <2> QED
      BY <1>1, <2>1 DEF Clients, TypeOK, StreamTypeOK
  <1>3. CASE awaited'[c] \subseteq awaited[c]
    BY <1>2, <1>3
  <1>4. ASSUME NEW s \in Sources, Create(s), Inserted(s), k \notin awaited[c]
        PROVE  c \in 1..nextID /\ \E n \in Uncounted(owner[c])' : n.id = k
    <2>1. c \in ClientsOf(s.user) /\ k = changes
      BY <1>2, <1>4 DEF Create
    <2>2. c \in 1..nextID /\ owner[c] = s.user /\ owner'[c] = owner[c]
      BY <1>1, <2>1 DEF ClientsOf
    <2>3. PICK n : n = Notice("message", s.user)
      OBVIOUS
    <2>4. n \in notices' /\ n.user = s.user /\ n.id = k
      BY <1>4, <2>1, <2>3 DEF Create, CreateFromEvent, Notice
    <2>5. n \in Uncounted(owner[c])'
      BY <2>2, <2>4 DEF Uncounted
    <2> QED
      BY <2>2, <2>4, <2>5
  <1>5. ASSUME NEW s \in Sources, Create(s), ~ Inserted(s) PROVE awaited' = awaited
    BY <1>5 DEF Create, history
  <1>6. ASSUME NEW h \in Handlers, Stream(h) \/ ReadUnreadFails(h) \/ Disconnect(h)
        PROVE  awaited'[c] \subseteq awaited[c]
    <2>1. CASE WriteEvent(h)
      BY <1>2, <2>1 DEF WriteEvent, TypeOK, StreamTypeOK
    <2>2. CASE ~ WriteEvent(h)
      BY <1>6, <2>2 DEF Stream, Subscribe, ReadUnread, ReadUnreadFails, WriteReady,
                  ChannelClosed, Disconnect, Leave, Proceed, history
    <2> QED
      BY <2>1, <2>2
  <1>7. ASSUME \/ \E v : IssueTicket(v)
               \/ \E t : ExpireTicket(t)
               \/ \E v, ids : Read(v, ids)
               \/ \E h, t : ConsumeTicket(h, t)
               \/ RunOnce \/ Reconnect \/ Dispatch \/ LoseConnection \/ RunOnceEnds \/ Stop
               \/ UNCHANGED vars
               \/ \E d : Proceed(d) \/ Send(d)
               \/ \E m : Publish(m) \/ PublishFails(m)
               \/ \E m : Count(m) \/ CountFails(m)
        PROVE  awaited' = awaited
    BY <1>7 DEF IssueTicket, ExpireTicket, ConsumeTicket, Read, RunOnce, Reconnect, Dispatch,
       LoseConnection, RunOnceEnds, Stop, Proceed, Send, Publish, PublishFails,
       Count, CountFails, vars, history
  <1>8. CASE \E v \in Users : IssueTicket(v) \/ \E ids \in Ids(v) : Read(v, ids)
    BY <1>3, <1>7, <1>8
  <1>9. CASE \E t \in tickets : ExpireTicket(t) \/ \E h \in Handlers : ConsumeTicket(h, t)
    BY <1>3, <1>7, <1>9
  <1>10. CASE \E h \in Handlers : Stream(h) \/ ReadUnreadFails(h) \/ Disconnect(h)
    BY <1>3, <1>6, <1>10
  <1>11. CASE \E s \in Sources : Create(s)
    BY <1>2, <1>3, <1>4, <1>5, <1>11
  <1>12. CASE \/ \E m \in notices : Count(m) \/ CountFails(m)
              \/ \E m \in counted : Publish(m) \/ PublishFails(m)
    BY <1>3, <1>7, <1>12
  <1>13. CASE (\E d \in targets : Send(d)) \/ \E p \in {Dispatcher, Closer} : Proceed(p)
    BY <1>3, <1>7, <1>13
  <1> QED
    BY <1>3, <1>7, <1>8, <1>9, <1>10, <1>11, <1>12, <1>13 DEF Next

LEMMA AwaitedStillComes ==
    ASSUME TypeOK, HubIInv, Connected, AwaitedComes, [Next]_vars
    PROVE  AwaitedComes'
  <1> SUFFICES ASSUME faults' = 0, NEW c \in 1..nextID', ~ Doomed(c)', NEW k \in awaited'[c]
               PROVE  \/ \E n \in Uncounted(owner[c])' : n.id = k
                      \/ \E e \in Events : OnItsWay(c, e)' /\ e.id = k
    BY DEF AwaitedComes
  <1>1. faults = 0
    BY FaultsCounted
  <1>2. /\ c \in 1..nextID
        /\ k \in awaited[c] \/ \E n \in Uncounted(owner[c])' : n.id = k
    BY WaitsBegin
  <1>3. owner'[c] = owner[c] /\ ~ Doomed(c)
    BY <1>2, HubSteps, HubGrows, DoomedStays DEF TypeOK
  <1>4. ASSUME NEW n \in Uncounted(owner[c]), n.id = k
        PROVE  \/ \E m \in Uncounted(owner[c])' : m.id = k
               \/ \E e \in Events : OnItsWay(c, e)' /\ e.id = k
    <2>1. CASE n \in notices'
      <3>1. n \in Uncounted(owner[c])'
        BY <1>3, <2>1 DEF Uncounted
      <3> QED
        BY <1>4, <3>1
    <2>2. CASE n \notin notices'
      BY <1>2, <1>4, <2>2, NoticeIsCounted
    <2> QED
      BY <2>1, <2>2
  <1>5. ASSUME NEW e \in Events, OnItsWay(c, e), e.id = k PROVE OnItsWay(c, e)'
    <2>1. ASSUME NEW h \in Handlers, WriteEvent(h), client[h] = c, e = Head(buffer[c])
          PROVE  FALSE
      <3>1. c \in Clients
        BY <1>2, MaxClientsNat DEF TypeOK, HubTypeOK, Clients
      <3>2. awaited'[c] = awaited[c] \ {e.id}
        BY <2>1, <3>1 DEF WriteEvent, TypeOK, StreamTypeOK
      <3> QED
        BY <1>5, <3>2
    <2> QED
      BY <1>2, <1>5, <2>1, NothingIsDropped
  <1>6. CASE k \in awaited[c]
    <2>1. \/ \E n \in Uncounted(owner[c]) : n.id = k
          \/ \E e \in Events : OnItsWay(c, e) /\ e.id = k
      BY <1>1, <1>2, <1>3, <1>6 DEF AwaitedComes
    <2> QED
      BY <1>4, <1>5, <2>1
  <1> QED
    BY <1>2, <1>6

\* A handler comes to its greeting by reading the count, and to its stream by
\* writing what it has read.
LEMMA GreetingBegins ==
    ASSUME TypeOK, [Next]_vars, faults' = 0,
           NEW h \in Handlers, pc'[h] \in {"greeting", "live"}
    PROVE  \/ pc'[h] = "greeting" /\ hello'[h] = CountUnread(visitor[h])' /\ visitor' = visitor
           \/ /\ pc[h] \in {"greeting", "live"} /\ client'[h] = client[h] /\ visitor'[h] = visitor[h]
              /\ \/ pc'[h] = pc[h] /\ hello'[h] = hello[h]
                 \/ WriteReady(h)
  <1>1. \A kind : ~ Fault(kind)
    BY FaultsCounted
  <1>2. CASE UNCHANGED handler
    BY <1>2 DEF handler
  <1>3. ASSUME NEW g \in Handlers, Stream(g) \/ ReadUnreadFails(g) \/ Disconnect(g), ~ UNCHANGED handler
        PROVE  \/ g = h /\ (ReadUnread(h) \/ WriteReady(h))
               \/ g # h /\ pc'[h] = pc[h] /\ client'[h] = client[h] /\ visitor' = visitor /\ hello'[h] = hello[h]
    <2>1. CASE ReadUnread(g) \/ WriteReady(g)
      BY <2>1 DEF ReadUnread, WriteReady, Goto, TypeOK, StreamTypeOK
    <2>2. CASE Subscribe(g)
      BY <2>2 DEF Subscribe, Goto, TypeOK, StreamTypeOK
    <2>3. CASE ChannelClosed(g) \/ Disconnect(g)
      BY <2>3 DEF ChannelClosed, Disconnect, Leave, Goto, TypeOK, StreamTypeOK
    <2>4. CASE WriteEvent(g) \/ Proceed(g) \/ ReadUnreadFails(g)
      BY <1>1, <1>3, <2>4 DEF WriteEvent, Proceed, ReadUnreadFails
    <2> QED
      BY <1>3, <2>1, <2>2, <2>3, <2>4 DEF Stream
  <1>4. CASE ReadUnread(h)
    <2>1. pc'[h] = "greeting" /\ hello'[h] = CountUnread(visitor[h]) /\ visitor' = visitor
      BY <1>4 DEF ReadUnread, Goto, TypeOK, StreamTypeOK
    <2>2. CountUnread(visitor[h])' = CountUnread(visitor[h])
      BY <1>4, <2>1 DEF ReadUnread, messageVars, CountUnread, UnreadOf
    <2> QED
      BY <2>1, <2>2
  <1>5. CASE WriteReady(h)
    BY <1>5 DEF WriteReady
  <1>6. ASSUME NEW g \in Handlers, NEW t, ConsumeTicket(g, t)
        PROVE  g # h /\ pc'[h] = pc[h] /\ client'[h] = client[h] /\ visitor'[h] = visitor[h] /\ hello' = hello
    BY <1>6 DEF ConsumeTicket, Goto, TypeOK, StreamTypeOK
  <1>7. CASE \E g \in Handlers : Stream(g) \/ ReadUnreadFails(g) \/ Disconnect(g)
    BY <1>2, <1>3, <1>4, <1>5, <1>7
  <1>8. ASSUME \/ \E v : IssueTicket(v)
               \/ \E t : ExpireTicket(t)
               \/ \E v, ids : Read(v, ids)
               \/ \E s : Create(s)
               \/ RunOnce \/ Reconnect \/ Dispatch \/ LoseConnection \/ RunOnceEnds \/ Stop
               \/ UNCHANGED vars
               \/ \E d : Proceed(d) \/ Send(d)
               \/ \E m : Publish(m) \/ PublishFails(m)
               \/ \E m : Count(m) \/ CountFails(m)
        PROVE  UNCHANGED handler
    BY <1>8 DEF IssueTicket, ExpireTicket, Read, Create, RunOnce, Reconnect, Dispatch,
       LoseConnection, RunOnceEnds, Stop, Proceed, Send, Publish, PublishFails,
       Count, CountFails, vars
  <1>9. CASE \E v \in Users : IssueTicket(v) \/ \E ids \in Ids(v) : Read(v, ids)
    BY <1>2, <1>8, <1>9
  <1>10. CASE \E t \in tickets : ExpireTicket(t) \/ \E g \in Handlers : ConsumeTicket(g, t)
    BY <1>2, <1>6, <1>8, <1>10
  <1>11. CASE (\E s \in Sources : Create(s)) \/ (\E m \in notices : Count(m) \/ CountFails(m))
              \/ (\E m \in counted : Publish(m) \/ PublishFails(m))
    BY <1>2, <1>8, <1>11
  <1>12. CASE (\E d \in targets : Send(d)) \/ \E p \in {Dispatcher, Closer} : Proceed(p)
    BY <1>2, <1>8, <1>12
  <1> QED
    BY <1>2, <1>7, <1>8, <1>9, <1>10, <1>11, <1>12 DEF Next

LEMMA CountStillComes ==
    ASSUME TypeOK, HubIInv, Connected, CountComes, [Next]_vars
    PROVE  CountComes'
  <1> SUFFICES ASSUME faults' = 0, NEW h \in Handlers, pc'[h] \in {"greeting", "live"},
                      ~ Doomed(client[h])'
               PROVE  \/ client'[h] \in fresh'
                      \/ pc'[h] = "greeting" /\ hello'[h] = CountUnread(visitor[h])'
                      \/ Uncounted(visitor[h])' # {}
                      \/ \E e \in Events : OnItsWay(client[h], e)' /\ e.count = CountUnread(visitor[h])'
    BY DEF CountComes
  <1>1. faults = 0
    BY FaultsCounted
  <1>2. PICK c, u : c = client'[h] /\ u = visitor'[h]
    OBVIOUS
  <1> SUFFICES \/ c \in fresh'
               \/ pc'[h] = "greeting" /\ hello'[h] = CountUnread(u)'
               \/ Uncounted(u)' # {}
               \/ \E e \in Events : OnItsWay(c, e)' /\ e.count = CountUnread(u)'
    BY <1>2
  <1>3. CASE pc'[h] = "greeting" /\ hello'[h] = CountUnread(visitor[h])' /\ visitor' = visitor
    BY <1>2, <1>3
  <1>4. CASE Uncounted(u)' # {}
    BY <1>4
  <1>5. ASSUME pc[h] \in {"greeting", "live"}, client'[h] = client[h], visitor'[h] = visitor[h],
               \/ pc'[h] = pc[h] /\ hello'[h] = hello[h]
               \/ WriteReady(h),
               Uncounted(u)' = {}
        PROVE  \/ c \in fresh'
               \/ pc'[h] = "greeting" /\ hello'[h] = CountUnread(u)'
               \/ \E e \in Events : OnItsWay(c, e)' /\ e.count = CountUnread(u)'
    <2>1. c = client[h] /\ u = visitor[h] /\ ~ Doomed(c)'
      BY <1>2, <1>5
    <2>2. c \in 1..nextID /\ owner[c] = u
      <3>1. client[h] # 0 /\ client[h] \in 0..nextID /\ nextID \in Nat
        BY <1>5, HubFinite DEF TypeOK, StreamTypeOK
      <3> QED
        BY <2>1, <3>1 DEF TypeOK, StreamTypeOK
    <2>3. owner'[c] = owner[c] /\ ~ Doomed(c)
      BY <2>1, <2>2, HubSteps, HubGrows, DoomedStays DEF TypeOK
    <2>4. CountUnread(u)' = CountUnread(u) /\ (c \in fresh => c \in fresh')
      BY <1>5, <2>2, CountChanges
    <2>5. \/ c \in fresh
          \/ pc[h] = "greeting" /\ hello[h] = CountUnread(u)
          \/ Uncounted(u) # {}
          \/ \E e \in Events : OnItsWay(c, e) /\ e.count = CountUnread(u)
      BY <1>1, <1>5, <2>1, <2>3 DEF CountComes
    <2>6. CASE pc[h] = "greeting" /\ hello[h] = CountUnread(u)
      <3>1. WriteReady(h) => c \in fresh'
        BY <2>1, <2>6 DEF WriteReady, Told
      <3> QED
        BY <1>5, <2>4, <2>6, <3>1
    <2>7. ASSUME NEW n \in Uncounted(u) PROVE \E e \in Events : OnItsWay(c, e)' /\ e.count = CountUnread(u)
      <3>1. n \notin notices'
        BY <1>5, <2>7 DEF Uncounted
      <3> QED
        BY <2>2, <2>7, <3>1, NoticeIsCounted
    <2>8. ASSUME NEW e \in Events, OnItsWay(c, e), e.count = CountUnread(u)
          PROVE  c \in fresh' \/ OnItsWay(c, e)'
      <3>1. ASSUME NEW g \in Handlers, WriteEvent(g), client[g] = c, e = Head(buffer[c])
            PROVE  c \in fresh'
        <4>1. visitor[g] = u
          <5>1. client[g] # 0
            BY <3>1 DEF WriteEvent, TypeOK, StreamTypeOK
          <5> QED
            BY <2>2, <3>1, <5>1 DEF TypeOK, StreamTypeOK
        <4> QED
          BY <2>8, <3>1, <4>1 DEF WriteEvent, Told
      <3> QED
        BY <2>1, <2>2, <2>8, <3>1, NothingIsDropped
    <2> QED
      BY <2>4, <2>5, <2>6, <2>7, <2>8
  <1>6. \/ pc'[h] = "greeting" /\ hello'[h] = CountUnread(visitor[h])' /\ visitor' = visitor
        \/ /\ pc[h] \in {"greeting", "live"} /\ client'[h] = client[h] /\ visitor'[h] = visitor[h]
           /\ \/ pc'[h] = pc[h] /\ hello'[h] = hello[h]
              \/ WriteReady(h)
    BY GreetingBegins
  <1> QED
    BY <1>3, <1>4, <1>5, <1>6

LEMMA InitConsistent == Init => IInv
  <1> SUFFICES ASSUME Init PROVE IInv
    OBVIOUS
  <1>1. TypeOK
    BY InitHubTypes, InitMessageTypes, InitStreamTypes DEF Init, TypeOK
  <1>2. HubIInv
    BY InitHub DEF Init
  <1>3. nextID = 0 /\ 1..nextID = {}
    BY DEF Init, HubInit
  <1>4. Connected
    BY <1>3 DEF Connected, Init
  <1>5. AwaitedComes
    BY <1>3 DEF AwaitedComes
  <1>6. CountComes
    BY DEF CountComes, Init
  <1> QED
    BY <1>1, <1>2, <1>4, <1>5, <1>6 DEF IInv

LEMMA NextConsistent == IInv /\ [Next]_vars => IInv'
  <1> SUFFICES ASSUME IInv, [Next]_vars PROVE IInv'
    OBVIOUS
  <1>1. TypeOK'
    BY NextTypes DEF IInv
  <1>2. HubIInv'
    BY HubSteps, NextHub DEF IInv
  <1> QED
    BY <1>1, <1>2, StaysConnected, AwaitedStillComes, CountStillComes DEF IInv

--------------------------------------------------------------------------------

\* The composition keeps its types: among others, no user ever has more streams
\* than MaxConnections (hub.go:85) and no buffer more events than fit (hub.go:50).
THEOREM TypesAreKept == Spec => []TypeOK
  <1>1. Init => TypeOK
    BY InitHubTypes, InitMessageTypes, InitStreamTypes DEF Init, TypeOK
  <1> QED
    BY <1>1, NextTypes, PTL DEF Spec

\* Streams, messages and the subscription use the hub as its own specification
\* says: the composition implements the hub.
THEOREM StreamsUseTheHub == Spec => HubSpec
  <1>1. Init => HubInit
    BY DEF Init
  <1>2. TypeOK /\ [Next]_vars => [HubNext]_hubVars
    BY HubSteps
  <1> QED
    BY <1>1, <1>2, TypesAreKept, PTL DEF Spec, HubSpec

\* hub.go:86, 100, 132, 146: for any callers and users, a client is closed, or
\* about to be, exactly when it is out of the registry, and the gauge counts each
\* client off once, whatever kicks, slow clients, leaving handlers and Close do
\* to it between their two locks.
THEOREM StreamsAreAccountedFor == Spec => []StreamsAccountedFor
  <1>1. HubSpec => []HubIInv
    BY InitHub, NextHub, PTL DEF HubSpec
  <1>2. HubIInv => StreamsAccountedFor
    BY DEF HubIInv
  <1> QED
    BY <1>1, <1>2, StreamsUseTheHub, PTL

\* hub.go:44, 161: nothing is ever sent on a closed channel.
THEOREM ClosedGetNothing == Spec => NothingSentOnClosed
  <1>1. TypeOK /\ [Next]_vars => [\A c \in closed : Len(buffer'[c]) <= Len(buffer[c])]_hubVars
    BY HubSteps, ClosedOnlyDrain DEF TypeOK
  <1> QED
    BY <1>1, TypesAreKept, PTL DEF Spec, NothingSentOnClosed

\* stream.go:64, 68; service.go:195: as long as nothing fails, a stream with
\* nothing more on its way has been told of every message made since it was
\* registered, and of the unread count of now.
THEOREM StreamsAreToldEverything == Spec => []ToldEverything
  <1>1. ASSUME IInv PROVE ToldEverything
    <2> SUFFICES ASSUME NEW h \in Handlers, pc[h] = "live", ~ Doomed(client[h]),
                        buffer[client[h]] = <<>>, Settled(visitor[h]), faults = 0
                 PROVE  client[h] \in fresh /\ awaited[client[h]] = {}
      BY DEF ToldEverything
    <2>1. PICK c, u : c = client[h] /\ u = visitor[h]
      OBVIOUS
    <2>2. c \in 1..nextID /\ owner[c] = u
      <3>1. client[h] # 0 /\ client[h] \in 0..nextID /\ nextID \in Nat
        BY <1>1, HubFinite DEF IInv, TypeOK, StreamTypeOK
      <3> QED
        BY <1>1, <2>1, <3>1 DEF IInv, TypeOK, StreamTypeOK
    <2>3. Uncounted(u) = {} /\ \A e : e \in counted => e.user # u
      BY <2>1 DEF Settled, Uncounted
    <2>4. \A e : ~ OnItsWay(c, e)
      <3>1. pubsub = <<>> /\ targets = {} /\ buffer[c] = <<>>
        BY <2>1 DEF Settled
      <3>2. \A e : ~ In(e, <<>>)
        BY DEF In
      <3> QED
        BY <2>2, <2>3, <3>1, <3>2 DEF OnItsWay
    <2>5. c \in fresh
      BY <1>1, <2>1, <2>3, <2>4 DEF IInv, CountComes
    <2>6. awaited[c] = {}
      BY <1>1, <2>1, <2>2, <2>3, <2>4 DEF IInv, AwaitedComes
    <2> QED
      BY <2>1, <2>5, <2>6
  <1> QED
    BY <1>1, InitConsistent, NextConsistent, PTL DEF Spec
================================================================================
