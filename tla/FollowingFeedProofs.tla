-------------------------- MODULE FollowingFeedProofs --------------------------
(***************************************************************************)
(* A video whose fan-out has ended is in the index of every user who is    *)
(* covered, for any numbers of users, authors, videos, requests, workers   *)
(* and faults, and any sizes of batches, boxes and backfills.              *)
(*                                                                         *)
(* The argument: a pair that relies on the index has its follow row and no *)
(* removal under way (Safe). For such a pair a published video is in the   *)
(* index, in the queue, or with a worker that has still to come to this    *)
(* follower (Reached), or in the hands of the pair's own backfill. A step  *)
(* that breaks this loses the pair, as Spoil says (NotLost, StepReaches).  *)
(***************************************************************************)
EXTENDS FollowingFeed, FiniteSetTheorems, WellFoundedInduction, TLAPS

--------------------------------------------------------------------------------
(* Sets of numbers: the order of the feed and the order of the followers.    *)

\* A set of numbers that is not empty has a least member.
LEMMA LeastMember ==
    ASSUME NEW S \in SUBSET Nat, S # {}
    PROVE  \E m \in S : \A x \in S : m <= x
  <1>1. IsWellFoundedOn(OpToRel(<, Nat), Nat)
    BY NatLessThanWellFounded
  <1>2. PICK m \in S : \A x \in S : <<x, m>> \notin OpToRel(<, Nat)
    BY <1>1, WFMin
  <1>3. \A x \in S : ~ (x < m)
    BY <1>2, Zenon DEF OpToRel
  <1> QED
    BY <1>3

\* The sets of what precedes a member and what follows it grow with the order.
LEMMA EarlierCounts ==
    ASSUME NEW S \in SUBSET Nat, IsFiniteSet(S), NEW x \in S, NEW y \in S, x <= y
    PROVE  /\ Cardinality(Earlier(S, x)) \in Nat /\ Cardinality(Earlier(S, y)) \in Nat
           /\ Cardinality(Earlier(S, x)) <= Cardinality(Earlier(S, y))
  <1>1. Earlier(S, y) \in SUBSET S /\ Earlier(S, x) \in SUBSET Earlier(S, y)
    <2>1. ASSUME NEW z \in Earlier(S, x) PROVE z \in Earlier(S, y)
      <3>1. z \in S /\ z < x /\ z \in Nat /\ x \in Nat /\ y \in Nat
        BY DEF Earlier
      <3> QED
        BY <3>1 DEF Earlier
    <2> QED
      BY <2>1 DEF Earlier
  <1>2. IsFiniteSet(Earlier(S, y))
    BY <1>1, FS_Subset
  <1>3. IsFiniteSet(Earlier(S, x)) /\ Cardinality(Earlier(S, x)) <= Cardinality(Earlier(S, y))
    BY <1>1, <1>2, FS_Subset
  <1> QED
    BY <1>2, <1>3, FS_CardinalityType

\* Max of the library, for finite sets of numbers.
LEMMA MaxOfFinite ==
    ASSUME NEW S \in SUBSET Nat, IsFiniteSet(S), S # {}
    PROVE  Max(S) \in S /\ \A x \in S : Max(S) >= x
  <1> DEFINE counts == {Cardinality(Later(S, x)) : x \in S}
  <1>1. \A x \in S : IsFiniteSet(Later(S, x)) /\ Cardinality(Later(S, x)) \in Nat
    <2> SUFFICES ASSUME NEW x \in S
                 PROVE  IsFiniteSet(Later(S, x)) /\ Cardinality(Later(S, x)) \in Nat
      OBVIOUS
    <2>1. Later(S, x) \in SUBSET S
      BY DEF Later
    <2> QED
      BY <2>1, FS_Subset, FS_CardinalityType
  <1>2. PICK m \in S : \A x \in S : Cardinality(Later(S, m)) <= Cardinality(Later(S, x))
    <2>1. counts \subseteq Nat
      BY <1>1
    <2>2. counts # {}
      OBVIOUS
    <2>3. PICK n \in counts : \A k \in counts : n <= k
      <3> HIDE DEF counts
      <3> QED
        BY <2>1, <2>2, LeastMember
    <2> QED
      BY <2>3
  <1>3. ASSUME NEW x \in S, x > m PROVE FALSE
    <2>1. Later(S, x) \in SUBSET Later(S, m)
      <3> SUFFICES ASSUME NEW z \in Later(S, x) PROVE z \in Later(S, m)
        OBVIOUS
      <3>1. z \in S /\ z > x /\ z \in Nat /\ x \in Nat /\ m \in Nat
        BY DEF Later
      <3> QED
        BY <1>3, <3>1 DEF Later
    <2>2. x \in Later(S, m) /\ x \notin Later(S, x)
      BY <1>3 DEF Later
    <2>3. Cardinality(Later(S, x)) <= Cardinality(Later(S, m))
      BY <1>1, <2>1, FS_Subset
    <2>4. Cardinality(Later(S, x)) = Cardinality(Later(S, m))
      BY <1>1, <1>2, <2>3
    <2> QED
      BY <1>1, <2>1, <2>2, <2>4, FS_Subset
  <1>4. \A x \in S : m >= x
    BY <1>3
  <1> QED
    BY <1>4, Zenon DEF Max

\* Whoever is not among the first `n` comes after them, and there are `n` of them.
LEMMA FirstComeFirst ==
    ASSUME NEW S \in SUBSET Nat, IsFiniteSet(S), NEW n \in Nat \ {0}
    PROVE  /\ S # {} => First(S, n) # {}
           /\ \A u \in S \ First(S, n) :
                 /\ Cardinality(First(S, n)) >= n
                 /\ \A x \in First(S, n) : x < u
  <1>1. \A x \in S : Earlier(S, x) \in SUBSET S /\ Cardinality(Earlier(S, x)) \in Nat
    BY EarlierCounts DEF Earlier
  <1>2. ASSUME S # {} PROVE First(S, n) # {}
    <2>1. PICK m \in S : \A x \in S : m <= x
      BY <1>2, LeastMember
    <2>2. Earlier(S, m) = {}
      <3> SUFFICES ASSUME NEW x \in Earlier(S, m) PROVE FALSE
        OBVIOUS
      <3>1. x \in S /\ x < m /\ x \in Nat /\ m \in Nat
        BY DEF Earlier
      <3> QED
        BY <2>1, <3>1
    <2>3. Cardinality(Earlier(S, m)) = 0
      BY <2>2, FS_EmptySet
    <2> QED
      BY <2>3 DEF First
  <1>3. ASSUME NEW u \in S \ First(S, n)
        PROVE  Cardinality(First(S, n)) >= n
    <2> DEFINE R == S \ First(S, n)
    <2>1. R \in SUBSET Nat /\ R # {}
      BY <1>3
    <2>2. PICK m \in R : \A x \in R : m <= x
      <3> HIDE DEF R
      <3> QED
        BY <2>1, LeastMember
    <2>3. Earlier(S, m) \in SUBSET First(S, n)
      <3> SUFFICES ASSUME NEW x \in Earlier(S, m), x \notin First(S, n) PROVE FALSE
        OBVIOUS
      <3>1. x \in S /\ x < m /\ x \in Nat /\ m \in Nat
        BY DEF Earlier
      <3> QED
        BY <2>2, <3>1
    <2>4. Cardinality(Earlier(S, m)) >= n
      BY <1>1, <2>2 DEF First
    <2>5. IsFiniteSet(First(S, n))
      <3>1. First(S, n) \in SUBSET S
        BY DEF First
      <3> QED
        BY <3>1, FS_Subset
    <2>6. Cardinality(Earlier(S, m)) <= Cardinality(First(S, n))
      BY <2>3, <2>5, FS_Subset
    <2>7. Cardinality(First(S, n)) \in Nat /\ Cardinality(Earlier(S, m)) \in Nat
      BY <1>1, <2>2, <2>5, FS_CardinalityType
    <2> QED
      BY <2>4, <2>6, <2>7
  <1>4. ASSUME NEW u \in S \ First(S, n), NEW x \in First(S, n)
        PROVE  x < u
    <2>1. x \in S /\ u \in S /\ x # u /\ x \in Nat /\ u \in Nat
      BY <1>4 DEF First
    <2>2. CASE u <= x
      <3>1. /\ Cardinality(Earlier(S, u)) \in Nat /\ Cardinality(Earlier(S, x)) \in Nat
            /\ Cardinality(Earlier(S, u)) <= Cardinality(Earlier(S, x))
        BY <2>1, <2>2, EarlierCounts
      <3>2. Cardinality(Earlier(S, x)) < n
        BY DEF First
      <3>3. Cardinality(Earlier(S, u)) < n
        BY <3>1, <3>2
      <3> QED
        BY <2>1, <3>3 DEF First
    <2> QED
      BY <2>1, <2>2
  <1> QED
    BY <1>2, <1>3, <1>4

--------------------------------------------------------------------------------
(* Types.                                                                    *)

Typed == TypeOK /\ AtWork

LEMMA InitTypes == Init => Typed
  BY StartIsPairs DEF Init, Typed, TypeOK, AtWork, Pairs

LEMMA FaultTypes ==
    ASSUME TypeOK, NEW kind, Fault(kind)
    PROVE  calls' \in Nat /\ faults' \in Nat
  BY DEF TypeOK, Fault

LEMMA SpoilTypes ==
    ASSUME TypeOK, NEW lost, Spoil(lost)
    PROVE  /\ covered' \subseteq Pairs
           /\ clean' \in [Handlers -> BOOLEAN]
  <1>1. covered' \subseteq Pairs
    BY DEF TypeOK, Spoil
  <1>2. clean' \in [Handlers -> BOOLEAN]
    BY Zenon DEF TypeOK, Spoil
  <1> QED
    BY <1>1, <1>2

LEMMA InboxTypes ==
    ASSUME TypeOK, NEW users, NEW v \in Videos, AddInboxItems(users, v)
    PROVE  inbox' \in [Users -> SUBSET Videos]
  <1>1. \A u \in Users : Inboxed(u, v) \in SUBSET Videos
    BY DEF TypeOK, Inboxed, Newest
  <1> QED
    BY <1>1 DEF TypeOK, AddInboxItems

LEMMA ReplyTypes ==
    ASSUME Typed, NEW h \in Handlers, Reply(h)
    PROVE  /\ pc' \in [Handlers -> {"idle", "count", "list", "add", "find", "remove"}]
           /\ pair' \in [Handlers -> Pairs \cup {None}]
           /\ todo' \in [Handlers -> SUBSET Videos]
           /\ \A g \in Handlers : pc'[g] # "idle" => pair'[g] \in Pairs
           /\ \A g \in Handlers \ {h} : pc'[g] = pc[g] /\ pair'[g] = pair[g] /\ todo'[g] = todo[g]
           /\ pc'[h] = "idle" /\ pair'[h] = None
  <1>1. pc' \in [Handlers -> {"idle", "count", "list", "add", "find", "remove"}]
    BY DEF Typed, TypeOK, Reply
  <1>2. pair' \in [Handlers -> Pairs \cup {None}]
    BY DEF Typed, TypeOK, Reply
  <1>3. todo' \in [Handlers -> SUBSET Videos]
    BY DEF Typed, TypeOK, Reply
  <1>4. \A g \in Handlers \ {h} : pc'[g] = pc[g] /\ pair'[g] = pair[g] /\ todo'[g] = todo[g]
    BY DEF Typed, TypeOK, Reply
  <1>5. pc'[h] = "idle" /\ pair'[h] = None
    BY DEF Typed, TypeOK, Reply
  <1>6. \A g \in Handlers : pc'[g] # "idle" => pair'[g] \in Pairs
    BY <1>4, <1>5 DEF Typed, AtWork
  <1> QED
    BY <1>1, <1>2, <1>3, <1>4, <1>5, <1>6

LEMMA FinishTypes ==
    ASSUME Typed, NEW w \in Workers, Finish(w)
    PROVE  /\ wpc' \in [Workers -> {"idle", "outbox", "list", "add"}]
           /\ event' \in [Workers -> Videos \cup {None}]
           /\ cursor' \in [Workers -> Users \cup {0}]
           /\ batch' \in [Workers -> SUBSET Users]
           /\ \A x \in Workers \ {w} : /\ wpc'[x] = wpc[x] /\ event'[x] = event[x]
                                       /\ cursor'[x] = cursor[x] /\ batch'[x] = batch[x]
           /\ wpc'[w] = "idle"
           /\ \A x \in Workers :
                 IF wpc'[x] = "idle" THEN cursor'[x] = 0 ELSE event'[x] \in Videos
  <1>1. wpc' \in [Workers -> {"idle", "outbox", "list", "add"}] /\ event' \in [Workers -> Videos \cup {None}]
    BY DEF Typed, TypeOK, Finish
  <1>2. cursor' \in [Workers -> Users \cup {0}] /\ batch' \in [Workers -> SUBSET Users]
    BY DEF Typed, TypeOK, Finish
  <1>3. \A x \in Workers \ {w} : /\ wpc'[x] = wpc[x] /\ event'[x] = event[x]
                                 /\ cursor'[x] = cursor[x] /\ batch'[x] = batch[x]
    BY DEF Typed, TypeOK, Finish
  <1>4. wpc'[w] = "idle" /\ cursor'[w] = 0
    BY DEF Typed, TypeOK, Finish
  <1>5. \A x \in Workers : IF wpc'[x] = "idle" THEN cursor'[x] = 0 ELSE event'[x] \in Videos
    BY <1>3, <1>4 DEF Typed, AtWork
  <1> QED
    BY <1>1, <1>2, <1>3, <1>4, <1>5

LEMMA GotoTypes ==
    ASSUME Typed, NEW h \in Handlers, NEW label \in {"count", "list", "add", "find", "remove"},
           Goto(h, label)
    PROVE  /\ pc' \in [Handlers -> {"idle", "count", "list", "add", "find", "remove"}]
           /\ pc'[h] = label
           /\ \A g \in Handlers \ {h} : pc'[g] = pc[g]
  BY DEF Typed, TypeOK, Goto

LEMMA WGotoTypes ==
    ASSUME Typed, NEW w \in Workers, NEW label \in {"outbox", "list", "add"}, WGoto(w, label)
    PROVE  /\ wpc' \in [Workers -> {"idle", "outbox", "list", "add"}]
           /\ wpc'[w] = label
           /\ \A x \in Workers \ {w} : wpc'[x] = wpc[x]
  BY DEF Typed, TypeOK, WGoto

\* A batch has a last follower.
LEMMA BatchTypes ==
    ASSUME Typed, NEW w \in Workers
    PROVE  /\ batch[w] \in SUBSET Users /\ batch[w] \in SUBSET Nat /\ IsFiniteSet(batch[w])
           /\ Cardinality(batch[w]) \in Nat
           /\ batch[w] # {} => /\ Max(batch[w]) \in batch[w]
                               /\ \A u \in batch[w] : Max(batch[w]) >= u
           /\ Cardinality(batch[w]) >= BatchSize => batch[w] # {}
  <1>1. batch[w] \in SUBSET Users /\ batch[w] \in SUBSET Nat
    BY UsersAreNumbers DEF Typed, TypeOK
  <1>2. IsFiniteSet(batch[w])
    BY <1>1, UsersAreNumbers, FS_Subset
  <1>3. Cardinality(batch[w]) \in Nat
    BY <1>2, FS_CardinalityType
  <1>4. batch[w] # {} => /\ Max(batch[w]) \in batch[w]
                         /\ \A u \in batch[w] : Max(batch[w]) >= u
    BY <1>1, <1>2, MaxOfFinite
  <1>5. Cardinality({}) = 0 /\ BatchSize > 0
    BY FS_EmptySet, SizesPositive
  <1>6. Cardinality(batch[w]) >= BatchSize => batch[w] # {}
    BY <1>3, <1>5, SizesPositive
  <1> QED
    BY <1>1, <1>2, <1>3, <1>4, <1>6

LEMMA TodoTypes ==
    ASSUME Typed, NEW h \in Handlers, todo[h] # {}
    PROVE  Max(todo[h]) \in todo[h] /\ Max(todo[h]) \in Videos
  <1>1. todo[h] \in SUBSET Videos /\ todo[h] \in SUBSET Nat
    BY VideosAreNumbers DEF Typed, TypeOK
  <1>2. IsFiniteSet(todo[h])
    BY <1>1, VideosAreNumbers, FS_Subset
  <1> QED
    BY <1>1, <1>2, MaxOfFinite

LEMMA CallTypes ==
    ASSUME Typed, NEW h \in Handlers, NEW p \in Pairs, Follow(h, p) \/ Unfollow(h, p)
    PROVE  Typed'
  <1>1. pair' \in [Handlers -> Pairs \cup {None}] /\ pair'[h] = p
        /\ \A g \in Handlers \ {h} : pair'[g] = pair[g]
    BY DEF Follow, Unfollow, Typed, TypeOK
  <1>2. following' \subseteq Pairs /\ calls' \in Nat
    BY DEF Follow, Unfollow, Typed, TypeOK
  <1>3. CASE Follow(h, p)
    <2>1. clean' \in [Handlers -> BOOLEAN]
      BY <1>3, Zenon DEF Follow, Typed, TypeOK, Clashes
    <2>2. /\ pc' \in [Handlers -> {"idle", "count", "list", "add", "find", "remove"}]
          /\ pc'[h] = "count"
          /\ \A g \in Handlers \ {h} : pc'[g] = pc[g]
      BY <1>3, GotoTypes DEF Follow
    <2>3. \A g \in Handlers : pc'[g] # "idle" => pair'[g] \in Pairs
      BY <1>1, <2>2 DEF Typed, AtWork
    <2> QED
      BY <1>1, <1>2, <1>3, <2>1, <2>2, <2>3 DEF Follow, Typed, TypeOK, AtWork, redis, work
  <1>4. CASE Unfollow(h, p)
    <2>1. covered' \subseteq Pairs /\ clean' \in [Handlers -> BOOLEAN]
      BY <1>4, SpoilTypes DEF Unfollow, Typed
    <2>2. /\ pc' \in [Handlers -> {"idle", "count", "list", "add", "find", "remove"}]
          /\ pc'[h] = "find"
          /\ \A g \in Handlers \ {h} : pc'[g] = pc[g]
      BY <1>4, GotoTypes DEF Unfollow
    <2>3. \A g \in Handlers : pc'[g] # "idle" => pair'[g] \in Pairs
      BY <1>1, <2>2 DEF Typed, AtWork
    <2> QED
      BY <1>1, <1>2, <1>4, <2>1, <2>2, <2>3 DEF Unfollow, Typed, TypeOK, AtWork, redis, work
  <1> QED
    BY <1>3, <1>4

LEMMA ServeTypes ==
    ASSUME Typed, NEW h \in Handlers, Serve(h)
    PROVE  Typed'
  <1> DEFINE Labels == {"idle", "count", "list", "add", "find", "remove"}
  <1>1. CASE SkipBackfill(h)
    <2>1. pc[h] # "idle" /\ pair[h] \in Pairs
      BY <1>1 DEF SkipBackfill, Typed, AtWork
    <2>2. covered' \subseteq Pairs
      BY <1>1, <2>1 DEF SkipBackfill, Typed, TypeOK
    <2>3. /\ pc' \in [Handlers -> Labels] /\ pair' \in [Handlers -> Pairs \cup {None}]
          /\ todo' \in [Handlers -> SUBSET Videos]
          /\ \A g \in Handlers : pc'[g] # "idle" => pair'[g] \in Pairs
      BY <1>1, ReplyTypes DEF SkipBackfill
    <2> QED
      BY <1>1, <2>2, <2>3 DEF SkipBackfill, Typed, TypeOK, AtWork, db, redis, work, bounds
  <1>2. CASE CountForBackfill(h)
    <2>1. pc' \in [Handlers -> Labels] /\ pc'[h] = "list" /\ \A g \in Handlers \ {h} : pc'[g] = pc[g]
      BY <1>2, GotoTypes DEF CountForBackfill
    <2> QED
      BY <1>2, <2>1 DEF CountForBackfill, Typed, TypeOK, AtWork, db, redis, work, history, bounds
  <1>3. CASE ListRecent(h)
    <2>1. pc' \in [Handlers -> Labels] /\ pc'[h] = "add" /\ \A g \in Handlers \ {h} : pc'[g] = pc[g]
      BY <1>3, GotoTypes DEF ListRecent
    <2>2. todo' \in [Handlers -> SUBSET Videos]
      BY <1>3 DEF ListRecent, Typed, TypeOK, Newest, VideosOf
    <2>3. covered' \subseteq Pairs /\ clean' \in [Handlers -> BOOLEAN]
      <3>1. CASE UNCHANGED history
        BY <3>1 DEF history, Typed, TypeOK
      <3>2. CASE Spoil({pair[h]})
        BY <3>2, SpoilTypes DEF Typed
      <3> QED
        BY <1>3, <3>1, <3>2 DEF ListRecent
    <2> QED
      BY <1>3, <2>1, <2>2, <2>3 DEF ListRecent, Typed, TypeOK, AtWork, db, redis, work, bounds
  <1>4. CASE BackfillOne(h)
    <2>1. Max(todo[h]) \in Videos
      BY <1>4, TodoTypes DEF BackfillOne
    <2>2. inbox' \in [Users -> SUBSET Videos]
      BY <1>4, <2>1, InboxTypes DEF BackfillOne, Typed
    <2>3. covered' \subseteq Pairs /\ clean' \in [Handlers -> BOOLEAN]
      BY <1>4, SpoilTypes DEF BackfillOne, Typed
    <2>4. todo' \in [Handlers -> SUBSET Videos]
      BY <1>4 DEF BackfillOne, Typed, TypeOK
    <2> QED
      BY <1>4, <2>2, <2>3, <2>4 DEF BackfillOne, Typed, TypeOK, AtWork, db, work, bounds
  <1>5. CASE BackfillDone(h)
    <2>1. pc[h] # "idle" /\ pair[h] \in Pairs
      BY <1>5 DEF BackfillDone, Typed, AtWork
    <2>2. covered' \subseteq Pairs /\ clean' = clean
      BY <1>5, <2>1 DEF BackfillDone, Followed, Typed, TypeOK
    <2>3. /\ pc' \in [Handlers -> Labels] /\ pair' \in [Handlers -> Pairs \cup {None}]
          /\ todo' \in [Handlers -> SUBSET Videos]
          /\ \A g \in Handlers : pc'[g] # "idle" => pair'[g] \in Pairs
      BY <1>5, ReplyTypes DEF BackfillDone, Followed
    <2> QED
      BY <1>5, <2>2, <2>3 DEF BackfillDone, Typed, TypeOK, AtWork, db, redis, work, bounds
  <1>6. CASE FindInboxAuthor(h)
    <2>1. pc' \in [Handlers -> Labels] /\ pc'[h] = "remove" /\ \A g \in Handlers \ {h} : pc'[g] = pc[g]
      BY <1>6, GotoTypes DEF FindInboxAuthor
    <2>2. todo' \in [Handlers -> SUBSET Videos]
      BY <1>6 DEF FindInboxAuthor, Typed, TypeOK, VideosOf
    <2>3. pair' = pair /\ pc[h] # "idle"
      BY <1>6 DEF FindInboxAuthor
    <2> QED
      BY <1>6, <2>1, <2>2, <2>3
         DEF FindInboxAuthor, Typed, TypeOK, AtWork, db, redis, work, history, bounds
  <1>7. CASE RemoveFound(h)
    <2>1. inbox' \in [Users -> SUBSET Videos]
      BY <1>7 DEF RemoveFound, Typed, TypeOK
    <2>2. /\ pc' \in [Handlers -> Labels] /\ pair' \in [Handlers -> Pairs \cup {None}]
          /\ todo' \in [Handlers -> SUBSET Videos]
          /\ \A g \in Handlers : pc'[g] # "idle" => pair'[g] \in Pairs
      BY <1>7, ReplyTypes DEF RemoveFound
    <2> QED
      BY <1>7, <2>1, <2>2 DEF RemoveFound, Typed, TypeOK, AtWork, db, work, history, bounds
  <1> QED
    BY <1>1, <1>2, <1>3, <1>4, <1>5, <1>6, <1>7 DEF Serve

LEMMA RequestFaultTypes ==
    ASSUME Typed, NEW h \in Handlers, BackfillFails(h) \/ RemoveFails(h)
    PROVE  Typed'
  <1>1. calls' \in Nat /\ faults' \in Nat
    BY FaultTypes DEF BackfillFails, RemoveFails, Typed
  <1>2. /\ pc' \in [Handlers -> {"idle", "count", "list", "add", "find", "remove"}]
        /\ pair' \in [Handlers -> Pairs \cup {None}]
        /\ todo' \in [Handlers -> SUBSET Videos]
        /\ \A g \in Handlers : pc'[g] # "idle" => pair'[g] \in Pairs
    BY ReplyTypes DEF BackfillFails, RemoveFails
  <1>3. UNCHANGED <<db, pending, redis, work, history>>
    BY DEF BackfillFails, RemoveFails
  <1> QED
    BY <1>1, <1>2, <1>3 DEF Typed, TypeOK, AtWork, db, redis, work, history

LEMMA VideoTypes ==
    ASSUME Typed, NEW v \in Videos,
           \/ Save(v) \/ Announce(v) \/ AnnounceFails(v) \/ Withdraw(v) \/ Redeliver(v)
    PROVE  Typed'
  <1>1. calls' \in Nat /\ faults' \in Nat
    BY FaultTypes DEF Save, Announce, AnnounceFails, Withdraw, Redeliver, bounds, Typed, TypeOK
  <1>2. status' \in [Videos -> {"none", "saved", "sent", "lost"}]
    BY DEF Save, Announce, AnnounceFails, Withdraw, Redeliver, db, Typed, TypeOK
  <1>3. withdrawn' \subseteq Videos /\ pending' \subseteq Videos
    BY DEF Save, Announce, AnnounceFails, Withdraw, Redeliver, db, Typed, TypeOK
  <1>4. UNCHANGED <<following, redis, request, work, history>>
    BY DEF Save, Announce, AnnounceFails, Withdraw, Redeliver, db
  <1> QED
    BY <1>1, <1>2, <1>3, <1>4 DEF Typed, TypeOK, AtWork, redis, request, work, history

LEMMA FanoutTypes ==
    ASSUME Typed, NEW w \in Workers, Fanout(w)
    PROVE  Typed'
  <1> DEFINE Labels == {"idle", "outbox", "list", "add"}
  <1>1. CASE Deliver(w)
    <2>1. PICK v \in pending :
             /\ wpc[w] = "idle"
             /\ event' = [event EXCEPT ![w] = v]
             /\ pending' = pending \ {v}
             /\ WGoto(w, IF Big(AuthorOf[v]) THEN "outbox" ELSE "list")
             /\ UNCHANGED <<db, redis, request, cursor, batch, history, bounds>>
      BY <1>1 DEF Deliver
    <2>2. /\ wpc' \in [Workers -> Labels] /\ wpc'[w] # "idle"
          /\ \A x \in Workers \ {w} : wpc'[x] = wpc[x]
      <3>1. PICK label \in {"outbox", "list", "add"} : WGoto(w, label)
        BY <2>1, Zenon
      <3> QED
        BY <3>1, WGotoTypes
    <2>3. v \in Videos /\ pending' \subseteq Videos
      BY <2>1 DEF Typed, TypeOK
    <2>4. event' \in [Workers -> Videos \cup {None}] /\ event'[w] = v
          /\ \A x \in Workers \ {w} : event'[x] = event[x]
      BY <2>1, <2>3 DEF Typed, TypeOK
    <2>5. cursor' = cursor
      BY <2>1
    <2>6. \A x \in Workers : IF wpc'[x] = "idle" THEN cursor'[x] = 0 ELSE event'[x] \in Videos
      BY <2>2, <2>3, <2>4, <2>5 DEF Typed, AtWork
    <2> QED
      BY <2>1, <2>2, <2>3, <2>4, <2>6
         DEF Typed, TypeOK, AtWork, db, redis, request, history, bounds
  <1>2. CASE AddAuthorOutboxItem(w)
    <2>1. event[w] \in Videos
      BY <1>2 DEF AddAuthorOutboxItem, Typed, AtWork
    <2>2. outbox' \in [Authors -> SUBSET Videos]
      BY <1>2, <2>1, AuthorsTyped DEF AddAuthorOutboxItem, Newest, Typed, TypeOK
    <2>3. covered' \subseteq Pairs /\ clean' \in [Handlers -> BOOLEAN]
      <3>1. CASE UNCHANGED history
        BY <3>1 DEF history, Typed, TypeOK
      <3>2. CASE Spoil(Users \X {AuthorOf[event[w]]})
        BY <3>2, SpoilTypes DEF Typed
      <3> QED
        BY <1>2, <3>1, <3>2 DEF AddAuthorOutboxItem
    <2>4. /\ wpc' \in [Workers -> Labels] /\ event' \in [Workers -> Videos \cup {None}]
          /\ cursor' \in [Workers -> Users \cup {0}] /\ batch' \in [Workers -> SUBSET Users]
          /\ \A x \in Workers :
                IF wpc'[x] = "idle" THEN cursor'[x] = 0 ELSE event'[x] \in Videos
      BY <1>2, FinishTypes DEF AddAuthorOutboxItem
    <2> QED
      BY <1>2, <2>2, <2>3, <2>4
         DEF AddAuthorOutboxItem, Typed, TypeOK, AtWork, db, request, bounds
  <1>3. CASE ListFollowers(w)
    <2>1. UNCHANGED <<db, pending, redis, request, history, bounds>>
      BY <1>3 DEF ListFollowers
    <2>2. /\ wpc' \in [Workers -> Labels] /\ event' \in [Workers -> Videos \cup {None}]
          /\ cursor' \in [Workers -> Users \cup {0}] /\ batch' \in [Workers -> SUBSET Users]
          /\ \A x \in Workers :
                IF wpc'[x] = "idle" THEN cursor'[x] = 0 ELSE event'[x] \in Videos
      <3>1. CASE Finish(w)
        BY <3>1, FinishTypes
      <3>2. CASE /\ batch' = [batch EXCEPT ![w] = NextBatch(w)]
                 /\ WGoto(w, "add")
                 /\ UNCHANGED <<event, cursor>>
        <4>1. NextBatch(w) \subseteq Users
          BY DEF NextBatch, First, Ahead, FollowersOf
        <4>2. batch' \in [Workers -> SUBSET Users]
          BY <3>2, <4>1 DEF Typed, TypeOK
        <4>3. /\ wpc' \in [Workers -> Labels] /\ wpc'[w] = "add"
              /\ \A x \in Workers \ {w} : wpc'[x] = wpc[x]
          BY <3>2, WGotoTypes
        <4>4. event[w] \in Videos
          BY <1>3 DEF ListFollowers, Typed, AtWork
        <4> QED
          BY <3>2, <4>2, <4>3, <4>4 DEF Typed, TypeOK, AtWork
      <3> QED
        BY <1>3, <3>1, <3>2 DEF ListFollowers
    <2> QED
      BY <2>1, <2>2 DEF Typed, TypeOK, AtWork, db, redis, request, history, bounds
  <1>4. CASE AddBatch(w)
    <2>1. event[w] \in Videos
      BY <1>4 DEF AddBatch, Typed, AtWork
    <2>2. inbox' \in [Users -> SUBSET Videos]
      BY <1>4, <2>1, InboxTypes DEF AddBatch, Typed
    <2>3. covered' \subseteq Pairs /\ clean' \in [Handlers -> BOOLEAN]
      BY <1>4, SpoilTypes DEF AddBatch, Typed
    <2>4. /\ wpc' \in [Workers -> Labels] /\ event' \in [Workers -> Videos \cup {None}]
          /\ cursor' \in [Workers -> Users \cup {0}] /\ batch' \in [Workers -> SUBSET Users]
          /\ \A x \in Workers :
                IF wpc'[x] = "idle" THEN cursor'[x] = 0 ELSE event'[x] \in Videos
      <3>1. CASE Cardinality(batch[w]) < BatchSize
        BY <1>4, <3>1, FinishTypes DEF AddBatch
      <3>2. CASE ~ (Cardinality(batch[w]) < BatchSize)
        <4>1. Max(batch[w]) \in Users
          <5>1. Cardinality(batch[w]) >= BatchSize
            BY <3>2, BatchTypes, SizesPositive
          <5> QED
            BY <5>1, BatchTypes
        <4>2. /\ cursor' = [cursor EXCEPT ![w] = Max(batch[w])]
              /\ batch' = [batch EXCEPT ![w] = {}]
              /\ WGoto(w, "list")
              /\ UNCHANGED event
          BY <1>4, <3>2 DEF AddBatch
        <4>3. cursor' \in [Workers -> Users \cup {0}] /\ batch' \in [Workers -> SUBSET Users]
              /\ \A x \in Workers \ {w} : cursor'[x] = cursor[x]
          BY <4>1, <4>2 DEF Typed, TypeOK
        <4>4. /\ wpc' \in [Workers -> Labels] /\ wpc'[w] = "list"
              /\ \A x \in Workers \ {w} : wpc'[x] = wpc[x]
          BY <4>2, WGotoTypes
        <4>5. event' = event
          BY <4>2
        <4> QED
          BY <2>1, <4>3, <4>4, <4>5 DEF Typed, TypeOK, AtWork
      <3> QED
        BY <3>1, <3>2
    <2> QED
      BY <1>4, <2>2, <2>3, <2>4 DEF AddBatch, Typed, TypeOK, AtWork, db, request, bounds
  <1> QED
    BY <1>1, <1>2, <1>3, <1>4 DEF Fanout

LEMMA WorkerFaultTypes ==
    ASSUME Typed, NEW w \in Workers, Again(w) \/ DeadLetter(w)
    PROVE  Typed'
  <1>1. calls' \in Nat /\ faults' \in Nat
    BY FaultTypes DEF Again, DeadLetter, Typed
  <1>2. event[w] \in Videos
    BY DEF Again, DeadLetter, Typed, AtWork
  <1>3. /\ status' \in [Videos -> {"none", "saved", "sent", "lost"}]
        /\ withdrawn' \subseteq Videos /\ pending' \subseteq Videos /\ following' = following
    BY <1>2 DEF Again, DeadLetter, db, Typed, TypeOK
  <1>4. /\ wpc' \in [Workers -> {"idle", "outbox", "list", "add"}]
        /\ event' \in [Workers -> Videos \cup {None}]
        /\ cursor' \in [Workers -> Users \cup {0}] /\ batch' \in [Workers -> SUBSET Users]
        /\ \A x \in Workers :
              IF wpc'[x] = "idle" THEN cursor'[x] = 0 ELSE event'[x] \in Videos
    BY FinishTypes DEF Again, DeadLetter
  <1>5. UNCHANGED <<redis, request, history>>
    BY DEF Again, DeadLetter
  <1> QED
    BY <1>1, <1>3, <1>4, <1>5 DEF Typed, TypeOK, AtWork, redis, request, history

LEMMA ExpiryTypes ==
    ASSUME Typed, \/ \E u \in Users : ExpireInbox(u)
                  \/ \E a \in Authors : ExpireOutbox(a)
    PROVE  Typed'
  <1>1. CASE \E u \in Users : ExpireInbox(u)
    <2>1. PICK u \in Users : ExpireInbox(u)
      BY <1>1
    <2>2. calls' \in Nat /\ faults' \in Nat
      BY <2>1, FaultTypes DEF ExpireInbox, Typed
    <2>3. covered' \subseteq Pairs /\ clean' \in [Handlers -> BOOLEAN]
      BY <2>1, SpoilTypes DEF ExpireInbox, Typed
    <2>4. inbox' \in [Users -> SUBSET Videos]
      BY <2>1 DEF ExpireInbox, Typed, TypeOK
    <2> QED
      BY <2>1, <2>2, <2>3, <2>4 DEF ExpireInbox, Typed, TypeOK, AtWork, db, request, work
  <1>2. CASE \E a \in Authors : ExpireOutbox(a)
    <2>1. PICK a \in Authors : ExpireOutbox(a)
      BY <1>2
    <2>2. calls' \in Nat /\ faults' \in Nat
      BY <2>1, FaultTypes DEF ExpireOutbox, Typed
    <2>3. covered' \subseteq Pairs /\ clean' \in [Handlers -> BOOLEAN]
      BY <2>1, SpoilTypes DEF ExpireOutbox, Typed
    <2>4. outbox' \in [Authors -> SUBSET Videos]
      BY <2>1 DEF ExpireOutbox, Typed, TypeOK
    <2> QED
      BY <2>1, <2>2, <2>3, <2>4 DEF ExpireOutbox, Typed, TypeOK, AtWork, db, request, work
  <1> QED
    BY <1>1, <1>2

LEMMA StepTypes ==
    ASSUME Typed, [Next]_vars
    PROVE  Typed'
  <1>1. CASE UNCHANGED vars
    BY <1>1 DEF vars, Typed, TypeOK, AtWork
  <1>2. CASE \E h \in Handlers :
                \/ \E p \in Pairs : Follow(h, p) \/ Unfollow(h, p)
                \/ Serve(h) \/ BackfillFails(h) \/ RemoveFails(h)
    BY <1>2, CallTypes, ServeTypes, RequestFaultTypes
  <1>3. CASE \E v \in Videos :
                Save(v) \/ Announce(v) \/ AnnounceFails(v) \/ Withdraw(v) \/ Redeliver(v)
    BY <1>3, VideoTypes
  <1>4. CASE \E w \in Workers : Fanout(w) \/ Again(w) \/ DeadLetter(w)
    BY <1>4, FanoutTypes, WorkerFaultTypes
  <1>5. CASE (\E u \in Users : ExpireInbox(u)) \/ (\E a \in Authors : ExpireOutbox(a))
    BY <1>5, ExpiryTypes
  <1> QED
    BY <1>1, <1>2, <1>3, <1>4, <1>5 DEF Next

(* Rows, index, queue, requests and workers keep their types: a request at  *)
(* work has a pair, and the cursor of a fan-out is a follower or zero        *)
(* (fanout_worker.go:160-177).                                               *)
THEOREM TypesAreKept == Spec => []TypeOK
  <1>1. Typed /\ [Next]_vars => Typed'
    BY StepTypes
  <1>2. Typed => TypeOK
    BY DEF Typed
  <1> QED
    BY InitTypes, <1>1, <1>2, PTL DEF Spec

--------------------------------------------------------------------------------
(* Who is covered follows, and nothing removes their videos.                 *)

Safe == Typed /\ CoveredFollow /\ RemovalsHarmless

LEMMA InitSafe == Init => Safe
  <1> SUFFICES ASSUME Init PROVE Safe
    OBVIOUS
  <1>1. \A h \in Handlers : pc[h] = "idle"
    BY DEF Init
  <1> QED
    BY <1>1, InitTypes DEF Init, Safe, CoveredFollow, RemovalsHarmless, Backfilling, Removing

\* A lost pair is covered by nobody any more; the others as before.
LEMMA Spoiled ==
    ASSUME Typed, NEW lost, Spoil(lost)
    PROVE  /\ covered' = covered \ lost
           /\ \A h \in Handlers : clean'[h] <=> clean[h] /\ pair[h] \notin lost
  <1>1. covered' = covered \ lost
    BY DEF Spoil
  <1>2. clean' = [h \in Handlers |-> clean[h] /\ pair[h] \notin lost]
    BY DEF Spoil
  <1>3. \A h \in Handlers : clean'[h] <=> clean[h] /\ pair[h] \notin lost
    BY <1>2, Zenon
  <1> QED
    BY <1>1, <1>3

\* What keeps the rows and the requests, and covers no more, stays safe.
LEMMA QuietSafe ==
    ASSUME Safe, Typed', UNCHANGED <<following, pc, pair>>,
           covered' \subseteq covered,
           \A h \in Handlers : clean'[h] => clean[h],
           \A h \in Handlers : pc[h] = "remove" => todo'[h] = todo[h]
    PROVE  Safe'
  <1>1. CoveredFollow'
    BY DEF Safe, CoveredFollow, Backfilling
  <1>2. RemovalsHarmless'
    <2> SUFFICES ASSUME NEW h \in Handlers, Removing(h)
                 PROVE  /\ pc[h] = "remove" => todo[h] \subseteq VideosOf(pair[h][2])
                        /\ pair[h] \notin covered'
                        /\ \A g \in Handlers : Backfilling(g) /\ pair[g] = pair[h] => ~clean'[g]
      BY DEF RemovalsHarmless, Removing, Backfilling, VideosOf
    <2> QED
      BY DEF Safe, RemovalsHarmless
  <1> QED
    BY <1>1, <1>2 DEF Safe

\* A request that ends leaves a safe state, if it covers nothing it should not.
LEMMA ReplySafe ==
    ASSUME Safe, Typed', NEW h \in Handlers, Reply(h), following' = following,
           covered' \subseteq covered
               \/ (Backfilling(h) /\ clean[h] /\ covered' \subseteq covered \cup {pair[h]}),
           clean' = clean
    PROVE  Safe'
  <1>1. /\ \A g \in Handlers \ {h} : pc'[g] = pc[g] /\ pair'[g] = pair[g] /\ todo'[g] = todo[g]
        /\ pc'[h] = "idle"
    BY ReplyTypes DEF Safe
  <1>2. CoveredFollow'
    BY <1>1 DEF Safe, CoveredFollow, Backfilling
  <1>3. RemovalsHarmless'
    <2> SUFFICES ASSUME NEW k \in Handlers, Removing(k)'
                 PROVE  /\ pc'[k] = "remove" => todo'[k] \subseteq VideosOf(pair'[k][2])
                        /\ pair'[k] \notin covered'
                        /\ \A g \in Handlers : Backfilling(g)' /\ pair'[g] = pair'[k] => ~clean'[g]
      BY DEF RemovalsHarmless, VideosOf
    <2>1. k # h /\ pc'[k] = pc[k] /\ pair'[k] = pair[k] /\ todo'[k] = todo[k] /\ Removing(k)
      BY <1>1 DEF Removing
    <2>2. pair[k] \notin covered'
      BY <2>1 DEF Safe, RemovalsHarmless
    <2>3. ASSUME NEW g \in Handlers, Backfilling(g)', pair'[g] = pair'[k] PROVE ~clean'[g]
      <3>1. g # h /\ Backfilling(g) /\ pair[g] = pair[k]
        BY <1>1, <2>1, <2>3 DEF Backfilling
      <3> QED
        BY <2>1, <3>1 DEF Safe, RemovalsHarmless
    <2> QED
      BY <2>1, <2>2, <2>3 DEF Safe, RemovalsHarmless
  <1> QED
    BY <1>2, <1>3 DEF Safe

LEMMA CallSafe ==
    ASSUME Safe, NEW h \in Handlers, NEW p \in Pairs, Follow(h, p) \/ Unfollow(h, p)
    PROVE  Safe'
  <1> USE DEF Safe
  <1>0. Typed'
    BY CallTypes
  <1>1. pair' \in [Handlers -> Pairs \cup {None}] /\ pair'[h] = p /\ todo' = todo
        /\ \A g \in Handlers \ {h} : pair'[g] = pair[g]
    BY DEF Follow, Unfollow, Typed, TypeOK
  <1>2. CASE Follow(h, p)
    <2>1. /\ pc'[h] = "count"
          /\ \A g \in Handlers \ {h} : pc'[g] = pc[g]
      BY <1>2, GotoTypes DEF Follow
    <2>2. clean'[h] <=> ~Clashes(p)
      BY <1>2, Zenon DEF Follow, Typed, TypeOK
    <2>3. \A g \in Handlers \ {h} : clean'[g] = clean[g]
      BY <1>2, Zenon DEF Follow, Typed, TypeOK
    <2>4. following' = following \cup {p} /\ covered' = covered /\ pc[h] = "idle"
      BY <1>2 DEF Follow
    <2>5. CoveredFollow'
      BY <1>1, <2>1, <2>3, <2>4 DEF CoveredFollow, Backfilling
    <2>6. RemovalsHarmless'
      <3> SUFFICES ASSUME NEW k \in Handlers, Removing(k)'
                   PROVE  /\ pc'[k] = "remove" => todo'[k] \subseteq VideosOf(pair'[k][2])
                          /\ pair'[k] \notin covered'
                          /\ \A g \in Handlers : Backfilling(g)' /\ pair'[g] = pair'[k] => ~clean'[g]
        BY DEF RemovalsHarmless, VideosOf
      <3>1. k # h /\ pc'[k] = pc[k] /\ pair'[k] = pair[k] /\ todo'[k] = todo[k] /\ Removing(k)
        BY <1>1, <2>1 DEF Removing
      <3>2. ASSUME NEW g \in Handlers, Backfilling(g)', pair'[g] = pair'[k] PROVE ~clean'[g]
        <4>1. CASE g = h
          <5>1. Clashes(p)
            BY <1>1, <3>1, <3>2, <4>1 DEF Clashes
          <5> QED
            BY <2>2, <4>1, <5>1
        <4>2. CASE g # h
          <5>1. Backfilling(g) /\ pair[g] = pair[k] /\ clean'[g] = clean[g]
            BY <1>1, <2>1, <2>3, <3>1, <3>2, <4>2 DEF Backfilling
          <5> QED
            BY <3>1, <5>1 DEF RemovalsHarmless
        <4> QED
          BY <4>1, <4>2
      <3> QED
        BY <2>4, <3>1, <3>2 DEF RemovalsHarmless
    <2> QED
      BY <1>0, <2>5, <2>6
  <1>3. CASE Unfollow(h, p)
    <2>1. /\ pc'[h] = "find"
          /\ \A g \in Handlers \ {h} : pc'[g] = pc[g]
      BY <1>3, GotoTypes DEF Unfollow
    <2>2. PICK lost : Spoil(lost) /\ p \in lost
      BY <1>3 DEF Unfollow, Pairs
    <2>3. /\ covered' = covered \ lost
          /\ \A g \in Handlers : clean'[g] <=> clean[g] /\ pair[g] \notin lost
      BY <2>2, Spoiled
    <2>4. following' = following \ {p} /\ pc[h] = "idle"
      BY <1>3 DEF Unfollow
    <2>5. CoveredFollow'
      <3>1. covered' \subseteq following'
        BY <2>2, <2>3, <2>4 DEF CoveredFollow
      <3>2. ASSUME NEW g \in Handlers, Backfilling(g)', clean'[g] PROVE pair'[g] \in following'
        <4>1. g # h /\ Backfilling(g) /\ clean[g] /\ pair[g] \notin lost /\ pair'[g] = pair[g]
          BY <1>1, <2>1, <2>3, <3>2 DEF Backfilling
        <4> QED
          BY <2>2, <2>4, <4>1 DEF CoveredFollow
      <3> QED
        BY <3>1, <3>2 DEF CoveredFollow
    <2>6. RemovalsHarmless'
      <3> SUFFICES ASSUME NEW k \in Handlers, Removing(k)'
                   PROVE  /\ pc'[k] = "remove" => todo'[k] \subseteq VideosOf(pair'[k][2])
                          /\ pair'[k] \notin covered'
                          /\ \A g \in Handlers : Backfilling(g)' /\ pair'[g] = pair'[k] => ~clean'[g]
        BY DEF RemovalsHarmless, VideosOf
      <3>1. CASE k = h
        <4>1. pair'[k] = p /\ pc'[k] # "remove" /\ p \notin covered'
          BY <1>1, <2>1, <2>2, <2>3, <3>1
        <4>2. ASSUME NEW g \in Handlers, Backfilling(g)', pair'[g] = p PROVE ~clean'[g]
          <5>1. g # h /\ pair[g] = p
            BY <1>1, <2>1, <4>2 DEF Backfilling
          <5> QED
            BY <2>2, <2>3, <5>1
        <4> QED
          BY <4>1, <4>2
      <3>2. CASE k # h
        <4>1. pc'[k] = pc[k] /\ pair'[k] = pair[k] /\ todo'[k] = todo[k] /\ Removing(k)
          BY <1>1, <2>1, <3>2 DEF Removing
        <4>2. ASSUME NEW g \in Handlers, Backfilling(g)', pair'[g] = pair'[k] PROVE ~clean'[g]
          <5>1. g # h /\ Backfilling(g) /\ pair[g] = pair[k]
            BY <1>1, <2>1, <4>1, <4>2 DEF Backfilling
          <5> QED
            BY <2>3, <4>1, <5>1 DEF RemovalsHarmless
        <4> QED
          BY <2>3, <4>1, <4>2 DEF RemovalsHarmless
      <3> QED
        BY <3>1, <3>2
    <2> QED
      BY <1>0, <2>5, <2>6
  <1> QED
    BY <1>2, <1>3

\* A request that goes on with what it is: its kind and its pair stay.
LEMMA GoOnSafe ==
    ASSUME Safe, Typed', NEW h \in Handlers,
           NEW label \in {"count", "list", "add", "find", "remove"}, Goto(h, label),
           UNCHANGED <<following, pair>>,
           Backfilling(h)' <=> Backfilling(h), Removing(h)' <=> Removing(h),
           label = "remove" => todo'[h] \subseteq VideosOf(pair[h][2]),
           \A g \in Handlers \ {h} : todo'[g] = todo[g],
           covered' \subseteq covered, \A g \in Handlers : clean'[g] => clean[g]
    PROVE  Safe'
  <1>1. pc'[h] = label /\ \A g \in Handlers \ {h} : pc'[g] = pc[g]
    BY GotoTypes DEF Safe
  <1>2. \A g \in Handlers : /\ Backfilling(g)' <=> Backfilling(g)
                            /\ Removing(g)' <=> Removing(g)
    BY <1>1 DEF Backfilling, Removing
  <1>3. CoveredFollow'
    BY <1>2 DEF Safe, CoveredFollow
  <1>4. RemovalsHarmless'
    <2> SUFFICES ASSUME NEW k \in Handlers, Removing(k)
                 PROVE  /\ pc'[k] = "remove" => todo'[k] \subseteq VideosOf(pair[k][2])
                        /\ pair[k] \notin covered'
                        /\ \A g \in Handlers : Backfilling(g) /\ pair[g] = pair[k] => ~clean'[g]
      BY <1>2 DEF RemovalsHarmless, VideosOf
    <2>1. pc'[k] = "remove" => todo'[k] \subseteq VideosOf(pair[k][2])
      BY <1>1 DEF Safe, RemovalsHarmless
    <2> QED
      BY <2>1 DEF Safe, RemovalsHarmless
  <1> QED
    BY <1>3, <1>4 DEF Safe

LEMMA ServeSafe ==
    ASSUME Safe, NEW h \in Handlers, Serve(h)
    PROVE  Safe'
  <1>0. Typed'
    BY ServeTypes DEF Safe
  <1>1. CASE SkipBackfill(h)
    <2>1. covered' \subseteq covered
             \/ (Backfilling(h) /\ clean[h] /\ covered' \subseteq covered \cup {pair[h]})
      BY <1>1 DEF SkipBackfill, Backfilling
    <2> QED
      BY <1>0, <1>1, <2>1, ReplySafe DEF SkipBackfill, db
  <1>2. CASE CountForBackfill(h)
    <2>1. pc'[h] = "list"
      BY <1>2, GotoTypes DEF CountForBackfill, Safe
    <2>2. Backfilling(h)' /\ Backfilling(h) /\ ~Removing(h)' /\ ~Removing(h)
      BY <1>2, <2>1 DEF CountForBackfill, Backfilling, Removing
    <2>3. UNCHANGED <<following, pair, todo, covered, clean>> /\ Goto(h, "list")
      BY <1>2 DEF CountForBackfill, db, history
    <2> QED
      BY <1>0, <2>2, <2>3, GoOnSafe
  <1>3. CASE ListRecent(h)
    <2>1. pc'[h] = "add"
      BY <1>3, GotoTypes DEF ListRecent, Safe
    <2>2. Backfilling(h)' /\ Backfilling(h) /\ ~Removing(h)' /\ ~Removing(h)
      BY <1>3, <2>1 DEF ListRecent, Backfilling, Removing
    <2>3. UNCHANGED <<following, pair>> /\ Goto(h, "add")
      BY <1>3 DEF ListRecent, db
    <2>4. covered' \subseteq covered /\ \A g \in Handlers : clean'[g] => clean[g]
      <3>1. CASE UNCHANGED history
        BY <3>1 DEF history
      <3>2. CASE Spoil({pair[h]})
        BY <3>2, Spoiled DEF Safe
      <3> QED
        BY <1>3, <3>1, <3>2 DEF ListRecent
    <2>5. \A g \in Handlers \ {h} : todo'[g] = todo[g]
      BY <1>3 DEF ListRecent, Safe, Typed, TypeOK
    <2> QED
      BY <1>0, <2>2, <2>3, <2>4, <2>5, GoOnSafe
  <1>4. CASE BackfillOne(h)
    <2>1. covered' \subseteq covered /\ \A g \in Handlers : clean'[g] => clean[g]
      BY <1>4, Spoiled DEF BackfillOne, Safe
    <2>2. UNCHANGED <<following, pc, pair>> /\ pc[h] = "add"
      BY <1>4 DEF BackfillOne, db
    <2>3. \A g \in Handlers \ {h} : todo'[g] = todo[g]
      BY <1>4 DEF BackfillOne, Safe, Typed, TypeOK
    <2> QED
      BY <1>0, <2>1, <2>2, <2>3, QuietSafe
  <1>5. CASE BackfillDone(h)
    <2>1. covered' \subseteq covered
             \/ (Backfilling(h) /\ clean[h] /\ covered' \subseteq covered \cup {pair[h]})
      BY <1>5 DEF BackfillDone, Followed, Backfilling
    <2> QED
      BY <1>0, <1>5, <2>1, ReplySafe DEF BackfillDone, Followed, db
  <1>6. CASE FindInboxAuthor(h)
    <2>1. pc'[h] = "remove"
      BY <1>6, GotoTypes DEF FindInboxAuthor, Safe
    <2>2. ~Backfilling(h)' /\ ~Backfilling(h) /\ Removing(h)' /\ Removing(h)
      BY <1>6, <2>1 DEF FindInboxAuthor, Backfilling, Removing
    <2>3. UNCHANGED <<following, pair, covered, clean>> /\ Goto(h, "remove")
      BY <1>6 DEF FindInboxAuthor, db, history
    <2>4. todo'[h] \subseteq VideosOf(pair[h][2]) /\ \A g \in Handlers \ {h} : todo'[g] = todo[g]
      BY <1>6 DEF FindInboxAuthor, Safe, Typed, TypeOK
    <2> QED
      BY <1>0, <2>2, <2>3, <2>4, GoOnSafe
  <1>7. CASE RemoveFound(h)
    BY <1>0, <1>7, ReplySafe DEF RemoveFound, db, history
  <1> QED
    BY <1>1, <1>2, <1>3, <1>4, <1>5, <1>6, <1>7 DEF Serve

LEMMA RequestFaultSafe ==
    ASSUME Safe, NEW h \in Handlers, BackfillFails(h) \/ RemoveFails(h)
    PROVE  Safe'
  <1>1. Typed'
    BY RequestFaultTypes DEF Safe
  <1>2. Reply(h) /\ UNCHANGED <<following, covered, clean>>
    BY DEF BackfillFails, RemoveFails, db, history
  <1> QED
    BY <1>1, <1>2, ReplySafe

LEMMA OtherStepsSafe ==
    ASSUME Safe, \/ \E v \in Videos :
                       Save(v) \/ Announce(v) \/ AnnounceFails(v) \/ Withdraw(v) \/ Redeliver(v)
                 \/ \E w \in Workers : Fanout(w) \/ Again(w) \/ DeadLetter(w)
                 \/ \E u \in Users : ExpireInbox(u)
                 \/ \E a \in Authors : ExpireOutbox(a)
                 \/ UNCHANGED vars
    PROVE  Safe'
  <1>1. Typed'
    BY StepTypes DEF Safe, Next
  <1>2. UNCHANGED <<following, pc, pair, todo>>
    BY DEF Save, Announce, AnnounceFails, Withdraw, Redeliver, Fanout, Deliver, AddAuthorOutboxItem,
           ListFollowers, AddBatch, Again, DeadLetter, ExpireInbox, ExpireOutbox, vars, db, request
  <1>3. covered' \subseteq covered /\ \A h \in Handlers : clean'[h] => clean[h]
    <2>1. UNCHANGED history \/ \E lost : Spoil(lost)
      BY DEF Save, Announce, AnnounceFails, Withdraw, Redeliver, Fanout, Deliver, AddAuthorOutboxItem,
             ListFollowers, AddBatch, Again, DeadLetter, ExpireInbox, ExpireOutbox, vars, history
    <2>2. CASE UNCHANGED history
      BY <2>2 DEF history
    <2>3. CASE \E lost : Spoil(lost)
      BY <2>3, Spoiled DEF Safe
    <2> QED
      BY <2>1, <2>2, <2>3
  <1> QED
    BY <1>1, <1>2, <1>3, QuietSafe

LEMMA StepSafe ==
    ASSUME Safe, [Next]_vars
    PROVE  Safe'
  <1>1. CASE \E h \in Handlers :
                \/ \E p \in Pairs : Follow(h, p) \/ Unfollow(h, p)
                \/ Serve(h) \/ BackfillFails(h) \/ RemoveFails(h)
    BY <1>1, CallSafe, ServeSafe, RequestFaultSafe
  <1> QED
    BY <1>1, OtherStepsSafe DEF Next

--------------------------------------------------------------------------------
(* What a follower who is relied on has been given, or will be, stays so.    *)

\* A pair that is covered, or may become so, and stays that way in this step.
StaysRelied(p) ==
    \/ p \in covered /\ p \in covered'
    \/ \E h \in Handlers : Backfilling(h) /\ clean[h] /\ clean'[h] /\ pair[h] = p

LEMMA NotLost ==
    ASSUME Typed, NEW lost, Spoil(lost), NEW p, StaysRelied(p)
    PROVE  p \notin lost
  BY Spoiled DEF StaysRelied

LEMMA ReliedFollow ==
    ASSUME Safe, NEW p, StaysRelied(p)
    PROVE  p \in following /\ p \in Pairs /\ p[1] \in Users /\ p[2] \in Authors /\ p = <<p[1], p[2]>>
  <1>1. p \in following
    BY DEF StaysRelied, Safe, CoveredFollow
  <1>2. p \in Pairs
    BY <1>1 DEF Safe, Typed, TypeOK
  <1> QED
    BY <1>1, <1>2 DEF Pairs

\* Published, and no event on its way to a worker.
Owed(v) == status[v] = "sent" /\ v \notin pending

LEMMA ReachedByParts ==
    ASSUME NEW p, NEW v, Reached(p, v),
           Owed(v)' => Owed(v),
           Shown(p, v) => Shown(p, v)',
           \A w \in Workers : OnItsWay(w, p, v) => OnItsWay(w, p, v)' \/ Shown(p, v)' \/ ~Owed(v)'
    PROVE  Reached(p, v)'
  BY DEF Reached, Owed

\* With more followers an author stays big.
LEMMA MoreIsBig ==
    ASSUME NEW a, FollowersOf(a) \subseteq FollowersOf(a)', Big(a)
    PROVE  Big(a)'
  <1>1. FollowersOf(a) \in SUBSET Users /\ FollowersOf(a)' \in SUBSET Users
    BY DEF FollowersOf
  <1>2. IsFiniteSet(FollowersOf(a)')
    BY <1>1, UsersAreNumbers, FS_Subset
  <1>3. IsFiniteSet(FollowersOf(a)) /\ Cardinality(FollowersOf(a)) <= Cardinality(FollowersOf(a)')
    BY <1>2, FS_Subset
  <1>4. Cardinality(FollowersOf(a)) \in Nat /\ Cardinality(FollowersOf(a)') \in Nat
    BY <1>2, <1>3, FS_CardinalityType
  <1>5. Cardinality(FollowersOf(a)) >= BigCreator
    BY DEF Big, CountFollowers
  <1>6. Cardinality(FollowersOf(a)') >= BigCreator
    BY <1>3, <1>4, <1>5, SizesPositive
  <1> QED
    BY <1>6 DEF Big, CountFollowers

\* What does not fall out of an inbox stays in it, and a new video is in it.
LEMMA InboxKeeps ==
    ASSUME Typed, NEW users, NEW x \in Videos, AddInboxItems(users, x),
           NEW p \in Pairs, p \notin CutFrom(users, x),
           NEW v \in Videos, AuthorOf[v] = p[2]
    PROVE  /\ v \in inbox[p[1]] => v \in inbox'[p[1]]
           /\ v = x /\ p[1] \in users => v \in inbox'[p[1]]
  <1>1. p[1] \in Users /\ p[2] \in Authors /\ p = <<p[1], p[2]>>
    BY DEF Pairs
  <1>2. inbox'[p[1]] = IF p[1] \in users THEN Inboxed(p[1], x) ELSE inbox[p[1]]
    BY <1>1 DEF AddInboxItems
  <1>3. CASE p[1] \in users
    <2>1. p \in users \X Authors
      BY <1>1, <1>3
    <2>2. \A y \in (inbox[p[1]] \cup {x}) \ Inboxed(p[1], x) : AuthorOf[y] # p[2]
      BY <2>1 DEF CutFrom
    <2> QED
      BY <1>2, <1>3, <2>2
  <1> QED
    BY <1>2, <1>3

\* Steps that leave rows, queue, outboxes and workers alone.
LEMMA RequestReaches ==
    ASSUME NEW p, NEW v, Reached(p, v),
           UNCHANGED <<status, pending, outbox, work>>,
           Big(p[2]) => Big(p[2])',
           v \in inbox[p[1]] => v \in inbox'[p[1]]
    PROVE  Reached(p, v)'
  <1>1. Owed(v)' => Owed(v)
    BY DEF Owed
  <1>2. Shown(p, v) => Shown(p, v)'
    BY DEF Shown
  <1>3. \A w \in Workers : OnItsWay(w, p, v) => OnItsWay(w, p, v)'
    BY DEF OnItsWay, work
  <1> QED
    BY <1>1, <1>2, <1>3, ReachedByParts

LEMMA SameBig ==
    ASSUME NEW a, UNCHANGED following
    PROVE  Big(a)' <=> Big(a)
  BY DEF Big, CountFollowers, FollowersOf

LEMMA CallReaches ==
    ASSUME Safe, NEW h \in Handlers, NEW q \in Pairs, Follow(h, q) \/ Unfollow(h, q),
           NEW p, StaysRelied(p), NEW v \in Videos, AuthorOf[v] = p[2], Reached(p, v)
    PROVE  Reached(p, v)'
  <1>1. UNCHANGED <<status, pending, inbox, outbox, work>>
    BY DEF Follow, Unfollow, redis
  <1>2. Big(p[2]) => Big(p[2])'
    <2>1. CASE Follow(h, q)
      <3>1. FollowersOf(p[2]) \subseteq FollowersOf(p[2])'
        BY <2>1 DEF Follow, FollowersOf
      <3> QED
        BY <3>1, MoreIsBig
    <2>2. CASE Unfollow(h, q)
      <3>1. CASE p[2] = q[2]
        <4>1. p \notin IF Big(q[2]) /\ ~Big(q[2])' THEN Users \X {q[2]} ELSE {q}
          BY <2>2, NotLost DEF Unfollow, Safe
        <4>2. p \in Users \X {q[2]}
          BY <3>1, ReliedFollow
        <4> QED
          BY <3>1, <4>1, <4>2
      <3>2. CASE p[2] # q[2]
        <4>1. FollowersOf(p[2]) \subseteq FollowersOf(p[2])'
          BY <2>2, <3>2 DEF Unfollow, FollowersOf
        <4> QED
          BY <4>1, MoreIsBig
      <3> QED
        BY <3>1, <3>2
    <2> QED
      BY <2>1, <2>2
  <1> QED
    BY <1>1, <1>2, RequestReaches

LEMMA ServeReaches ==
    ASSUME Safe, NEW h \in Handlers, Serve(h) \/ BackfillFails(h) \/ RemoveFails(h),
           NEW p, StaysRelied(p), NEW v \in Videos, AuthorOf[v] = p[2], Reached(p, v)
    PROVE  Reached(p, v)'
  <1>1. UNCHANGED <<following, status, pending, outbox, work>>
    BY DEF Serve, SkipBackfill, CountForBackfill, ListRecent, BackfillOne, BackfillDone,
           FindInboxAuthor, RemoveFound, BackfillFails, RemoveFails, db, redis
  <1>2. v \in inbox[p[1]] => v \in inbox'[p[1]]
    <2>1. CASE BackfillOne(h)
      <3>1. /\ AddInboxItems({pair[h][1]}, Max(todo[h]))
            /\ Spoil(CutFrom({pair[h][1]}, Max(todo[h])))
            /\ Max(todo[h]) \in Videos
        BY <2>1, TodoTypes DEF BackfillOne, Safe
      <3>2. p \notin CutFrom({pair[h][1]}, Max(todo[h]))
        BY <3>1, NotLost DEF Safe
      <3> QED
        BY <3>1, <3>2, ReliedFollow, InboxKeeps DEF Safe
    <2>2. CASE RemoveFound(h)
      <3>1. Removing(h) /\ pc[h] = "remove"
        BY <2>2 DEF RemoveFound, Removing
      <3>2. pair[h] # p /\ todo[h] \subseteq VideosOf(pair[h][2])
        BY <3>1 DEF StaysRelied, Safe, RemovalsHarmless
      <3>3. pair[h] \in Pairs
        BY <3>1 DEF Safe, Typed, AtWork
      <3>4. pair[h][1] # p[1] \/ pair[h][2] # p[2]
        BY <3>2, <3>3, ReliedFollow DEF Pairs
      <3>5. pair[h][2] # p[2] => v \notin todo[h]
        BY <3>2 DEF VideosOf
      <3>6. inbox' = [inbox EXCEPT ![pair[h][1]] = @ \ todo[h]]
        BY <2>2 DEF RemoveFound
      <3> QED
        BY <3>4, <3>5, <3>6, ReliedFollow DEF Safe, Typed, TypeOK
    <2>3. CASE ~BackfillOne(h) /\ ~RemoveFound(h)
      <3>1. inbox' = inbox
        BY <2>3 DEF Serve, SkipBackfill, CountForBackfill, ListRecent, BackfillDone,
                    FindInboxAuthor, BackfillFails, RemoveFails, redis
      <3> QED
        BY <3>1
    <2> QED
      BY <2>1, <2>2, <2>3
  <1>3. Big(p[2]) => Big(p[2])'
    BY <1>1, SameBig
  <1> QED
    BY <1>1, <1>2, <1>3, RequestReaches

LEMMA VideoReaches ==
    ASSUME Safe, NEW x \in Videos,
           \/ Save(x) \/ Announce(x) \/ AnnounceFails(x) \/ Withdraw(x) \/ Redeliver(x),
           NEW p, NEW v \in Videos, Reached(p, v)
    PROVE  Reached(p, v)'
  <1>1. UNCHANGED <<following, inbox, outbox, work>>
    BY DEF Save, Announce, AnnounceFails, Withdraw, Redeliver, redis, db
  <1>2. Owed(v)' => Owed(v)
    <2>1. status \in [Videos -> {"none", "saved", "sent", "lost"}]
      BY DEF Safe, Typed, TypeOK
    <2> QED
      BY <2>1 DEF Save, Announce, AnnounceFails, Withdraw, Redeliver, db, Owed
  <1>3. Big(p[2])' <=> Big(p[2])
    BY <1>1, SameBig
  <1>4. Shown(p, v) => Shown(p, v)'
    BY <1>1, <1>3 DEF Shown
  <1>5. \A w \in Workers : OnItsWay(w, p, v) => OnItsWay(w, p, v)'
    BY <1>1, <1>3 DEF OnItsWay, work
  <1> QED
    BY <1>2, <1>4, <1>5, ReachedByParts

\* The steps of a worker leave what the others carry.
LEMMA OthersCarryOn ==
    ASSUME NEW w \in Workers, following' = following,
           \A x \in Workers \ {w} : /\ wpc'[x] = wpc[x] /\ event'[x] = event[x]
                                    /\ cursor'[x] = cursor[x] /\ batch'[x] = batch[x],
           NEW p, NEW v
    PROVE  \A x \in Workers \ {w} : OnItsWay(x, p, v) => OnItsWay(x, p, v)'
  BY SameBig DEF OnItsWay

LEMMA DeliverReaches ==
    ASSUME Safe, NEW w \in Workers, Deliver(w),
           NEW p, StaysRelied(p), NEW v \in Videos, AuthorOf[v] = p[2], Reached(p, v)
    PROVE  Reached(p, v)'
  <1>1. PICK x \in pending :
           /\ wpc[w] = "idle"
           /\ event' = [event EXCEPT ![w] = x]
           /\ pending' = pending \ {x}
           /\ WGoto(w, IF Big(AuthorOf[x]) THEN "outbox" ELSE "list")
           /\ UNCHANGED <<db, redis, request, cursor, batch, history, bounds>>
    BY DEF Deliver
  <1>2. /\ wpc'[w] = (IF Big(AuthorOf[x]) THEN "outbox" ELSE "list")
        /\ \A y \in Workers \ {w} : wpc'[y] = wpc[y]
    <2>1. PICK label \in {"outbox", "list", "add"} :
             WGoto(w, label) /\ label = (IF Big(AuthorOf[x]) THEN "outbox" ELSE "list")
      BY <1>1, Zenon
    <2> QED
      BY <2>1, WGotoTypes DEF Safe
  <1>3. event'[w] = x /\ \A y \in Workers \ {w} : event'[y] = event[y]
    BY <1>1 DEF Safe, Typed, TypeOK
  <1>4. UNCHANGED <<following, status, inbox, outbox, cursor, batch>>
    BY <1>1 DEF db, redis
  <1>5. CASE v = x
    <2>1. cursor'[w] = 0 /\ p[1] > 0
      BY <1>1, <1>4, ReliedFollow, UsersAreNumbers DEF Safe, Typed, AtWork
    <2>2. Big(p[2])' <=> Big(p[2])
      BY <1>4, SameBig
    <2>3. OnItsWay(w, p, v)'
      BY <1>2, <1>3, <1>5, <2>1, <2>2 DEF OnItsWay
    <2> QED
      BY <2>3 DEF Reached
  <1>6. CASE v # x
    <2>1. Owed(v)' => Owed(v)
      BY <1>1, <1>4, <1>6 DEF Owed
    <2>2. Shown(p, v) => Shown(p, v)'
      BY <1>4, SameBig DEF Shown
    <2>3. \A y \in Workers : OnItsWay(y, p, v) => OnItsWay(y, p, v)'
      <3>1. ~OnItsWay(w, p, v)
        BY <1>1 DEF OnItsWay
      <3> QED
        BY <1>2, <1>3, <1>4, <3>1, OthersCarryOn
    <2> QED
      BY <2>1, <2>2, <2>3, ReachedByParts
  <1> QED
    BY <1>5, <1>6

LEMMA OutboxReaches ==
    ASSUME Safe, NEW w \in Workers, AddAuthorOutboxItem(w),
           NEW p, StaysRelied(p), NEW v \in Videos, AuthorOf[v] = p[2], Reached(p, v)
    PROVE  Reached(p, v)'
  <1> DEFINE a == AuthorOf[event[w]]
             all == outbox[a] \cup {event[w]}
             kept == Newest(all, OutboxMax)
  <1>1. /\ wpc[w] = "outbox"
        /\ outbox' = [outbox EXCEPT ![a] = kept]
        /\ IF kept = all THEN UNCHANGED history ELSE Spoil(Users \X {a})
        /\ UNCHANGED <<db, pending, inbox, request, bounds>>
    BY DEF AddAuthorOutboxItem
  <1>2. following' = following /\ UNCHANGED <<status, pending, inbox>>
    BY <1>1 DEF db
  <1>3. event[w] \in Videos /\ a \in Authors
    BY <1>1, AuthorsTyped DEF Safe, Typed, AtWork
  <1>4. p[2] = a => kept = all
    <2>1. p[2] = a => p \in Users \X {a}
      BY ReliedFollow
    <2>2. CASE Spoil(Users \X {a})
      BY <2>1, <2>2, NotLost DEF Safe
    <2> QED
      BY <1>1, <2>2
  <1>5. Big(p[2])' <=> Big(p[2])
    BY <1>2, SameBig
  <1>6. /\ v \in outbox[p[2]] => v \in outbox'[p[2]]
        /\ v = event[w] => v \in outbox'[p[2]]
    <2>1. outbox \in [Authors -> SUBSET Videos]
      BY DEF Safe, Typed, TypeOK
    <2>2. p[2] = a => outbox'[p[2]] = all
      BY <1>1, <1>3, <1>4, <2>1
    <2>3. p[2] # a => outbox'[p[2]] = outbox[p[2]] /\ v # event[w]
      BY <1>1, <1>3, <2>1, ReliedFollow
    <2> QED
      BY <2>2, <2>3
  <1>7. Shown(p, v) => Shown(p, v)'
    BY <1>2, <1>5, <1>6 DEF Shown
  <1>8. OnItsWay(w, p, v) => Shown(p, v)'
    BY <1>1, <1>5, <1>6 DEF OnItsWay, Shown
  <1>9. \A x \in Workers \ {w} : OnItsWay(x, p, v) => OnItsWay(x, p, v)'
    <2>1. \A x \in Workers \ {w} : /\ wpc'[x] = wpc[x] /\ event'[x] = event[x]
                                   /\ cursor'[x] = cursor[x] /\ batch'[x] = batch[x]
      BY FinishTypes DEF AddAuthorOutboxItem, Safe
    <2> QED
      BY <1>2, <2>1, OthersCarryOn
  <1>10. Owed(v)' => Owed(v)
    BY <1>2 DEF Owed
  <1> QED
    BY <1>7, <1>8, <1>9, <1>10, ReachedByParts

LEMMA ListReaches ==
    ASSUME Safe, NEW w \in Workers, ListFollowers(w),
           NEW p, StaysRelied(p), NEW v \in Videos, AuthorOf[v] = p[2], Reached(p, v)
    PROVE  Reached(p, v)'
  <1>1. /\ wpc[w] = "list"
        /\ IF NextBatch(w) = {}
           THEN Finish(w)
           ELSE /\ batch' = [batch EXCEPT ![w] = NextBatch(w)]
                /\ WGoto(w, "add")
                /\ UNCHANGED <<event, cursor>>
        /\ UNCHANGED <<db, pending, redis, request, history, bounds>>
    BY DEF ListFollowers
  <1>2. UNCHANGED <<following, status, pending, inbox, outbox>>
    BY <1>1 DEF db, redis
  <1>3. Ahead(w) \in SUBSET Nat /\ IsFiniteSet(Ahead(w))
    <2>1. Ahead(w) \in SUBSET Users
      BY DEF Ahead, FollowersOf
    <2> QED
      BY <2>1, UsersAreNumbers, FS_Subset
  <1>4. /\ Ahead(w) # {} => NextBatch(w) # {}
        /\ \A u \in Ahead(w) \ NextBatch(w) :
              Cardinality(NextBatch(w)) >= BatchSize /\ \A x \in NextBatch(w) : x < u
    BY <1>3, SizesPositive, FirstComeFirst DEF NextBatch
  <1>5. /\ \A x \in Workers \ {w} : /\ wpc'[x] = wpc[x] /\ event'[x] = event[x]
                                    /\ cursor'[x] = cursor[x] /\ batch'[x] = batch[x]
        /\ NextBatch(w) # {} => wpc'[w] = "add" /\ event'[w] = event[w] /\ batch'[w] = NextBatch(w)
    <2>1. CASE NextBatch(w) = {}
      BY <1>1, <2>1, FinishTypes DEF Safe
    <2>2. CASE NextBatch(w) # {}
      <3>1. wpc'[w] = "add" /\ \A x \in Workers \ {w} : wpc'[x] = wpc[x]
        BY <1>1, <2>2, WGotoTypes DEF Safe
      <3>2. batch'[w] = NextBatch(w) /\ \A x \in Workers \ {w} : batch'[x] = batch[x]
        BY <1>1, <2>2 DEF Safe, Typed, TypeOK
      <3> QED
        BY <1>1, <2>2, <3>1, <3>2
    <2> QED
      BY <2>1, <2>2
  <1>6. OnItsWay(w, p, v) => OnItsWay(w, p, v)'
    <2> SUFFICES ASSUME OnItsWay(w, p, v) PROVE OnItsWay(w, p, v)'
      OBVIOUS
    <2>1. event[w] = v /\ p[1] > cursor[w]
      BY <1>1 DEF OnItsWay
    <2>2. p[1] \in Ahead(w)
      BY <2>1, ReliedFollow DEF Ahead, FollowersOf
    <2>3. wpc'[w] = "add" /\ event'[w] = v /\ batch'[w] = NextBatch(w)
      BY <1>4, <1>5, <2>1, <2>2
    <2> QED
      BY <1>4, <2>2, <2>3 DEF OnItsWay
  <1>7. \A x \in Workers : OnItsWay(x, p, v) => OnItsWay(x, p, v)'
    BY <1>2, <1>5, <1>6, OthersCarryOn
  <1>8. Shown(p, v) => Shown(p, v)'
    BY <1>2, SameBig DEF Shown
  <1>9. Owed(v)' => Owed(v)
    BY <1>2 DEF Owed
  <1> QED
    BY <1>7, <1>8, <1>9, ReachedByParts

LEMMA BatchReaches ==
    ASSUME Safe, NEW w \in Workers, AddBatch(w),
           NEW p, StaysRelied(p), NEW v \in Videos, AuthorOf[v] = p[2], Reached(p, v)
    PROVE  Reached(p, v)'
  <1>1. /\ wpc[w] = "add"
        /\ AddInboxItems(batch[w], event[w])
        /\ Spoil(CutFrom(batch[w], event[w]))
        /\ IF Cardinality(batch[w]) < BatchSize
           THEN Finish(w)
           ELSE /\ cursor' = [cursor EXCEPT ![w] = Max(batch[w])]
                /\ batch' = [batch EXCEPT ![w] = {}]
                /\ WGoto(w, "list")
                /\ UNCHANGED event
        /\ UNCHANGED <<db, pending, outbox, request, bounds>>
    BY DEF AddBatch
  <1>2. UNCHANGED <<following, status, pending, outbox>>
    BY <1>1 DEF db
  <1>3. event[w] \in Videos
    BY <1>1 DEF Safe, Typed, AtWork
  <1>4. p \notin CutFrom(batch[w], event[w])
    BY <1>1, NotLost DEF Safe
  <1>5. /\ v \in inbox[p[1]] => v \in inbox'[p[1]]
        /\ v = event[w] /\ p[1] \in batch[w] => v \in inbox'[p[1]]
    BY <1>1, <1>3, <1>4, ReliedFollow, InboxKeeps DEF Safe
  <1>6. Shown(p, v) => Shown(p, v)'
    BY <1>2, <1>5, SameBig DEF Shown
  <1>7. \A x \in Workers \ {w} : /\ wpc'[x] = wpc[x] /\ event'[x] = event[x]
                                 /\ cursor'[x] = cursor[x] /\ batch'[x] = batch[x]
    <2>1. CASE Cardinality(batch[w]) < BatchSize
      BY <1>1, <2>1, FinishTypes DEF Safe
    <2>2. CASE ~ (Cardinality(batch[w]) < BatchSize)
      <3>1. \A x \in Workers \ {w} : wpc'[x] = wpc[x]
        BY <1>1, <2>2, WGotoTypes DEF Safe
      <3>2. \A x \in Workers \ {w} : batch'[x] = batch[x] /\ cursor'[x] = cursor[x]
        BY <1>1, <2>2 DEF Safe, Typed, TypeOK
      <3> QED
        BY <1>1, <2>2, <3>1, <3>2
    <2> QED
      BY <2>1, <2>2
  <1>8. OnItsWay(w, p, v) => Shown(p, v)' \/ OnItsWay(w, p, v)'
    <2> SUFFICES ASSUME OnItsWay(w, p, v), p[1] \notin batch[w]
                 PROVE  OnItsWay(w, p, v)'
      BY <1>5 DEF OnItsWay, Shown
    <2>1. /\ event[w] = v
          /\ Cardinality(batch[w]) >= BatchSize
          /\ \A u \in batch[w] : u < p[1]
      BY <1>1 DEF OnItsWay
    <2>2. Max(batch[w]) \in batch[w] /\ ~ (Cardinality(batch[w]) < BatchSize)
      BY <2>1, BatchTypes, SizesPositive DEF Safe
    <2>3. Max(batch[w]) < p[1]
      BY <2>1, <2>2
    <2>4. wpc'[w] = "list"
      BY <1>1, <2>2, WGotoTypes DEF Safe
    <2>5. cursor'[w] = Max(batch[w]) /\ event'[w] = v
      BY <1>1, <2>1, <2>2 DEF Safe, Typed, TypeOK
    <2>6. Max(batch[w]) \in Nat /\ p[1] \in Nat
      BY <2>2, BatchTypes, ReliedFollow, UsersAreNumbers DEF Safe
    <2>7. p[1] > cursor'[w]
      BY <2>3, <2>5, <2>6
    <2> QED
      BY <2>4, <2>5, <2>7 DEF OnItsWay
  <1>9. \A x \in Workers : OnItsWay(x, p, v) => OnItsWay(x, p, v)' \/ Shown(p, v)'
    BY <1>2, <1>7, <1>8, OthersCarryOn
  <1>10. Owed(v)' => Owed(v)
    BY <1>2 DEF Owed
  <1> QED
    BY <1>6, <1>9, <1>10, ReachedByParts

LEMMA WorkerFaultReaches ==
    ASSUME Safe, NEW w \in Workers, Again(w) \/ DeadLetter(w),
           NEW p, NEW v \in Videos, Reached(p, v)
    PROVE  Reached(p, v)'
  <1>1. Finish(w) /\ UNCHANGED <<following, inbox, outbox>> /\ event[w] \in Videos
    BY DEF Again, DeadLetter, db, redis, Safe, Typed, AtWork
  <1>2. (Owed(v)' => Owed(v)) /\ (v = event[w] => ~Owed(v)')
    <2>1. status \in [Videos -> {"none", "saved", "sent", "lost"}]
      BY DEF Safe, Typed, TypeOK
    <2> QED
      BY <1>1, <2>1 DEF Again, DeadLetter, db, Owed
  <1>3. Shown(p, v) => Shown(p, v)'
    BY <1>1, SameBig DEF Shown
  <1>4. \A x \in Workers \ {w} : /\ wpc'[x] = wpc[x] /\ event'[x] = event[x]
                                 /\ cursor'[x] = cursor[x] /\ batch'[x] = batch[x]
    BY <1>1, FinishTypes DEF Safe
  <1>5. \A x \in Workers : OnItsWay(x, p, v) => OnItsWay(x, p, v)' \/ ~Owed(v)'
    <2>1. OnItsWay(w, p, v) => ~Owed(v)'
      BY <1>2 DEF OnItsWay
    <2> QED
      BY <1>1, <1>4, <2>1, OthersCarryOn
  <1> QED
    BY <1>2, <1>3, <1>5, ReachedByParts

LEMMA ExpiryReaches ==
    ASSUME Safe, (\E u \in Users : ExpireInbox(u)) \/ (\E a \in Authors : ExpireOutbox(a)),
           NEW p, StaysRelied(p), NEW v \in Videos, Reached(p, v)
    PROVE  Reached(p, v)'
  <1>0. p = <<p[1], p[2]>> /\ p[1] \in Users /\ p[2] \in Authors
    BY ReliedFollow
  <1>1. CASE \E u \in Users : ExpireInbox(u)
    <2>1. PICK u \in Users : ExpireInbox(u)
      BY <1>1
    <2>2. p \notin {u} \X Authors
      BY <2>1, NotLost DEF ExpireInbox, Safe
    <2>3. inbox'[p[1]] = inbox[p[1]]
      BY <1>0, <2>1, <2>2 DEF ExpireInbox, Safe, Typed, TypeOK
    <2>4. UNCHANGED <<following, status, pending, outbox, work>>
      BY <2>1 DEF ExpireInbox, db
    <2> QED
      BY <2>3, <2>4, SameBig, RequestReaches
  <1>2. CASE \E a \in Authors : ExpireOutbox(a)
    <2>1. PICK a \in Authors : ExpireOutbox(a)
      BY <1>2
    <2>2. p \notin Users \X {a}
      BY <2>1, NotLost DEF ExpireOutbox, Safe
    <2>3. outbox'[p[2]] = outbox[p[2]]
      BY <1>0, <2>1, <2>2 DEF ExpireOutbox, Safe, Typed, TypeOK
    <2>4. UNCHANGED <<following, status, pending, inbox, work>>
      BY <2>1 DEF ExpireOutbox, db
    <2>5. Shown(p, v) => Shown(p, v)'
      BY <2>3, <2>4, SameBig DEF Shown
    <2>6. \A w \in Workers : OnItsWay(w, p, v) => OnItsWay(w, p, v)'
      BY <2>4, SameBig DEF OnItsWay, work
    <2>7. Owed(v)' => Owed(v)
      BY <2>4 DEF Owed
    <2> QED
      BY <2>5, <2>6, <2>7, ReachedByParts
  <1> QED
    BY <1>1, <1>2

LEMMA StepReaches ==
    ASSUME Safe, [Next]_vars, NEW p, StaysRelied(p),
           NEW v \in Videos, AuthorOf[v] = p[2], Reached(p, v)
    PROVE  Reached(p, v)'
  <1>1. CASE UNCHANGED vars
    BY <1>1 DEF vars, Reached, Shown, OnItsWay, Big, CountFollowers, FollowersOf
  <1>2. CASE \E h \in Handlers :
                \/ \E q \in Pairs : Follow(h, q) \/ Unfollow(h, q)
                \/ Serve(h) \/ BackfillFails(h) \/ RemoveFails(h)
    BY <1>2, CallReaches, ServeReaches
  <1>3. CASE \E x \in Videos :
                Save(x) \/ Announce(x) \/ AnnounceFails(x) \/ Withdraw(x) \/ Redeliver(x)
    BY <1>3, VideoReaches
  <1>4. CASE \E w \in Workers : Fanout(w) \/ Again(w) \/ DeadLetter(w)
    <2>1. PICK w \in Workers : Fanout(w) \/ Again(w) \/ DeadLetter(w)
      BY <1>4
    <2>2. CASE Fanout(w)
      BY <2>2, DeliverReaches, OutboxReaches, ListReaches, BatchReaches DEF Fanout
    <2> QED
      BY <2>1, <2>2, WorkerFaultReaches
  <1>5. CASE (\E u \in Users : ExpireInbox(u)) \/ (\E a \in Authors : ExpireOutbox(a))
    BY <1>5, ExpiryReaches
  <1> QED
    BY <1>1, <1>2, <1>3, <1>4, <1>5 DEF Next

--------------------------------------------------------------------------------
(* The invariant.                                                            *)

LEMMA InitInvariant == Init => IInv
  <1> SUFFICES ASSUME Init PROVE IInv
    OBVIOUS
  <1>1. Public = {}
    BY DEF Init, Public
  <1> QED
    BY <1>1, InitSafe DEF Safe, Typed, IInv, CoveredReached, BackfillsReach

\* What is public after a step and was not before is of status "saved".
LEMMA PublicGrows ==
    ASSUME Safe, [Next]_vars, NEW v \in Public', v \notin Public
    PROVE  status'[v] # "sent"
  <1>1. v \in Videos /\ status'[v] # "none" /\ v \notin withdrawn'
    BY DEF Public
  <1>2. withdrawn \subseteq withdrawn'
    BY DEF Next, vars, Follow, Unfollow, Serve, SkipBackfill, CountForBackfill, ListRecent, BackfillOne,
           BackfillDone, FindInboxAuthor, RemoveFound, BackfillFails, RemoveFails,
           Save, Announce, AnnounceFails, Withdraw, Redeliver, Fanout, Deliver, AddAuthorOutboxItem,
           ListFollowers, AddBatch, Again, DeadLetter, ExpireInbox, ExpireOutbox, db
  <1>3. status[v] = "none"
    BY <1>1, <1>2 DEF Public
  <1>4. CASE UNCHANGED status
    BY <1>1, <1>3, <1>4
  <1>5. CASE \E x \in Videos : Save(x) \/ Announce(x) \/ AnnounceFails(x)
    BY <1>1, <1>3, <1>5 DEF Save, Announce, AnnounceFails, Safe, Typed, TypeOK
  <1>6. CASE \E w \in Workers : DeadLetter(w)
    BY <1>1, <1>3, <1>6 DEF DeadLetter, Safe, Typed, TypeOK
  <1>7. \/ UNCHANGED status
        \/ \E x \in Videos : Save(x) \/ Announce(x) \/ AnnounceFails(x)
        \/ \E w \in Workers : DeadLetter(w)
    BY DEF Next, vars, Follow, Unfollow, Serve, SkipBackfill, CountForBackfill, ListRecent, BackfillOne,
           BackfillDone, FindInboxAuthor, RemoveFound, BackfillFails, RemoveFails,
           Withdraw, Redeliver, Fanout, Deliver, AddAuthorOutboxItem,
           ListFollowers, AddBatch, Again, ExpireInbox, ExpireOutbox, db
  <1> QED
    BY <1>4, <1>5, <1>6, <1>7

\* A pair that becomes covered does so because its request has ended well.
LEMMA NewlyCovered ==
    ASSUME Safe, [Next]_vars, NEW p \in covered', p \notin covered
    PROVE  \E h \in Handlers :
              /\ pair[h] = p /\ clean[h] /\ clean' = clean /\ Backfilling(h)
              /\ UNCHANGED <<db, pending, redis, work>>
              /\ \/ BackfillDone(h)
                 \/ SkipBackfill(h) /\ Big(p[2]) /\ VideosOf(p[2]) \cap Public \subseteq outbox[p[2]]
  <1>1. \E h \in Handlers : SkipBackfill(h) \/ BackfillDone(h)
    <2>1. covered' \subseteq covered \/ \E h \in Handlers : SkipBackfill(h) \/ BackfillDone(h)
      <3>1. \/ UNCHANGED history \/ (\E lost : Spoil(lost)) \/ UNCHANGED covered
            \/ \E h \in Handlers : SkipBackfill(h) \/ BackfillDone(h)
        BY DEF Next, vars, Follow, Unfollow, Serve, CountForBackfill, ListRecent, BackfillOne,
               FindInboxAuthor, RemoveFound, BackfillFails, RemoveFails,
               Save, Announce, AnnounceFails, Withdraw, Redeliver, Fanout, Deliver, AddAuthorOutboxItem,
               ListFollowers, AddBatch, Again, DeadLetter, ExpireInbox, ExpireOutbox, history
      <3>2. CASE \E lost : Spoil(lost)
        BY <3>2 DEF Spoil
      <3> QED
        BY <3>1, <3>2 DEF history
    <2> QED
      BY <2>1
  <1>2. PICK h \in Handlers : SkipBackfill(h) \/ BackfillDone(h)
    BY <1>1
  <1>3. CASE SkipBackfill(h)
    BY <1>3 DEF SkipBackfill, Backfilling
  <1>4. CASE BackfillDone(h)
    BY <1>4 DEF BackfillDone, Followed, Backfilling
  <1> QED
    BY <1>2, <1>3, <1>4

LEMMA CoveredStep ==
    ASSUME IInv, Safe, [Next]_vars
    PROVE  CoveredReached'
  <1> SUFFICES ASSUME NEW p \in covered', NEW v \in Public', AuthorOf[v] = p[2]
               PROVE  Reached(p, v)'
    BY DEF CoveredReached
  <1>1. v \in Videos
    BY DEF Public
  <1>2. CASE v \notin Public
    BY <1>2, PublicGrows DEF Reached
  <1>3. CASE v \in Public /\ p \in covered
    <2>1. StaysRelied(p)
      BY <1>3 DEF StaysRelied
    <2>2. Reached(p, v)
      BY <1>3 DEF IInv, CoveredReached
    <2> QED
      BY <1>1, <2>1, <2>2, StepReaches
  <1>4. CASE v \in Public /\ p \notin covered
    <2>1. PICK h \in Handlers :
              /\ pair[h] = p /\ clean[h] /\ clean' = clean /\ Backfilling(h)
              /\ UNCHANGED <<db, pending, redis, work>>
              /\ \/ BackfillDone(h)
                 \/ SkipBackfill(h) /\ Big(p[2]) /\ VideosOf(p[2]) \cap Public \subseteq outbox[p[2]]
      BY <1>4, NewlyCovered
    <2>2. CASE BackfillDone(h)
      <3>1. Reached(p, v)
        BY <1>4, <2>1, <2>2 DEF IInv, BackfillsReach, BackfillDone
      <3>2. StaysRelied(p)
        BY <2>1 DEF StaysRelied
      <3> QED
        BY <1>1, <3>1, <3>2, StepReaches
    <2>3. CASE SkipBackfill(h) /\ Big(p[2]) /\ VideosOf(p[2]) \cap Public \subseteq outbox[p[2]]
      <3>1. v \in outbox'[p[2]]
        BY <1>1, <1>4, <2>1, <2>3 DEF VideosOf, redis
      <3>2. Big(p[2])'
        BY <2>1, <2>3, SameBig DEF db
      <3> QED
        BY <3>1, <3>2 DEF Reached, Shown
    <2> QED
      BY <2>1, <2>2, <2>3
  <1> QED
    BY <1>2, <1>3, <1>4

\* The steps of a request that is adding videos.
LEMMA AddingStep ==
    ASSUME Safe, [Next]_vars, NEW h \in Handlers, pc'[h] = "add", clean'[h]
    PROVE  /\ pair'[h] = pair[h] /\ clean[h]
           /\ \/ ListRecent(h) /\ todo'[h] = VideosOf(pair[h][2]) \cap Public
              \/ BackfillOne(h)
              \/ pc[h] = "add" /\ todo'[h] = todo[h]
  <1>1. CASE ListRecent(h)
    <2>1. pair' = pair /\ pair[h] \in Pairs
      BY <1>1 DEF ListRecent, Safe, Typed, AtWork
    <2> DEFINE mine == VideosOf(pair[h][2]) \cap Public
    <2>2. Newest(mine, BackfillMax) = mine /\ UNCHANGED history
      <3>1. CASE Spoil({pair[h]})
        BY <3>1, Spoiled DEF Safe
      <3> QED
        BY <1>1, <3>1 DEF ListRecent
    <2>3. todo'[h] = mine
      BY <1>1, <2>2 DEF ListRecent, Safe, Typed, TypeOK
    <2> QED
      BY <1>1, <2>1, <2>2, <2>3 DEF history
  <1>2. CASE ~ListRecent(h)
    <2>1. CASE \E g \in Handlers, p \in Pairs : Follow(g, p) \/ Unfollow(g, p)
      <3>1. PICK g \in Handlers, p \in Pairs : Follow(g, p) \/ Unfollow(g, p)
        BY <2>1
      <3>2. h # g /\ pc'[h] = pc[h]
        BY <3>1, GotoTypes DEF Follow, Unfollow, Safe
      <3>3. pair'[h] = pair[h] /\ todo' = todo
        BY <3>1, <3>2 DEF Follow, Unfollow, Safe, Typed, TypeOK
      <3>4. clean[h]
        <4>1. CASE Follow(g, p)
          BY <3>2, <4>1, Zenon DEF Follow, Safe, Typed, TypeOK
        <4>2. CASE Unfollow(g, p)
          <5>1. PICK lost : Spoil(lost)
            BY <4>2 DEF Unfollow
          <5> QED
            BY <5>1, Spoiled DEF Safe
        <4> QED
          BY <3>1, <4>1, <4>2
      <3> QED
        BY <3>2, <3>3, <3>4
    <2>2. CASE \E g \in Handlers : Serve(g) \/ BackfillFails(g) \/ RemoveFails(g)
      <3>1. PICK g \in Handlers : Serve(g) \/ BackfillFails(g) \/ RemoveFails(g)
        BY <2>2
      <3>2. pair'[h] = pair[h] /\ ((pc'[h] = pc[h] /\ todo'[h] = todo[h]) \/ BackfillOne(h))
        <4>1. CASE Reply(g)
          <5>1. h # g
            BY <4>1, ReplyTypes DEF Safe
          <5> QED
            BY <4>1, <5>1, ReplyTypes DEF Safe
        <4>2. CASE CountForBackfill(g) \/ ListRecent(g) \/ FindInboxAuthor(g)
          <5>1. h # g
            BY <1>2, <4>2, GotoTypes DEF CountForBackfill, FindInboxAuthor, Safe
          <5>2. pc'[h] = pc[h] /\ pair'[h] = pair[h]
            BY <4>2, <5>1, GotoTypes DEF CountForBackfill, FindInboxAuthor, ListRecent, Safe
          <5>3. todo'[h] = todo[h]
            BY <4>2, <5>1 DEF CountForBackfill, FindInboxAuthor, ListRecent, Safe, Typed, TypeOK
          <5> QED
            BY <5>2, <5>3
        <4>3. CASE BackfillOne(g)
          BY <4>3 DEF BackfillOne, Safe, Typed, TypeOK
        <4> QED
          BY <3>1, <4>1, <4>2, <4>3
             DEF Serve, SkipBackfill, BackfillDone, Followed, RemoveFound, BackfillFails, RemoveFails
      <3>3. clean[h]
        <4>1. UNCHANGED clean \/ \E lost : Spoil(lost)
          BY <3>1 DEF Serve, SkipBackfill, CountForBackfill, ListRecent, BackfillOne, BackfillDone, Followed,
                      FindInboxAuthor, RemoveFound, BackfillFails, RemoveFails, history
        <4> QED
          BY <4>1, Spoiled DEF Safe
      <3> QED
        BY <3>2, <3>3 DEF BackfillOne
    <2>3. CASE ~ (\E g \in Handlers, p \in Pairs : Follow(g, p) \/ Unfollow(g, p))
               /\ ~ \E g \in Handlers : Serve(g) \/ BackfillFails(g) \/ RemoveFails(g)
      <3>1. UNCHANGED <<pc, pair, todo>>
        BY <2>3 DEF Next, vars, request, Save, Announce, AnnounceFails, Withdraw, Redeliver, Fanout, Deliver,
                    AddAuthorOutboxItem, ListFollowers, AddBatch, Again, DeadLetter, ExpireInbox, ExpireOutbox
      <3>2. UNCHANGED clean \/ \E lost : Spoil(lost)
        BY <2>3 DEF Next, vars, history, Save, Announce, AnnounceFails, Withdraw, Redeliver, Fanout, Deliver,
                    AddAuthorOutboxItem, ListFollowers, AddBatch, Again, DeadLetter, ExpireInbox, ExpireOutbox
      <3>3. clean[h]
        BY <3>2, Spoiled DEF Safe
      <3> QED
        BY <3>1, <3>3
    <2> QED
      BY <2>1, <2>2, <2>3
  <1> QED
    BY <1>1, <1>2

LEMMA BackfillStep ==
    ASSUME IInv, Safe, [Next]_vars
    PROVE  BackfillsReach'
  <1> SUFFICES ASSUME NEW h \in Handlers, NEW v \in Public',
                      pc'[h] = "add", clean'[h], AuthorOf[v] = pair'[h][2]
               PROVE  (v \in todo[h] \/ Reached(pair[h], v))'
    BY DEF BackfillsReach
  <1>1. v \in Videos
    BY DEF Public
  <1>2. /\ pair'[h] = pair[h] /\ clean[h]
        /\ \/ ListRecent(h) /\ todo'[h] = VideosOf(pair[h][2]) \cap Public
           \/ BackfillOne(h)
           \/ pc[h] = "add" /\ todo'[h] = todo[h]
    BY AddingStep
  <1>9. PICK p : p = pair[h]
    OBVIOUS
  <1>3. pair'[h] = p /\ AuthorOf[v] = p[2]
    BY <1>2, <1>9
  <1>4. SUFFICES v \in todo'[h] \/ Reached(p, v)'
    BY <1>3 DEF Reached, Shown, OnItsWay
  <1>5. CASE v \notin Public
    BY <1>5, PublicGrows DEF Reached
  <1>6. CASE v \in Public /\ ListRecent(h) /\ todo'[h] = VideosOf(pair[h][2]) \cap Public
    BY <1>1, <1>3, <1>6, <1>9 DEF VideosOf
  <1>7. CASE v \in Public /\ pc[h] = "add"
    <2>1. StaysRelied(p)
      BY <1>2, <1>7, <1>9 DEF StaysRelied, Backfilling
    <2>2. v \in todo[h] \/ Reached(p, v)
      BY <1>2, <1>3, <1>7, <1>9 DEF IInv, BackfillsReach
    <2>3. CASE Reached(p, v)
      BY <1>1, <1>3, <2>1, <2>3, StepReaches
    <2>4. CASE v \in todo[h] /\ v \notin todo'[h]
      <3>1. BackfillOne(h)
        BY <1>2, <1>7, <2>4 DEF ListRecent
      <3>2. v = Max(todo[h])
        BY <2>4, <3>1 DEF BackfillOne, Safe, Typed, TypeOK
      <3>3. p \notin CutFrom({p[1]}, v) /\ AddInboxItems({p[1]}, v)
        BY <1>9, <2>1, <3>1, <3>2, NotLost DEF BackfillOne, Safe
      <3>4. v \in inbox'[p[1]]
        BY <1>1, <1>3, <2>1, <3>3, ReliedFollow, InboxKeeps DEF Safe
      <3> QED
        BY <3>4 DEF Reached, Shown
    <2> QED
      BY <2>2, <2>3, <2>4
  <1>8. BackfillOne(h) => pc[h] = "add"
    BY DEF BackfillOne
  <1> QED
    BY <1>2, <1>5, <1>6, <1>7, <1>8

LEMMA StepInvariant ==
    ASSUME IInv, [Next]_vars
    PROVE  IInv'
  <1>1. Safe
    BY DEF IInv, Safe, Typed
  <1>2. Safe'
    BY <1>1, StepSafe
  <1> QED
    BY <1>1, <1>2, CoveredStep, BackfillStep DEF Safe, Typed, IInv

LEMMA InvariantShows ==
    ASSUME IInv
    PROVE  CoveredIsIndexed
  <1> SUFFICES ASSUME NEW p \in covered, NEW v \in Public, AuthorOf[v] = p[2], Handled(v)
               PROVE  v \in Indexed(p[1])
    BY DEF CoveredIsIndexed
  <1>1. Reached(p, v)
    BY DEF IInv, CoveredReached
  <1>2. \A w \in Workers : ~OnItsWay(w, p, v)
    BY DEF Handled, OnItsWay
  <1>3. Shown(p, v)
    BY <1>1, <1>2 DEF Reached, Handled
  <1>4. p \in following /\ p[2] \in Authors /\ <<p[1], p[2]>> \in following
    BY DEF IInv, CoveredFollow, TypeOK, Pairs
  <1> QED
    BY <1>3, <1>4 DEF Shown, Indexed, PullAuthors, FollowedAuthors

(* CoveredIsIndexed holds in every behaviour: who has been told that they   *)
(* follow an author finds every fanned-out video of his in their index       *)
(* (fanout_worker.go:160, service.go:155), whatever follows, leaves, is      *)
(* published, redelivered or fails in between.                               *)
THEOREM CoveredFind == Spec => []CoveredIsIndexed
  <1>1. IInv /\ [Next]_vars => IInv'
    BY StepInvariant
  <1>2. IInv => CoveredIsIndexed
    BY InvariantShows
  <1> QED
    BY InitInvariant, <1>1, <1>2, PTL DEF Spec

================================================================================
