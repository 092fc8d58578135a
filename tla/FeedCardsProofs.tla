---------------------------- MODULE FeedCardsProofs ----------------------------
(***************************************************************************)
(* Proofs about FeedCards, for any videos, keys, profiles, lives of cards, *)
(* requests and faults: one key names one video, and a change reaches the  *)
(* cards stored before it.                                                 *)
(*                                                                         *)
(* The first is about creations and their unique index, the second about   *)
(* the author's set of cards: a card that no reason excuses is in the set, *)
(* and the set lives as long as the card, but for the commands between     *)
(* which a reader stores it. So the invalidation that reads the set finds  *)
(* the card.                                                               *)
(***************************************************************************)
EXTENDS FeedCards, FiniteSetTheorems, WellFoundedInduction, TLAPS

(* Types. *)

Typed == TypeOK /\ Named

\* The id the database hands out next.
LEMMA NextId ==
    ASSUME Free # {}
    PROVE  Min(Free) \in Free /\ Min(Free) \in Videos
  <1>1. Free \subseteq Videos /\ Videos \subseteq Nat
    <2>1. Cardinality(Videos) \in Nat
      BY VideosNumbered, FS_CardinalityType
    <2> QED
      BY <2>1, VideosNumbered DEF Free
  <1>2. IsWellFoundedOn(OpToRel(<, Nat), Nat)
    BY NatLessThanWellFounded
  <1>3. PICK m \in Free : \A x \in Free : <<x, m>> \notin OpToRel(<, Nat)
    <2> HIDE DEF Free
    <2> QED
      BY <1>1, <1>2, WFMin
  <1>4. \A x \in Free : ~ (x < m)
    BY <1>1, <1>3, Zenon DEF OpToRel
  <1>5. \A x \in Free : m <= x
    BY <1>1, <1>4
  <1> QED
    BY <1>1, <1>5, Zenon DEF Min

LEMMA NothingTyped == Nothing \in Locals /\ Nothing.video = NoVideo /\ Nothing.ids = {}
  BY DEF Nothing, Locals

LEMMA InitTypes == Init => Typed
  <1> SUFFICES ASSUME Init PROVE Typed
    OBVIOUS
  <1>1. row \in [Videos -> [status : {"absent", "published", "deleted"}, key : Keys \cup {NoKey}]]
    BY DEF Init, CatalogueInit, Absent
  <1>2. card \in [Videos -> [data : Profiles \cup {NoCard}, life : 0..CardLife]]
    BY LifePositive DEF Init, CacheInit
  <1>3. index \in [ids : SUBSET Videos, life : 1..Forever]
    BY LifePositive DEF Init, CacheInit, NoIndex, Forever
  <1>4. /\ at \in [Procs -> Labels] /\ mem \in [Procs -> Locals]
        /\ answers \in [Keys -> SUBSET Videos] /\ announced \in [Videos -> Nat]
        /\ changes \in Nat /\ faults \in Nat
    BY NothingTyped DEF Init, Labels
  <1>5. profile \in Profiles /\ before \subseteq Videos /\ excused \subseteq Videos
    BY ProfilesNamed DEF Init, CatalogueInit, CacheInit
  <1>6. Named
    BY DEF Init, Named
  <1> QED
    BY <1>1, <1>2, <1>3, <1>4, <1>5, <1>6 DEF Typed, TypeOK

LEMMA GotoTypes ==
    ASSUME Typed, NEW p \in Procs, NEW label \in Labels, Goto(p, label)
    PROVE  /\ at' \in [Procs -> Labels] /\ at'[p] = label
           /\ \A q \in Procs \ {p} : at'[q] = at[q]
  BY DEF Typed, TypeOK, Goto

LEMMA FinishTypes ==
    ASSUME Typed, NEW p \in Procs, Finish(p)
    PROVE  /\ at' \in [Procs -> Labels] /\ at'[p] = "idle"
           /\ mem' \in [Procs -> Locals]
           /\ \A q \in Procs \ {p} : at'[q] = at[q] /\ mem'[q] = mem[q]
  <1>1. at' \in [Procs -> Labels] /\ at'[p] = "idle" /\ \A q \in Procs \ {p} : at'[q] = at[q]
    BY GotoTypes DEF Finish, Labels
  <1>2. mem' \in [Procs -> Locals] /\ \A q \in Procs \ {p} : mem'[q] = mem[q]
    BY NothingTyped DEF Finish, Typed, TypeOK
  <1> QED
    BY <1>1, <1>2

\* What the other goroutines have is left alone.
Others(p) == \A q \in Procs \ {p} : at'[q] = at[q] /\ mem'[q] = mem[q]

\* A named video that has a row keeps it, so the others keep what they name.
LEMMA OthersNamed ==
    ASSUME Typed, NEW p \in Procs, Others(p), Free' \subseteq Free,
           at'[p] \in {"find", "delete", "announce"} => mem'[p].video \in Videos \ Free',
           at'[p] \in {"drop", "add", "renew"} => mem'[p].video \in Videos,
           at'[p] = "write" => mem'[p].data \in Profiles
    PROVE  Named'
  BY DEF Typed, Named, Others

LEMMA FinishNamed ==
    ASSUME Typed, NEW p \in Procs, Finish(p), Free' \subseteq Free
    PROVE  Named'
  BY FinishTypes, OthersNamed DEF Others

LEMMA FaultTypes ==
    ASSUME Typed, Fault
    PROVE  faults' \in Nat
  BY DEF Typed, TypeOK, Fault

LEMMA BeginTypes ==
    ASSUME Typed, NEW p \in Procs, NEW label \in Labels, NEW data \in Locals,
           Begin(p, label, data), changes' \in Nat,
           label \in {"find", "delete", "announce"} => data.video \in Videos \ Free,
           label \notin {"drop", "add", "renew", "write"}
    PROVE  Typed'
  <1>1. at' \in [Procs -> Labels] /\ at'[p] = label /\ \A q \in Procs \ {p} : at'[q] = at[q]
    BY GotoTypes DEF Begin
  <1>2. mem' \in [Procs -> Locals] /\ mem'[p] = data /\ \A q \in Procs \ {p} : mem'[q] = mem[q]
    BY DEF Begin, Typed, TypeOK
  <1>3. UNCHANGED <<state, redis, history, faults>>
    BY DEF Begin
  <1>4. Free' = Free
    BY <1>3 DEF state, Free
  <1>5. Named'
    BY <1>1, <1>2, <1>4, OthersNamed DEF Others
  <1> QED
    BY <1>1, <1>2, <1>3, <1>5 DEF Typed, TypeOK, state, redis, history

\* Requests that begin.
LEMMA StartTypes ==
    ASSUME Typed, NEW p \in Procs,
           \/ \E k \in Keys \cup {NoKey} : StartCreate(p, k)
           \/ \E v \in Videos \ Free : StartDelete(p, v)
           \/ \E data \in Profiles \cup {NoCard} : StartProfile(p, data)
           \/ StartRead(p)
    PROVE  Typed'
  <1>1. CASE \E k \in Keys \cup {NoKey} : StartCreate(p, k)
    <2>1. PICK k \in Keys \cup {NoKey} : StartCreate(p, k)
      BY <1>1
    <2>2. [Nothing EXCEPT !.key = k] \in Locals
      BY NothingTyped DEF Locals
    <2>3. PICK label \in {"save", "lookup"} : Begin(p, label, [Nothing EXCEPT !.key = k]) /\ changes' \in Nat
      BY <2>1 DEF StartCreate, BeginChange, Typed, TypeOK
    <2> QED
      BY <2>2, <2>3, BeginTypes DEF Labels
  <1>2. CASE \E v \in Videos \ Free : StartDelete(p, v)
    <2>1. PICK v \in Videos \ Free : StartDelete(p, v)
      BY <1>2
    <2>2. [Nothing EXCEPT !.video = v] \in Locals /\ [Nothing EXCEPT !.video = v].video = v
      BY NothingTyped DEF Locals
    <2>3. Begin(p, "find", [Nothing EXCEPT !.video = v]) /\ changes' \in Nat
      BY <2>1 DEF StartDelete, BeginChange, Typed, TypeOK
    <2> QED
      BY <2>2, <2>3, BeginTypes DEF Labels
  <1>3. CASE \E data \in Profiles \cup {NoCard} : StartProfile(p, data)
    <2>1. PICK data \in Profiles \cup {NoCard} : StartProfile(p, data)
      BY <1>3
    <2>2. [Nothing EXCEPT !.data = data] \in Locals
      BY NothingTyped DEF Locals
    <2>3. Begin(p, "load_user", [Nothing EXCEPT !.data = data]) /\ changes' \in Nat
      BY <2>1 DEF StartProfile, BeginChange, Typed, TypeOK
    <2> QED
      BY <2>2, <2>3, BeginTypes DEF Labels
  <1>4. CASE StartRead(p)
    <2>1. PICK n \in 1..MaxPage : \E ids \in kSubset(n, Videos \ Free) :
              Begin(p, "cards", [Nothing EXCEPT !.ids = ids])
      BY <1>4 DEF StartRead
    <2>2. PICK ids \in kSubset(n, Videos \ Free) : Begin(p, "cards", [Nothing EXCEPT !.ids = ids])
      BY <2>1
    <2>3. [Nothing EXCEPT !.ids = ids] \in Locals
      BY NothingTyped DEF Locals, kSubset
    <2>4. changes' \in Nat
      BY <1>4 DEF StartRead, Typed, TypeOK
    <2> QED
      BY <2>2, <2>3, <2>4, BeginTypes DEF Labels
  <1> QED
    BY <1>1, <1>2, <1>3, <1>4

\* Steps that leave rows and Redis alone.
LEMMA LocalTypes ==
    ASSUME Typed, NEW p \in Procs, Others(p),
           at' \in [Procs -> Labels], mem' \in [Procs -> Locals],
           UNCHANGED <<state, redis, announced, changes>>,
           answers' \in [Keys -> SUBSET Videos], faults' \in Nat,
           at'[p] \in {"find", "delete", "announce"} => mem'[p].video \in Videos \ Free,
           at'[p] \in {"drop", "add", "renew"} => mem'[p].video \in Videos,
           at'[p] = "write" => mem'[p].data \in Profiles
    PROVE  Typed'
  <1>1. Free' = Free
    BY DEF state, Free
  <1>2. Named'
    BY <1>1, OthersNamed
  <1> QED
    BY <1>2 DEF Typed, TypeOK, state, redis

LEMMA AnswerTypes ==
    ASSUME Typed, NEW p \in Procs, NEW v \in Videos, Answer(p, v)
    PROVE  /\ answers' \in [Keys -> SUBSET Videos]
           /\ Finish(p)
  <1>1. answers' = [k \in Keys |-> IF k = mem[p].key THEN answers[k] \cup {v} ELSE answers[k]]
    BY DEF Answer
  <1>2. \A k \in Keys : answers[k] \in SUBSET Videos
    BY DEF Typed, TypeOK
  <1>3. \A k \in Keys : (IF k = mem[p].key THEN answers[k] \cup {v} ELSE answers[k]) \in SUBSET Videos
    BY <1>2
  <1>4. answers' \in [Keys -> SUBSET Videos]
    BY <1>1, <1>3
  <1> QED
    BY <1>4 DEF Answer

LEMMA CreateTypes ==
    ASSUME Typed, NEW p \in Procs, Lookup(p) \/ Save(p) \/ Relookup(p) \/ Announce(p)
    PROVE  Typed'
  <1>1. CASE \E v \in FindByAuthorAndIdempotencyKey(mem[p].key) :
                Answer(p, v) /\ UNCHANGED <<state, redis, announced, changes, faults>>
    <2>1. PICK v \in FindByAuthorAndIdempotencyKey(mem[p].key) :
                Answer(p, v) /\ UNCHANGED <<state, redis, announced, changes, faults>>
      BY <1>1
    <2>2. v \in Videos
      BY DEF FindByAuthorAndIdempotencyKey
    <2>3. answers' \in [Keys -> SUBSET Videos] /\ Finish(p)
      BY <2>1, <2>2, AnswerTypes
    <2>4. faults' \in Nat
      BY <2>1 DEF Typed, TypeOK
    <2> QED
      BY <2>1, <2>3, <2>4, FinishTypes, LocalTypes DEF Others
  <1>2. CASE Lookup(p) /\ FindByAuthorAndIdempotencyKey(mem[p].key) = {}
    <2>1. at' \in [Procs -> Labels] /\ at'[p] = "save" /\ \A q \in Procs \ {p} : at'[q] = at[q]
      BY <1>2, GotoTypes DEF Lookup, Labels
    <2>2. UNCHANGED <<state, redis, mem, answers, announced, changes, faults>>
      BY <1>2 DEF Lookup
    <2>3. Others(p)
      BY <2>1, <2>2 DEF Others
    <2>4. mem' \in [Procs -> Locals] /\ answers' \in [Keys -> SUBSET Videos] /\ faults' \in Nat
      BY <2>2 DEF Typed, TypeOK
    <2> QED
      BY <2>1, <2>2, <2>3, <2>4, LocalTypes
  <1>3. CASE Save(p) /\ DuplicateKey(mem[p].key)
    <2>1. at' \in [Procs -> Labels] /\ at'[p] = "relookup" /\ \A q \in Procs \ {p} : at'[q] = at[q]
      BY <1>3, GotoTypes DEF Save, Labels
    <2>2. UNCHANGED <<state, redis, mem, history, changes, faults>>
      BY <1>3 DEF Save, state
    <2>3. Others(p)
      BY <2>1, <2>2 DEF Others
    <2>4. mem' \in [Procs -> Locals] /\ answers' \in [Keys -> SUBSET Videos] /\ faults' \in Nat
          /\ announced' = announced
      BY <2>2 DEF Typed, TypeOK, history
    <2> QED
      BY <2>1, <2>2, <2>3, <2>4, LocalTypes
  <1>4. CASE Save(p) /\ ~DuplicateKey(mem[p].key)
    <2>1. /\ Free # {}
          /\ SaveVideo(Min(Free), mem[p].key)
          /\ mem' = [mem EXCEPT ![p].video = Min(Free)]
          /\ Goto(p, "announce")
          /\ UNCHANGED <<profile, redis, history, changes, faults>>
      BY <1>4 DEF Save
    <2>2. PICK v \in Free : v = Min(Free) /\ v \in Videos
      BY <2>1, NextId
    <2>3. at' \in [Procs -> Labels] /\ at'[p] = "announce" /\ \A q \in Procs \ {p} : at'[q] = at[q]
      BY <2>1, GotoTypes DEF Labels
    <2>4. mem[p] \in Locals
      BY DEF Typed, TypeOK
    <2>5. /\ mem' \in [Procs -> Locals] /\ mem'[p].video = v
          /\ \A q \in Procs \ {p} : mem'[q] = mem[q]
      <3>1. mem' = [mem EXCEPT ![p] = [mem[p] EXCEPT !.video = v]]
        BY <2>1, <2>2
      <3>2. [mem[p] EXCEPT !.video = v] \in Locals /\ [mem[p] EXCEPT !.video = v].video = v
        BY <2>2, <2>4 DEF Locals
      <3> QED
        BY <3>1, <3>2 DEF Typed, TypeOK
    <2>6. row' = [row EXCEPT ![v] = [status |-> "published", key |-> mem[p].key]]
      BY <2>1, <2>2 DEF SaveVideo, NewPublished
    <2>7. /\ row' \in [Videos -> [status : {"absent", "published", "deleted"}, key : Keys \cup {NoKey}]]
          /\ row'[v].status = "published" /\ \A w \in Videos \ {v} : row'[w] = row[w]
      BY <2>2, <2>4, <2>6 DEF Typed, TypeOK, Locals
    <2>8. Free' \subseteq Free /\ v \notin Free'
      BY <2>7 DEF Free
    <2>9. Named'
      BY <2>2, <2>3, <2>5, <2>8, OthersNamed DEF Others
    <2> QED
      BY <2>1, <2>3, <2>5, <2>7, <2>9 DEF Typed, TypeOK, redis, history
  <1>5. CASE Announce(p)
    <2>1. mem[p].video \in Videos
      BY <1>5 DEF Announce, Typed, Named
    <2>2. answers' \in [Keys -> SUBSET Videos] /\ Finish(p)
      BY <1>5, <2>1, AnswerTypes DEF Announce
    <2>3. announced' \in [Videos -> Nat] /\ faults' \in Nat
      BY <1>5, <2>1, FaultTypes DEF Announce, Typed, TypeOK
    <2>4. Finish(p) /\ UNCHANGED <<state, redis, changes>>
      BY <1>5, <2>2 DEF Announce
    <2>5. Named'
      BY <2>4, FinishNamed DEF state, Free
    <2> QED
      BY <2>2, <2>3, <2>4, <2>5, FinishTypes DEF Typed, TypeOK, state, redis
  <1> QED
    BY <1>1, <1>2, <1>3, <1>4, <1>5 DEF Lookup, Relookup

-----------------------------------------------------------------------------
(* Types of what Redis holds. *)

\* The types of what Redis holds.
CacheOK ==
    /\ card \in [Videos -> [data : Profiles \cup {NoCard}, life : 0..CardLife]]
    /\ index \in [ids : SUBSET Videos, life : 1..Forever]
    /\ before \subseteq Videos /\ excused \subseteq Videos
    /\ index.ids = {} => index.life = Forever

LEMMA ForeverTyped == /\ Forever \in Nat /\ CardLife \in 1..Forever /\ Forever \in 1..Forever
                      /\ CardLife \in 0..CardLife /\ 0 \in 0..CardLife
  BY LifePositive DEF Forever

LEMMA RemovedTypes ==
    ASSUME CacheOK, NEW vs
    PROVE  /\ Removed(vs) \in [Videos -> [data : Profiles \cup {NoCard}, life : 0..CardLife]]
           /\ \A v \in Videos : Removed(vs)[v] = IF v \in vs THEN [data |-> NoCard, life |-> 0] ELSE card[v]
  <1>1. \A v \in Videos : card[v] \in [data : Profiles \cup {NoCard}, life : 0..CardLife]
    BY DEF CacheOK
  <1>2. [data |-> NoCard, life |-> 0] \in [data : Profiles \cup {NoCard}, life : 0..CardLife]
    BY ForeverTyped
  <1> QED
    BY <1>1, <1>2 DEF Removed

LEMMA SetCardTypes ==
    ASSUME CacheOK, NEW v \in Videos, NEW data \in Profiles \cup {NoCard}, SetCard(v, data)
    PROVE  CacheOK'
  <1>1. [data |-> data, life |-> CardLife] \in [data : Profiles \cup {NoCard}, life : 0..CardLife]
    BY ForeverTyped
  <1> QED
    BY <1>1 DEF CacheOK, SetCard

LEMMA AddTypes ==
    ASSUME CacheOK, NEW v \in Videos, AddToIndex(v)
    PROVE  CacheOK' /\ index'.ids = index.ids \cup {v} /\ index'.life = index.life
  <1>1. index' = [index EXCEPT !.ids = @ \cup {v}]
    BY DEF AddToIndex
  <1>2. index' \in [ids : SUBSET Videos, life : 1..Forever] /\ index'.ids = index.ids \cup {v}
        /\ index'.life = index.life
    BY <1>1 DEF CacheOK
  <1> QED
    BY <1>2 DEF CacheOK, AddToIndex

LEMMA RenewTypes ==
    ASSUME CacheOK, RenewIndex
    PROVE  /\ CacheOK'
           /\ index'.ids = index.ids
           /\ index.ids # {} => index'.life = CardLife
  <1>1. index' = IF index.ids = {} THEN index ELSE [index EXCEPT !.life = CardLife]
    BY DEF RenewIndex
  <1>2. /\ index' \in [ids : SUBSET Videos, life : 1..Forever] /\ index'.ids = index.ids
        /\ index.ids # {} => index'.life = CardLife
        /\ index.ids = {} => index' = index
    BY <1>1, ForeverTyped DEF CacheOK
  <1> QED
    BY <1>2 DEF CacheOK, RenewIndex

LEMMA DeleteTypes ==
    ASSUME CacheOK, NEW v, DeleteCard(v)
    PROVE  CacheOK'
  BY RemovedTypes DEF CacheOK, DeleteCard

LEMMA CollectedTypes ==
    ASSUME CacheOK, NEW ids, DeleteCollected(ids)
    PROVE  CacheOK'
  <1>1. NoIndex \in [ids : SUBSET Videos, life : 1..Forever] /\ NoIndex.life = Forever
    BY ForeverTyped DEF NoIndex
  <1>2. card' \in [Videos -> [data : Profiles \cup {NoCard}, life : 0..CardLife]]
    BY RemovedTypes DEF DeleteCollected
  <1>3. before' \subseteq Videos /\ excused' \subseteq Videos /\ index' = NoIndex
    BY DEF DeleteCollected, CacheOK, Cached
  <1> QED
    BY <1>1, <1>2, <1>3 DEF CacheOK

\* What a tick does to a card, and to the set.
LEMMA TickEffect ==
    ASSUME CacheOK, NEW adding \in SUBSET Videos, Tick(adding)
    PROVE  /\ CacheOK'
           /\ \A v \in Videos : IF card[v].life > 1
                                THEN card'[v].data = card[v].data /\ card'[v].life = card[v].life - 1
                                ELSE card'[v].data = NoCard
           /\ \/ index'.ids = index.ids /\ index.life # 1
                 /\ index'.life = (IF index.life = Forever THEN Forever ELSE index.life - 1)
                 /\ excused' = excused \ {v \in Cached : card[v].life = 1}
              \/ index.life = 1 /\ index' = NoIndex
                 /\ excused' = (excused \cup adding) \ {v \in Cached : card[v].life = 1}
           /\ before' = before \ {v \in Cached : card[v].life = 1}
  <1> DEFINE gone == {v \in Cached : card[v].life = 1}
             lives == [v \in Videos |-> IF card[v].life > 1
                                        THEN [card[v] EXCEPT !.life = @ - 1]
                                        ELSE [data |-> NoCard, life |-> 0]]
             out == index.ids # {} /\ index.life = 1
  <1>1. /\ card' = lives
        /\ index' = (IF out THEN NoIndex ELSE IF index.life = Forever THEN index
                     ELSE [index EXCEPT !.life = @ - 1])
        /\ before' = before \ gone
        /\ excused' = (excused \cup (IF out THEN adding ELSE {})) \ gone
    BY DEF Tick
  <1>2. \A v \in Videos : card[v] \in [data : Profiles \cup {NoCard}, life : 0..CardLife]
    BY DEF CacheOK
  <1>3. \A v \in Videos : card[v].life \in 0..CardLife /\ card[v].data \in Profiles \cup {NoCard}
    BY <1>2
  <1>4. CardLife \in Nat
    BY LifePositive
  <1>5. ASSUME NEW v \in Videos
        PROVE  /\ lives[v] \in [data : Profiles \cup {NoCard}, life : 0..CardLife]
               /\ IF card[v].life > 1
                  THEN lives[v].data = card[v].data /\ lives[v].life = card[v].life - 1
                  ELSE lives[v].data = NoCard
    <2>1. CASE card[v].life > 1
      <3>1. card[v].life - 1 \in 0..CardLife
        BY <1>3, <1>4, <2>1
      <3>2. lives[v] = [card[v] EXCEPT !.life = card[v].life - 1]
        BY <2>1
      <3> HIDE DEF lives
      <3> QED
        BY <1>2, <2>1, <3>1, <3>2
    <2>2. CASE ~ (card[v].life > 1)
      <3>1. lives[v] = [data |-> NoCard, life |-> 0]
        BY <2>2
      <3> HIDE DEF lives
      <3> QED
        BY <2>2, <3>1, ForeverTyped
    <2> QED
      BY <2>1, <2>2
  <1>6. card' \in [Videos -> [data : Profiles \cup {NoCard}, life : 0..CardLife]]
    BY <1>1, <1>5
  <1>7. /\ NoIndex \in [ids : SUBSET Videos, life : 1..Forever]
        /\ NoIndex.life = Forever /\ NoIndex.ids = {}
    BY ForeverTyped DEF NoIndex
  <1>8. index.life \in 1..Forever /\ index.ids \in SUBSET Videos /\ Forever > 1
    BY LifePositive DEF CacheOK, Forever
  <1>9. CASE out
    BY <1>1, <1>5, <1>6, <1>7, <1>9 DEF CacheOK, Cached
  <1>10. CASE ~out /\ index.life = Forever
    <2>1. index' = index /\ index.life # 1
      BY <1>1, <1>8, <1>10
    <2> QED
      BY <1>1, <1>5, <1>6, <1>10, <2>1 DEF CacheOK, Cached
  <1>11. CASE ~out /\ index.life # Forever
    <2>1. index.ids # {} /\ index.life # 1
      BY <1>11 DEF CacheOK
    <2>2. index' = [index EXCEPT !.life = index.life - 1]
      BY <1>1, <1>11
    <2>3. index.life - 1 \in 1..Forever
      BY <1>8, <2>1, ForeverTyped
    <2>4. index' \in [ids : SUBSET Videos, life : 1..Forever] /\ index'.ids = index.ids
          /\ index'.life = index.life - 1
      BY <2>2, <2>3 DEF CacheOK
    <2>5. /\ before' = before \ gone /\ excused' = excused \ gone
          /\ before' \subseteq Videos /\ excused' \subseteq Videos
      BY <1>1, <1>11 DEF CacheOK
    <2>6. CacheOK'
      BY <1>6, <2>1, <2>4, <2>5 DEF CacheOK
    <2> QED
      BY <1>1, <1>5, <1>11, <2>1, <2>4, <2>5, <2>6
  <1> QED
    BY <1>9, <1>10, <1>11

LEMMA TypedCache ==
    ASSUME Typed
    PROVE  /\ card \in [Videos -> [data : Profiles \cup {NoCard}, life : 0..CardLife]]
           /\ index \in [ids : SUBSET Videos, life : 1..Forever]
           /\ before \subseteq Videos /\ excused \subseteq Videos /\ Cached \subseteq Videos
  BY DEF Typed, TypeOK, Cached

\* Steps that leave the rows and the answers alone.
LEMMA RedisTypes ==
    ASSUME Typed, NEW p \in Procs, Others(p),
           at' \in [Procs -> Labels], mem' \in [Procs -> Locals],
           UNCHANGED <<state, history, changes>>, faults' \in Nat,
           card' \in [Videos -> [data : Profiles \cup {NoCard}, life : 0..CardLife]],
           index' \in [ids : SUBSET Videos, life : 1..Forever],
           before' \subseteq Videos, excused' \subseteq Videos,
           at'[p] \in {"find", "delete", "announce"} => mem'[p].video \in Videos \ Free,
           at'[p] \in {"drop", "add", "renew"} => mem'[p].video \in Videos,
           at'[p] = "write" => mem'[p].data \in Profiles
    PROVE  Typed'
  <1>1. Free' = Free
    BY DEF state, Free
  <1>2. Named'
    BY <1>1, OthersNamed
  <1> QED
    BY <1>2 DEF Typed, TypeOK, state, history

LEMMA MaybeFault ==
    ASSUME Typed, Fault \/ UNCHANGED faults
    PROVE  faults' \in Nat
  BY FaultTypes DEF Typed, TypeOK

\* A goroutine whose locals change in one place.
LEMMA MemTypes ==
    ASSUME Typed, NEW p \in Procs, NEW label \in Labels, NEW data \in Locals,
           Goto(p, label), mem' = [mem EXCEPT ![p] = data]
    PROVE  /\ at' \in [Procs -> Labels] /\ at'[p] = label
           /\ mem' \in [Procs -> Locals] /\ mem'[p] = data
           /\ Others(p)
  <1>1. at' \in [Procs -> Labels] /\ at'[p] = label /\ \A q \in Procs \ {p} : at'[q] = at[q]
    BY GotoTypes
  <1>2. mem' \in [Procs -> Locals] /\ mem'[p] = data /\ \A q \in Procs \ {p} : mem'[q] = mem[q]
    BY DEF Typed, TypeOK
  <1> QED
    BY <1>1, <1>2 DEF Others

LEMMA StayTypes ==
    ASSUME Typed, NEW p \in Procs, NEW label \in Labels, Goto(p, label), UNCHANGED mem
    PROVE  /\ at' \in [Procs -> Labels] /\ at'[p] = label
           /\ mem' \in [Procs -> Locals] /\ mem'[p] = mem[p]
           /\ Others(p)
  BY GotoTypes DEF Others, Typed, TypeOK

LEMMA MemHas ==
    ASSUME Typed, NEW p \in Procs
    PROVE  /\ mem[p] \in Locals
           /\ mem[p].ids \subseteq Videos
           /\ mem[p].data \in Profiles \cup {NoCard}
           /\ mem[p].video \in Videos \cup {NoVideo}
           /\ at[p] \in Labels
  BY DEF Typed, TypeOK, Locals

LEMMA MemUpdates ==
    ASSUME NEW m \in Locals
    PROVE  /\ \A ids \in SUBSET Videos : /\ [m EXCEPT !.ids = ids] \in Locals
                                         /\ [m EXCEPT !.ids = ids].ids = ids
                                         /\ [m EXCEPT !.ids = ids].video = m.video
                                         /\ [m EXCEPT !.ids = ids].data = m.data
                                         /\ [m EXCEPT !.ids = ids].key = m.key
           /\ \A d \in Profiles \cup {NoCard} : /\ [m EXCEPT !.data = d] \in Locals
                                                /\ [m EXCEPT !.data = d].data = d
           /\ \A d \in Profiles \cup {NoCard}, ids \in SUBSET Videos :
                 [m EXCEPT !.ids = ids, !.data = d] \in Locals
  BY DEF Locals

\* Steps that end.
LEMMA EndTypes ==
    ASSUME Typed, NEW p \in Procs, Finish(p), UNCHANGED <<state, history, changes>>,
           Fault \/ UNCHANGED faults,
           card' \in [Videos -> [data : Profiles \cup {NoCard}, life : 0..CardLife]],
           index' \in [ids : SUBSET Videos, life : 1..Forever],
           before' \subseteq Videos, excused' \subseteq Videos
    PROVE  Typed'
  BY FinishTypes, MaybeFault, RedisTypes DEF Others

LEMMA FailTypes ==
    ASSUME Typed, NEW p \in Procs, NotFound(p) \/ StatementFails(p) \/ CutPipeline(p)
    PROVE  Typed'
  <1>1. Finish(p) /\ UNCHANGED <<state, history, changes>> /\ (Fault \/ UNCHANGED faults)
        /\ UNCHANGED <<card, index, before>>
    BY DEF NotFound, StatementFails, CutPipeline, redis
  <1>2. excused' \subseteq Videos
    BY TypedCache DEF NotFound, StatementFails, CutPipeline, redis
  <1> QED
    BY <1>1, <1>2, TypedCache, EndTypes

LEMMA FindTypes ==
    ASSUME Typed, NEW p \in Procs, Find(p)
    PROVE  Typed'
  <1>1. UNCHANGED <<state, redis, history, changes, faults>>
    BY DEF Find
  <1>2. CASE Finish(p)
    BY <1>1, <1>2, TypedCache, EndTypes DEF redis
  <1>3. CASE Goto(p, "delete") /\ UNCHANGED mem
    <2>1. mem[p].video \in Videos \ Free
      BY DEF Find, Typed, Named
    <2> QED
      BY <1>1, <1>3, <2>1, StayTypes, MaybeFault, TypedCache, RedisTypes DEF redis, Labels
  <1> QED
    BY <1>2, <1>3 DEF Find

LEMMA DeleteEffect ==
    ASSUME Typed, NEW p \in Procs, Delete(p)
    PROVE  /\ mem[p].video \in Videos \ Free
           /\ row' \in [Videos -> [status : {"absent", "published", "deleted"}, key : Keys \cup {NoKey}]]
           /\ \A v \in Videos : row'[v].key = row[v].key
           /\ \A v \in Videos : row'[v].status = "absent" <=> row[v].status = "absent"
  <1> DEFINE v == mem[p].video
  <1>1. v \in Videos \ Free
    BY DEF Delete, Typed, Named
  <1>2. row[v] \in [status : {"absent", "published", "deleted"}, key : Keys \cup {NoKey}]
        /\ row[v].status # "absent"
    BY <1>1 DEF Typed, TypeOK, Free
  <1>3. row' = [row EXCEPT ![v].status = "deleted"]
    BY <1>2 DEF Delete, UpdateStatus, DeleteBy, FindByIDAnyStatus
  <1>4. row' = [row EXCEPT ![v] = [row[v] EXCEPT !.status = "deleted"]]
    BY <1>3
  <1>5. /\ [row[v] EXCEPT !.status = "deleted"]
               \in [status : {"absent", "published", "deleted"}, key : Keys \cup {NoKey}]
        /\ [row[v] EXCEPT !.status = "deleted"].status = "deleted"
        /\ [row[v] EXCEPT !.status = "deleted"].key = row[v].key
    BY <1>2
  <1> HIDE DEF v
  <1>6. row \in [Videos -> [status : {"absent", "published", "deleted"}, key : Keys \cup {NoKey}]]
    BY DEF Typed, TypeOK
  <1>7. row' \in [Videos -> [status : {"absent", "published", "deleted"}, key : Keys \cup {NoKey}]]
        /\ row'[v].status = "deleted" /\ row'[v].key = row[v].key
        /\ \A w \in Videos \ {v} : row'[w] = row[w]
    BY <1>1, <1>4, <1>5, <1>6
  <1> QED
    BY <1>1, <1>2, <1>7 DEF v

LEMMA DeleteStepTypes ==
    ASSUME Typed, NEW p \in Procs, Delete(p)
    PROVE  Typed'
  <1>1. Goto(p, "drop") /\ UNCHANGED <<profile, card, index, excused, mem, history, changes, faults>>
    BY DEF Delete
  <1>2. /\ at' \in [Procs -> Labels] /\ at'[p] = "drop"
        /\ mem' \in [Procs -> Locals] /\ mem'[p] = mem[p] /\ Others(p)
    BY <1>1, StayTypes DEF Labels
  <1>3. Free' \subseteq Free
    BY DeleteEffect DEF Free
  <1>4. Named'
    BY <1>2, <1>3, DeleteEffect, OthersNamed
  <1>5. before' \subseteq Videos
    BY TypedCache DEF Delete
  <1> QED
    BY <1>1, <1>2, <1>4, <1>5, DeleteEffect DEF Typed, TypeOK, history

LEMMA LoadUserTypes ==
    ASSUME Typed, NEW p \in Procs, LoadUser(p)
    PROVE  Typed'
  <1>1. PICK d : d = Updated(profile, mem[p].data)
    OBVIOUS
  <1>2. d \in Profiles
    BY <1>1, MemHas DEF Updated, Typed, TypeOK
  <1>3. mem' = [mem EXCEPT ![p] = [mem[p] EXCEPT !.data = d]] /\ Goto(p, "write")
    BY <1>1 DEF LoadUser
  <1>4. [mem[p] EXCEPT !.data = d] \in Locals /\ [mem[p] EXCEPT !.data = d].data = d
    BY <1>2, MemHas, MemUpdates
  <1>5. /\ at' \in [Procs -> Labels] /\ at'[p] = "write"
        /\ mem' \in [Procs -> Locals] /\ mem'[p].data = d /\ Others(p)
    BY <1>3, <1>4, MemTypes DEF Labels
  <1>6. UNCHANGED <<state, redis, history, changes, faults>>
    BY DEF LoadUser
  <1> QED
    BY <1>2, <1>5, <1>6, MaybeFault, TypedCache, RedisTypes DEF redis

LEMMA WriteTypes ==
    ASSUME Typed, NEW p \in Procs, Write(p)
    PROVE  Typed'
  <1>1. profile' \in Profiles
    BY DEF Write, UpdateProfile, Typed, Named
  <1>2. /\ at' \in [Procs -> Labels] /\ at'[p] = "collect"
        /\ mem' \in [Procs -> Locals] /\ Others(p)
    BY NothingTyped, MemTypes DEF Write, Labels
  <1>3. UNCHANGED <<row, card, index, excused, history, changes, faults>>
    BY DEF Write
  <1>4. Named'
    BY <1>2, <1>3, OthersNamed DEF Free
  <1>5. before' \subseteq Videos
    BY TypedCache DEF Write
  <1> QED
    BY <1>1, <1>2, <1>3, <1>4, <1>5 DEF Typed, TypeOK, history

LEMMA CollectTypes ==
    ASSUME Typed, NEW p \in Procs, Collect(p)
    PROVE  Typed'
  <1>1. UNCHANGED <<state, card, index, before, history, changes>> /\ (Fault \/ UNCHANGED faults)
    BY DEF Collect
  <1>2. excused' \subseteq Videos
    BY TypedCache DEF Collect
  <1>3. CASE Finish(p)
    BY <1>1, <1>2, <1>3, TypedCache, EndTypes
  <1>4. CASE mem' = [mem EXCEPT ![p].ids = index.ids] /\ Goto(p, "purge")
    <2>1. index.ids \in SUBSET Videos
      BY TypedCache
    <2>2. mem' = [mem EXCEPT ![p] = [mem[p] EXCEPT !.ids = index.ids]]
      BY <1>4
    <2>3. [mem[p] EXCEPT !.ids = index.ids] \in Locals
      BY <2>1, MemHas, MemUpdates
    <2>4. /\ at' \in [Procs -> Labels] /\ at'[p] = "purge"
          /\ mem' \in [Procs -> Locals] /\ Others(p)
      BY <1>4, <2>2, <2>3, MemTypes DEF Labels
    <2> QED
      BY <1>1, <1>2, <2>4, MaybeFault, TypedCache, RedisTypes
  <1> QED
    BY <1>3, <1>4 DEF Collect

LEMMA RemoveTypes ==
    ASSUME Typed, CacheOK, NEW p \in Procs, Drop(p) \/ Purge(p)
    PROVE  Typed'
  <1>1. Finish(p) /\ UNCHANGED <<state, history, changes>> /\ (Fault \/ UNCHANGED faults)
    BY DEF Drop, Purge
  <1>2. /\ card' \in [Videos -> [data : Profiles \cup {NoCard}, life : 0..CardLife]]
        /\ index' \in [ids : SUBSET Videos, life : 1..Forever]
        /\ before' \subseteq Videos /\ excused' \subseteq Videos
    <2>1. CASE DeleteCard(mem[p].video)
      BY <2>1, DeleteTypes DEF CacheOK
    <2>2. CASE DeleteCollected(mem[p].ids)
      BY <2>2, CollectedTypes DEF CacheOK
    <2>3. CASE UNCHANGED <<card, index, before>>
               /\ excused' \in {excused \cup (Cached \cap {mem[p].video}), excused \cup Cached}
      BY <2>3, TypedCache
    <2> QED
      BY <2>1, <2>2, <2>3 DEF Drop, Purge
  <1> QED
    BY <1>1, <1>2, EndTypes

LEMMA ReadCardsTypes ==
    ASSUME Typed, NEW p \in Procs, ReadCards(p) \/ LoadCards(p)
    PROVE  Typed'
  <1>1. UNCHANGED <<state, redis, history, changes>> /\ (Fault \/ UNCHANGED faults)
    BY DEF ReadCards, LoadCards
  <1>2. CASE Finish(p)
    BY <1>1, <1>2, TypedCache, EndTypes DEF redis
  <1>3. CASE \E ids \in SUBSET Videos : Goto(p, "load") /\ mem' = [mem EXCEPT ![p].ids = ids]
    <2>1. PICK ids \in SUBSET Videos : Goto(p, "load") /\ mem' = [mem EXCEPT ![p].ids = ids]
      BY <1>3
    <2>2. mem' = [mem EXCEPT ![p] = [mem[p] EXCEPT !.ids = ids]]
      BY <2>1
    <2>3. [mem[p] EXCEPT !.ids = ids] \in Locals
      BY MemHas, MemUpdates
    <2>4. /\ at' \in [Procs -> Labels] /\ at'[p] = "load"
          /\ mem' \in [Procs -> Locals] /\ Others(p)
      BY <2>1, <2>2, <2>3, MemTypes DEF Labels
    <2> QED
      BY <1>1, <2>4, MaybeFault, TypedCache, RedisTypes DEF redis
  <1>4. CASE LoadCards(p) /\ mem[p].ids \cap Listed # {}
    <2>1. PICK ids : ids = mem[p].ids \cap Listed
      OBVIOUS
    <2>2. ids \in SUBSET Videos /\ profile \in Profiles \cup {NoCard}
      BY <2>1 DEF Listed, Typed, TypeOK
    <2>3. mem' = [mem EXCEPT ![p] = [mem[p] EXCEPT !.ids = ids, !.data = profile]] /\ Goto(p, "set")
      BY <1>4, <2>1 DEF LoadCards
    <2>4. [mem[p] EXCEPT !.ids = ids, !.data = profile] \in Locals
      BY <2>2, MemHas, MemUpdates
    <2>5. /\ at' \in [Procs -> Labels] /\ at'[p] = "set"
          /\ mem' \in [Procs -> Locals] /\ Others(p)
      BY <2>3, <2>4, MemTypes DEF Labels
    <2> QED
      BY <1>1, <2>5, MaybeFault, TypedCache, RedisTypes DEF redis
  <1>5. CASE ReadCards(p)
    <2>1. PICK missing \in {mem[p].ids \ Cached, mem[p].ids} :
              IF missing = {} THEN Finish(p)
              ELSE Goto(p, "load") /\ mem' = [mem EXCEPT ![p].ids = missing]
      BY <1>5 DEF ReadCards
    <2>2. missing \in SUBSET Videos
      BY MemHas
    <2> QED
      BY <1>2, <1>3, <2>1, <2>2
  <1> QED
    BY <1>2, <1>4, <1>5 DEF LoadCards

LEMMA StoreTypes ==
    ASSUME Typed, CacheOK, NEW p \in Procs, StoreCard(p) \/ AddCard(p) \/ Renew(p)
    PROVE  Typed'
  <1>1. UNCHANGED <<state, history, changes>> /\ UNCHANGED faults
    BY DEF StoreCard, AddCard, Renew
  <1>2. CASE StoreCard(p)
    <2>1. PICK v \in mem[p].ids :
            /\ SetCard(v, mem[p].data)
            /\ mem' = [mem EXCEPT ![p].video = v, ![p].ids = mem[p].ids \ {v}]
      BY <1>2 DEF StoreCard
    <2>2. v \in Videos /\ mem[p].ids \ {v} \in SUBSET Videos /\ mem[p].data \in Profiles \cup {NoCard}
      BY MemHas
    <2>3. PICK ids \in SUBSET Videos : ids = mem[p].ids \ {v}
      BY <2>2
    <2>4. mem' = [mem EXCEPT ![p] = [mem[p] EXCEPT !.video = v, !.ids = ids]]
      BY <2>1, <2>3
    <2>5. [mem[p] EXCEPT !.video = v, !.ids = ids] \in Locals
          /\ [mem[p] EXCEPT !.video = v, !.ids = ids].video = v
      BY <2>2, <2>3, MemHas DEF Locals
    <2>6. Goto(p, "add")
      BY <1>2 DEF StoreCard
    <2>7. /\ at' \in [Procs -> Labels] /\ at'[p] = "add"
          /\ mem' \in [Procs -> Locals] /\ mem'[p].video = v /\ Others(p)
      BY <2>4, <2>5, <2>6, MemTypes DEF Labels
    <2>8. CacheOK'
      BY <2>1, <2>2, SetCardTypes
    <2> QED
      BY <1>1, <2>2, <2>7, <2>8, MaybeFault, RedisTypes DEF CacheOK
  <1>3. CASE AddCard(p)
    <2>1. mem[p].video \in Videos
      BY <1>3 DEF AddCard, Typed, Named
    <2>2. CacheOK'
      BY <1>3, <2>1, AddTypes DEF AddCard
    <2>3. /\ at' \in [Procs -> Labels] /\ at'[p] = "renew"
          /\ mem' \in [Procs -> Locals] /\ mem'[p] = mem[p] /\ Others(p)
      BY <1>3, StayTypes DEF AddCard, Labels
    <2> QED
      BY <1>1, <2>1, <2>2, <2>3, MaybeFault, RedisTypes DEF CacheOK
  <1>4. CASE Renew(p)
    <2>1. CacheOK'
      BY <1>4, RenewTypes DEF Renew
    <2>2. CASE Finish(p)
      BY <1>1, <2>1, <2>2, EndTypes DEF CacheOK
    <2>3. CASE Goto(p, "set") /\ UNCHANGED mem
      BY <1>1, <2>1, <2>3, StayTypes, MaybeFault, RedisTypes DEF CacheOK, Labels
    <2> QED
      BY <1>4, <2>2, <2>3 DEF Renew
  <1> QED
    BY <1>2, <1>3, <1>4

LEMMA AddingTyped ==
    ASSUME Typed
    PROVE  Adding \in SUBSET Videos /\ Unadded \in SUBSET Videos
  BY DEF Typed, Named, Adding, Unadded

LEMMA TimeTypes ==
    ASSUME Typed, CacheOK, TimePasses
    PROVE  Typed'
  <1>1. UNCHANGED <<state, at, mem, history, changes, faults>>
    BY DEF TimePasses, locals
  <1>2. CacheOK'
    BY AddingTyped, TickEffect DEF TimePasses
  <1>3. Named'
    BY <1>1 DEF Typed, Named, state, Free
  <1> QED
    BY <1>1, <1>2, <1>3 DEF Typed, TypeOK, CacheOK, state, history

LEMMA StepTypes ==
    ASSUME Typed, CacheOK, Next
    PROVE  Typed'
  <1>1. CASE TimePasses
    BY <1>1, TimeTypes
  <1>2. ASSUME NEW p \in Procs, Step(p) PROVE Typed'
    BY <1>2, CreateTypes, FindTypes, DeleteStepTypes, RemoveTypes, LoadUserTypes, WriteTypes,
       CollectTypes, ReadCardsTypes, StoreTypes DEF Step
  <1>3. ASSUME NEW p \in Procs, CutPipeline(p) \/ StatementFails(p) \/ NotFound(p) PROVE Typed'
    BY <1>3, FailTypes
  <1> QED
    BY <1>1, <1>2, <1>3, StartTypes DEF Next

-----------------------------------------------------------------------------
(* The cards of the author's set, and the changes that look for them. *)

LEMMA CacheIsOK == Typed /\ CardsInSet => CacheOK
  BY DEF Typed, TypeOK, CacheOK, CardsInSet

\* What a step of one goroutine does to the cards that are being added.
LEMMA AddingMoves ==
    ASSUME Typed, NEW p \in Procs, Others(p)
    PROVE  /\ \A v \in Unadded : v \in Unadded' \/ (at[p] = "add" /\ v = mem[p].video)
           /\ \A v \in Adding : v \in Adding' \/ (at[p] = "renew" /\ v = mem[p].video)
           /\ at'[p] = "add" => mem'[p].video \in Unadded'
           /\ at'[p] = "renew" => mem'[p].video \in Adding'
  <1>1. ASSUME NEW v \in Unadded PROVE v \in Unadded' \/ (at[p] = "add" /\ v = mem[p].video)
    <2>1. PICK q \in Procs : at[q] = "add" /\ mem[q].video = v
      BY DEF Unadded
    <2> QED
      BY <2>1 DEF Unadded, Others
  <1>2. ASSUME NEW v \in Adding PROVE v \in Adding' \/ (at[p] = "renew" /\ v = mem[p].video)
    <2>1. PICK q \in Procs : at[q] = "renew" /\ mem[q].video = v
      BY DEF Adding
    <2> QED
      BY <2>1 DEF Adding, Others
  <1> QED
    BY <1>1, <1>2 DEF Unadded, Adding

\* An invalidation under way stays under way until its own last step.
LEMMA PendingStays ==
    ASSUME NEW p \in Procs, Others(p), at[p] \notin {"collect", "purge", "drop"},
           NEW v, Pending(v)
    PROVE  Pending(v)'
  BY DEF Pending, Others

\* Steps that leave Redis alone, but for what they excuse.
LEMMA QuietKeeps ==
    ASSUME Typed, CardsInSet, ChangesReachCards, NEW p \in Procs, Others(p),
           UNCHANGED <<card, index, before>>, excused \subseteq excused',
           at[p] \in {"add", "renew"} /\ mem[p].video \in Cached => mem[p].video \in excused',
           at[p] \notin {"collect", "purge", "drop"}
    PROVE  CardsInSet' /\ ChangesReachCards'
  <1>1. Cached' = Cached
    BY DEF Cached
  <1>2. ASSUME NEW v \in Cached, v \notin excused', v \notin Unadded'
        PROVE  v \in index.ids /\ (v \in Adding' \/ card[v].life <= index.life)
    BY <1>2, AddingMoves DEF CardsInSet
  <1>3. CardsInSet'
    BY <1>1, <1>2 DEF CardsInSet
  <1>4. ChangesReachCards'
    BY PendingStays DEF ChangesReachCards
  <1> QED
    BY <1>3, <1>4

LEMMA FinishOthers ==
    ASSUME Typed, NEW p \in Procs, Finish(p)
    PROVE  Others(p) /\ at'[p] = "idle"
  BY FinishTypes DEF Others

\* Which goroutine moves, and where it was.
LEMMA QuietSteps ==
    ASSUME Typed, CardsInSet, ChangesReachCards, NEW p \in Procs,
           \/ Lookup(p) \/ Save(p) \/ Relookup(p) \/ Announce(p)
           \/ Find(p) \/ LoadUser(p) \/ ReadCards(p) \/ LoadCards(p)
           \/ StatementFails(p) \/ NotFound(p)
           \/ \E k \in Keys \cup {NoKey} : StartCreate(p, k)
           \/ \E v \in Videos \ Free : StartDelete(p, v)
           \/ \E data \in Profiles \cup {NoCard} : StartProfile(p, data)
           \/ StartRead(p)
    PROVE  CardsInSet' /\ ChangesReachCards'
  <1>1. /\ UNCHANGED redis
        /\ at[p] \notin {"add", "renew", "collect", "purge", "drop"}
    BY DEF Lookup, Save, Relookup, Announce, Find, LoadUser, ReadCards, LoadCards, StatementFails,
           NotFound, StartCreate, StartDelete, StartProfile, StartRead, BeginChange, Begin
  <1>2. Others(p)
    <2>1. mem \in [Procs -> Locals] /\ at \in [Procs -> Labels]
      BY DEF Typed, TypeOK
    <2>2. \A q \in Procs \ {p} : at'[q] = at[q]
      BY <2>1 DEF Lookup, Save, Relookup, Announce, Find, LoadUser, ReadCards, LoadCards, StatementFails,
           NotFound, StartCreate, StartDelete, StartProfile, StartRead, BeginChange, Begin, Answer, Finish, Goto
    <2>3. \A q \in Procs \ {p} : mem'[q] = mem[q]
      BY <2>1 DEF Lookup, Save, Relookup, Announce, Find, LoadUser, ReadCards, LoadCards, StatementFails,
           NotFound, StartCreate, StartDelete, StartProfile, StartRead, BeginChange, Begin, Answer, Finish, Goto
    <2> QED
      BY <2>2, <2>3 DEF Others
  <1> QED
    BY <1>1, <1>2, QuietKeeps DEF redis

LEMMA CutKeeps ==
    ASSUME Typed, CardsInSet, ChangesReachCards, NEW p \in Procs, CutPipeline(p)
    PROVE  CardsInSet' /\ ChangesReachCards'
  BY FinishOthers, QuietKeeps DEF CutPipeline

\* The change commits: its own invalidation is still to come.
LEMMA ChangeKeeps ==
    ASSUME Typed, CardsInSet, ChangesReachCards, NEW p \in Procs, Delete(p) \/ Write(p)
    PROVE  CardsInSet' /\ ChangesReachCards'
  <1>1. UNCHANGED <<card, index, excused>> /\ at[p] \notin {"add", "renew", "collect", "purge", "drop"}
    BY DEF Delete, Write
  <1>2. CASE Delete(p)
    <2>1. at'[p] = "drop" /\ mem'[p] = mem[p] /\ Others(p)
      BY <1>2, StayTypes DEF Delete, Labels
    <2>2. before' = before \cup (Cached \cap {mem[p].video})
      BY <1>2 DEF Delete
    <2>3. ASSUME NEW v \in before', v \notin excused' PROVE Pending(v)'
      <3>1. CASE v = mem[p].video
        BY <2>1, <3>1 DEF Pending
      <3>2. CASE v # mem[p].video
        BY <1>1, <2>1, <2>2, <2>3, <3>2, PendingStays DEF ChangesReachCards
      <3> QED
        BY <3>1, <3>2
    <2>4. CardsInSet'
      BY <1>1, <2>1, <2>2, AddingMoves DEF CardsInSet, Cached
    <2> QED
      BY <2>3, <2>4 DEF ChangesReachCards
  <1>3. CASE Write(p)
    <2>1. at'[p] = "collect" /\ Others(p)
      BY <1>3, NothingTyped, MemTypes DEF Write, Labels
    <2>2. before' = before \cup Cached
      BY <1>3 DEF Write
    <2>3. ASSUME NEW v \in before' PROVE Pending(v)'
      BY <2>1 DEF Pending
    <2>4. CardsInSet'
      BY <1>1, <2>1, <2>2, AddingMoves DEF CardsInSet, Cached
    <2> QED
      BY <2>3, <2>4 DEF ChangesReachCards
  <1> QED
    BY <1>2, <1>3

LEMMA DropKeeps ==
    ASSUME Typed, CardsInSet, ChangesReachCards, NEW p \in Procs, Drop(p)
    PROVE  CardsInSet' /\ ChangesReachCards'
  <1>1. Others(p) /\ at'[p] = "idle" /\ at[p] = "drop"
    BY FinishOthers DEF Drop
  <1>2. PICK v : v = mem[p].video
    OBVIOUS
  <1>3. ASSUME NEW w, w # v, Pending(w) PROVE Pending(w)'
    BY <1>1, <1>2, <1>3 DEF Pending, Others
  <1>4. CASE DeleteCard(v)
    <2>1. card' = Removed({v}) /\ before' = before \ {v} /\ excused' = excused \ {v} /\ index' = index
      BY <1>4 DEF DeleteCard
    <2>2. \A w \in Videos : card'[w] = IF w = v THEN [data |-> NoCard, life |-> 0] ELSE card[w]
      BY <2>1, CacheIsOK, RemovedTypes
    <2>3. Cached' = Cached \ {v} /\ \A w \in Cached' : card'[w] = card[w]
      BY <2>2 DEF Cached
    <2>4. CardsInSet'
      BY <1>1, <2>1, <2>3, AddingMoves DEF CardsInSet
    <2> QED
      BY <1>3, <2>1, <2>4 DEF ChangesReachCards
  <1>5. CASE excused' = excused \cup (Cached \cap {v}) /\ UNCHANGED <<card, index, before>>
    <2>1. CardsInSet'
      BY <1>1, <1>5, AddingMoves DEF CardsInSet, Cached
    <2>2. \A w \in before' \ excused' : w # v /\ w \in before \ excused
      BY <1>5 DEF CardsInSet
    <2> QED
      BY <1>3, <2>1, <2>2 DEF ChangesReachCards
  <1> QED
    BY <1>2, <1>4, <1>5 DEF Drop

LEMMA CollectKeeps ==
    ASSUME Typed, CardsInSet, ChangesReachCards, NEW p \in Procs, Collect(p)
    PROVE  CardsInSet' /\ ChangesReachCards'
  <1>1. UNCHANGED <<card, index, before>> /\ at[p] = "collect"
    BY DEF Collect
  <1>2. CASE /\ mem' = [mem EXCEPT ![p].ids = index.ids] /\ Goto(p, "purge")
             /\ excused' = excused \cup (Unadded \cap Cached)
    <2>1. index.ids \in SUBSET Videos
      BY TypedCache
    <2>2. mem' = [mem EXCEPT ![p] = [mem[p] EXCEPT !.ids = index.ids]]
      BY <1>2
    <2>3. [mem[p] EXCEPT !.ids = index.ids] \in Locals /\ [mem[p] EXCEPT !.ids = index.ids].ids = index.ids
      BY <2>1, MemHas, MemUpdates
    <2>4. at'[p] = "purge" /\ mem'[p].ids = index.ids /\ Others(p)
      BY <1>2, <2>2, <2>3, MemTypes DEF Labels
    <2>5. CardsInSet'
      BY <1>1, <1>2, <2>4, AddingMoves DEF CardsInSet, Cached
    <2>6. ASSUME NEW v \in before' \ excused' PROVE v \in index.ids
      BY <1>1, <1>2 DEF CardsInSet
    <2> QED
      BY <2>4, <2>5, <2>6 DEF ChangesReachCards, Pending
  <1>3. CASE excused' = excused \cup Cached /\ Finish(p)
    <2>1. Others(p)
      BY <1>3, FinishOthers
    <2> QED
      BY <1>1, <1>3, <2>1, AddingMoves DEF CardsInSet, Cached, ChangesReachCards
  <1> QED
    BY <1>2, <1>3 DEF Collect

LEMMA PurgeKeeps ==
    ASSUME Typed, CardsInSet, ChangesReachCards, NEW p \in Procs, Purge(p)
    PROVE  CardsInSet' /\ ChangesReachCards'
  <1>1. Others(p)
    BY FinishOthers DEF Purge
  <1>2. PICK ids : ids = mem[p].ids
    OBVIOUS
  <1>3. CASE DeleteCollected(ids)
    <2>1. /\ card' = Removed(ids) /\ before' = before \ ids /\ index' = NoIndex
          /\ excused' = (excused \cup Cached) \ ids
      BY <1>3 DEF DeleteCollected
    <2>2. \A w \in Videos : card'[w] = IF w \in ids THEN [data |-> NoCard, life |-> 0] ELSE card[w]
      BY <2>1, CacheIsOK, RemovedTypes
    <2>3. Cached' = Cached \ ids /\ \A w \in Cached' : card'[w] = card[w]
      BY <2>2 DEF Cached
    <2>4. index'.life = Forever
      BY <2>1 DEF NoIndex
    <2> QED
      BY <2>1, <2>3, <2>4 DEF CardsInSet, ChangesReachCards
  <1>4. CASE excused' = excused \cup Cached /\ UNCHANGED <<card, index, before>>
    BY <1>4 DEF CardsInSet, Cached, ChangesReachCards
  <1> QED
    BY <1>2, <1>3, <1>4 DEF Purge

LEMMA StoreKeeps ==
    ASSUME Typed, CardsInSet, ChangesReachCards, NEW p \in Procs, StoreCard(p)
    PROVE  CardsInSet' /\ ChangesReachCards'
  <1>1. PICK v \in mem[p].ids :
          /\ SetCard(v, mem[p].data)
          /\ mem' = [mem EXCEPT ![p].video = v, ![p].ids = mem[p].ids \ {v}]
    BY DEF StoreCard
  <1>2. v \in Videos /\ mem[p].ids \ {v} \in SUBSET Videos
    BY MemHas
  <1>3. PICK ids \in SUBSET Videos : ids = mem[p].ids \ {v}
    BY <1>2
  <1>4. mem' = [mem EXCEPT ![p] = [mem[p] EXCEPT !.video = v, !.ids = ids]]
    BY <1>1, <1>3
  <1>5. [mem[p] EXCEPT !.video = v, !.ids = ids] \in Locals
        /\ [mem[p] EXCEPT !.video = v, !.ids = ids].video = v
    BY <1>2, <1>3, MemHas DEF Locals
  <1>6. at'[p] = "add" /\ mem'[p].video = v /\ Others(p)
    BY <1>4, <1>5, MemTypes DEF StoreCard, Labels
  <1>7. v \in Unadded' /\ at[p] = "set"
    BY <1>6, AddingMoves DEF StoreCard
  <1>8. /\ before' = before \ {v} /\ excused' = excused \ {v} /\ index' = index
        /\ card' = [card EXCEPT ![v] = [data |-> mem[p].data, life |-> CardLife]]
    BY <1>1 DEF SetCard
  <1>9. /\ card'[v].life = CardLife
        /\ \A w \in Videos \ {v} : card'[w] = card[w]
    BY <1>2, <1>8, TypedCache
  <1>10. \A w \in Videos : w # v => (w \in Cached' <=> w \in Cached)
    BY <1>9 DEF Cached
  <1>11. /\ before' \subseteq Cached'
         /\ \A w \in Cached' : card'[w].life # 0
    BY <1>8, <1>9, <1>10, LifePositive DEF CardsInSet, Cached
  <1>12. ASSUME NEW w \in Cached', w \notin excused', w \notin Unadded'
         PROVE  w \in index'.ids /\ (w \in Adding' \/ card'[w].life <= index'.life)
    <2>1. w # v /\ w \in Cached /\ w \in Videos
      BY <1>7, <1>10, <1>12 DEF Cached
    <2>2. w \notin excused /\ w \notin Unadded
      BY <1>6, <1>7, <1>8, <1>12, <2>1, AddingMoves
    <2>3. w \in index.ids /\ (w \in Adding \/ card[w].life <= index.life)
      BY <2>1, <2>2 DEF CardsInSet
    <2> QED
      BY <1>6, <1>7, <1>8, <1>9, <2>1, <2>3, AddingMoves
  <1>13. CardsInSet'
    BY <1>8, <1>11, <1>12 DEF CardsInSet
  <1>14. ChangesReachCards'
    BY <1>6, <1>7, <1>8, PendingStays DEF ChangesReachCards
  <1> QED
    BY <1>13, <1>14

LEMMA AddKeeps ==
    ASSUME Typed, CardsInSet, ChangesReachCards, NEW p \in Procs, AddCard(p)
    PROVE  CardsInSet' /\ ChangesReachCards'
  <1>1. PICK v \in Videos : v = mem[p].video
    BY DEF AddCard, Typed, Named
  <1>2. AddToIndex(v) /\ at[p] = "add"
    BY <1>1 DEF AddCard
  <1>3. at'[p] = "renew" /\ mem'[p].video = v /\ Others(p)
    BY <1>1, StayTypes DEF AddCard, Labels
  <1>4. index'.ids = index.ids \cup {v} /\ index'.life = index.life /\ CacheOK'
    BY <1>2, CacheIsOK, AddTypes
  <1>5. UNCHANGED <<card, before, excused>> /\ Cached' = Cached
    BY <1>2 DEF AddToIndex, Cached
  <1>6. v \in Adding'
    BY <1>3, AddingMoves
  <1>7. ASSUME NEW w \in Cached', w \notin excused', w \notin Unadded'
        PROVE  w \in index'.ids /\ (w \in Adding' \/ card'[w].life <= index'.life)
    <2>1. CASE w = v
      BY <1>4, <1>6, <2>1
    <2>2. CASE w # v
      <3>1. w \notin Unadded
        BY <1>1, <1>3, <1>7, <2>2, AddingMoves
      <3>2. w \in index.ids /\ (w \in Adding \/ card[w].life <= index.life)
        BY <1>5, <1>7, <3>1 DEF CardsInSet
      <3> QED
        BY <1>2, <1>3, <1>4, <1>5, <3>2, AddingMoves
    <2> QED
      BY <2>1, <2>2
  <1>8. CardsInSet'
    BY <1>4, <1>5, <1>7 DEF CardsInSet, CacheOK
  <1>9. ChangesReachCards'
    BY <1>2, <1>3, <1>5, PendingStays DEF ChangesReachCards
  <1> QED
    BY <1>8, <1>9

LEMMA RenewKeeps ==
    ASSUME Typed, CardsInSet, ChangesReachCards, NEW p \in Procs, Renew(p)
    PROVE  CardsInSet' /\ ChangesReachCards'
  <1>1. RenewIndex /\ at[p] = "renew"
    BY DEF Renew
  <1>2. Others(p) /\ at'[p] \in {"idle", "set"}
    <2>1. CASE Finish(p)
      BY <2>1, FinishOthers
    <2>2. CASE Goto(p, "set") /\ UNCHANGED mem
      BY <2>2, StayTypes DEF Labels
    <2> QED
      BY <2>1, <2>2 DEF Renew
  <1>3. CacheOK' /\ index'.ids = index.ids /\ (index.ids # {} => index'.life = CardLife)
    BY <1>1, CacheIsOK, RenewTypes
  <1>4. UNCHANGED <<card, before, excused>> /\ Cached' = Cached
    BY <1>1 DEF RenewIndex, Cached
  <1>5. ASSUME NEW w \in Cached', w \notin excused', w \notin Unadded'
        PROVE  w \in index'.ids /\ (w \in Adding' \/ card'[w].life <= index'.life)
    <2>1. w \notin Unadded
      BY <1>1, <1>2, <1>5, AddingMoves
    <2>2. w \in index.ids
      BY <1>4, <1>5, <2>1 DEF CardsInSet
    <2>3. card[w].life \in 0..CardLife /\ CardLife \in Nat
      BY <1>4, <1>5, TypedCache, LifePositive DEF Cached
    <2> QED
      BY <1>3, <1>4, <2>2, <2>3
  <1>6. CardsInSet'
    BY <1>3, <1>4, <1>5 DEF CardsInSet, CacheOK
  <1>7. ChangesReachCards'
    BY <1>1, <1>2, <1>4, PendingStays DEF ChangesReachCards
  <1> QED
    BY <1>6, <1>7

LEMMA TimeKeeps ==
    ASSUME Typed, CardsInSet, ChangesReachCards, TimePasses
    PROVE  CardsInSet' /\ ChangesReachCards'
  <1>1. Tick(Adding) /\ Adding \in SUBSET Videos /\ UNCHANGED <<at, mem>>
    BY AddingTyped DEF TimePasses, locals
  <1>2. Adding' = Adding /\ Unadded' = Unadded
    BY <1>1 DEF Adding, Unadded
  <1> DEFINE gone == {v \in Cached : card[v].life = 1}
  <1>3. /\ CacheOK'
        /\ \A v \in Videos : IF card[v].life > 1
                             THEN card'[v].data = card[v].data /\ card'[v].life = card[v].life - 1
                             ELSE card'[v].data = NoCard
        /\ \/ index'.ids = index.ids /\ index.life # 1
              /\ index'.life = (IF index.life = Forever THEN Forever ELSE index.life - 1)
              /\ excused' = excused \ gone
           \/ index.life = 1 /\ index' = NoIndex
              /\ excused' = (excused \cup Adding) \ gone
        /\ before' = before \ gone
    BY <1>1, CacheIsOK, TickEffect
  <1>4. \A v \in Videos : card[v].life \in 0..CardLife
    BY TypedCache
  <1>5. \A v \in Cached' : v \in Cached \ gone /\ card[v].life > 1 /\ card'[v].life = card[v].life - 1
    BY <1>3, <1>4 DEF Cached
  <1>6. \A v \in Cached \ gone : v \in Cached'
    BY <1>3, <1>4, LifePositive DEF Cached, CardsInSet
  <1>7. index.life \in 1..Forever /\ Forever = CardLife + 1 /\ CardLife \in Nat
    BY TypedCache, LifePositive DEF Forever
  <1>8. ASSUME NEW w \in Cached', w \notin excused', w \notin Unadded'
        PROVE  w \in index'.ids /\ (w \in Adding' \/ card'[w].life <= index'.life)
    <2>1. w \in Cached \ gone /\ card[w].life > 1 /\ card'[w].life = card[w].life - 1
          /\ card[w].life \in 0..CardLife
      BY <1>4, <1>5 DEF Cached
    <2>2. w \notin excused
      BY <1>3, <1>8, <2>1
    <2>3. w \in index.ids /\ (w \in Adding \/ card[w].life <= index.life)
      BY <1>2, <1>8, <2>1, <2>2 DEF CardsInSet
    <2>4. ~(index.life = 1 /\ index' = NoIndex /\ excused' = (excused \cup Adding) \ gone)
      BY <1>8, <2>1, <2>3
    <2>5. index'.ids = index.ids /\ index.life # 1
          /\ index'.life = (IF index.life = Forever THEN Forever ELSE index.life - 1)
      BY <1>3, <2>4
    <2> QED
      BY <1>2, <1>7, <2>1, <2>3, <2>5
  <1>9. before' \subseteq Cached' /\ \A v \in Cached' : card'[v].life # 0
    BY <1>3, <1>4, <1>5, <1>6 DEF CardsInSet, Cached
  <1>10. CardsInSet'
    BY <1>3, <1>8, <1>9 DEF CardsInSet, CacheOK
  <1>11. ASSUME NEW v \in before' \ excused' PROVE Pending(v)'
    <2>1. v \in before \ excused
      BY <1>3, <1>11
    <2> QED
      BY <1>1, <2>1 DEF ChangesReachCards, Pending
  <1> QED
    BY <1>10, <1>11 DEF ChangesReachCards

LEMMA CacheKept ==
    ASSUME Typed, CardsInSet, ChangesReachCards, Next
    PROVE  CardsInSet' /\ ChangesReachCards'
  <1>1. CASE TimePasses
    BY <1>1, TimeKeeps
  <1>2. ASSUME NEW p \in Procs, Step(p) PROVE CardsInSet' /\ ChangesReachCards'
    BY <1>2, QuietSteps, ChangeKeeps, DropKeeps, CollectKeeps, PurgeKeeps, StoreKeeps, AddKeeps,
       RenewKeeps DEF Step
  <1> QED
    BY <1>1, <1>2, QuietSteps, CutKeeps DEF Next

-----------------------------------------------------------------------------
(* Creations and their keys. *)

Catalogued == KeysUnique /\ CreatorsAnnounce /\ AnswersKnown

\* Steps that create nothing and announce nothing.
LEMMA RowsKeep ==
    ASSUME Typed, Catalogued, NEW p \in Procs, Others(p),
           \A v \in Videos : row'[v].key = row[v].key,
           \A v \in Videos : row'[v].status = "absent" <=> row[v].status = "absent",
           at'[p] # "announce", UNCHANGED <<answers, announced>>
    PROVE  Catalogued'
  <1>1. \A k : FindByAuthorAndIdempotencyKey(k)' = FindByAuthorAndIdempotencyKey(k)
    BY DEF FindByAuthorAndIdempotencyKey
  <1>2. Free' = Free
    BY DEF Free
  <1>3. KeysUnique' /\ AnswersKnown'
    BY <1>1 DEF Catalogued, KeysUnique, AnswersKnown
  <1>4. ASSUME NEW q \in Procs, at'[q] = "announce"
        PROVE  q # p /\ at[q] = "announce" /\ mem'[q] = mem[q] /\ mem[q].video \in Videos
    BY <1>4 DEF Others, Typed, Named
  <1>5. CreatorsAnnounce'
    BY <1>2, <1>4 DEF Catalogued, CreatorsAnnounce
  <1> QED
    BY <1>3, <1>5 DEF Catalogued

LEMMA AnswerEffect ==
    ASSUME Typed, NEW p \in Procs, NEW v \in Videos, Answer(p, v)
    PROVE  /\ Others(p) /\ at'[p] = "idle"
           /\ \A k \in Keys : answers'[k] = IF k = mem[p].key THEN answers[k] \cup {v} ELSE answers[k]
  BY FinishOthers DEF Answer

\* An answer names the video of the key.
LEMMA AnswerKeeps ==
    ASSUME Typed, Catalogued, NEW p \in Procs, NEW v \in Videos, Answer(p, v), UNCHANGED row,
           mem[p].key \in Keys => v \in FindByAuthorAndIdempotencyKey(mem[p].key)
    PROVE  KeysUnique' /\ AnswersKnown'
  <1>1. \A k : FindByAuthorAndIdempotencyKey(k)' = FindByAuthorAndIdempotencyKey(k)
    BY DEF FindByAuthorAndIdempotencyKey
  <1>2. ASSUME NEW k \in Keys PROVE answers'[k] \subseteq FindByAuthorAndIdempotencyKey(k)
    <2>1. answers'[k] = IF k = mem[p].key THEN answers[k] \cup {v} ELSE answers[k]
      BY AnswerEffect
    <2>2. answers[k] \subseteq FindByAuthorAndIdempotencyKey(k)
      BY DEF Catalogued, AnswersKnown
    <2> QED
      BY <2>1, <2>2
  <1>3. KeysUnique'
    BY <1>1 DEF Catalogued, KeysUnique
  <1>4. AnswersKnown'
    BY <1>1, <1>2 DEF AnswersKnown
  <1> QED
    BY <1>3, <1>4

LEMMA LookupKeeps ==
    ASSUME Typed, Catalogued, NEW p \in Procs, Lookup(p) \/ Relookup(p)
    PROVE  Catalogued'
  <1>1. CASE \E v \in FindByAuthorAndIdempotencyKey(mem[p].key) :
                Answer(p, v) /\ UNCHANGED <<row, announced>>
    <2>1. PICK v \in FindByAuthorAndIdempotencyKey(mem[p].key) : Answer(p, v) /\ UNCHANGED <<row, announced>>
      BY <1>1
    <2>2. v \in Videos
      BY DEF FindByAuthorAndIdempotencyKey
    <2>3. KeysUnique' /\ AnswersKnown'
      BY <2>1, <2>2, AnswerKeeps
    <2>4. Others(p) /\ at'[p] = "idle" /\ Free' = Free
      BY <2>1, <2>2, AnswerEffect DEF Free
    <2>5. ASSUME NEW q \in Procs, at'[q] = "announce"
          PROVE  q # p /\ at[q] = "announce" /\ mem'[q] = mem[q]
      BY <2>4, <2>5 DEF Others
    <2>6. CreatorsAnnounce'
      BY <2>1, <2>4, <2>5 DEF Catalogued, CreatorsAnnounce
    <2> QED
      BY <2>3, <2>6 DEF Catalogued
  <1>2. CASE Goto(p, "save") /\ UNCHANGED <<mem, answers, row, announced>>
    BY <1>2, StayTypes, RowsKeep DEF Labels
  <1> QED
    BY <1>1, <1>2 DEF Lookup, Relookup, state

LEMMA SaveKeeps ==
    ASSUME Typed, Catalogued, NEW p \in Procs, Save(p)
    PROVE  Catalogued'
  <1>1. UNCHANGED <<answers, announced>>
    BY DEF Save, history
  <1>2. CASE DuplicateKey(mem[p].key)
    BY <1>1, <1>2, StayTypes, RowsKeep DEF Save, Labels
  <1>3. CASE ~DuplicateKey(mem[p].key)
    <2>1. /\ Free # {}
          /\ SaveVideo(Min(Free), mem[p].key)
          /\ mem' = [mem EXCEPT ![p].video = Min(Free)]
          /\ Goto(p, "announce")
      BY <1>3 DEF Save
    <2>2. PICK v \in Free : v = Min(Free) /\ v \in Videos
      BY <2>1, NextId
    <2>3. PICK k : k = mem[p].key
      OBVIOUS
    <2>4. mem' = [mem EXCEPT ![p] = [mem[p] EXCEPT !.video = v]]
      BY <2>1, <2>2
    <2>5. /\ [mem[p] EXCEPT !.video = v] \in Locals /\ [mem[p] EXCEPT !.video = v].video = v
          /\ [mem[p] EXCEPT !.video = v].key = k
      BY <2>2, <2>3, MemHas DEF Locals
    <2>6. at'[p] = "announce" /\ mem'[p].video = v /\ mem'[p].key = k /\ Others(p)
      BY <2>1, <2>4, <2>5, MemTypes DEF Labels
    <2>7. row' = [row EXCEPT ![v] = [status |-> "published", key |-> k]]
      BY <2>1, <2>2, <2>3 DEF SaveVideo, NewPublished
    <2>8. /\ row'[v].status = "published" /\ row'[v].key = k
          /\ \A w \in Videos \ {v} : row'[w] = row[w]
      BY <2>2, <2>7 DEF Typed, TypeOK
    <2>9. row[v].status = "absent" /\ v \notin Free' /\ Free' \subseteq Free
      BY <2>2, <2>8 DEF Free
    <2>10. ASSUME NEW l, l # k
           PROVE  FindByAuthorAndIdempotencyKey(l)' = FindByAuthorAndIdempotencyKey(l)
      BY <2>8, <2>9, <2>10 DEF FindByAuthorAndIdempotencyKey
    <2>11. FindByAuthorAndIdempotencyKey(k) = {}
      BY <1>3, <2>3 DEF DuplicateKey
    <2>12. FindByAuthorAndIdempotencyKey(k)' \subseteq {v}
      BY <2>8, <2>11 DEF FindByAuthorAndIdempotencyKey
    <2>13. KeysUnique'
      BY <2>10, <2>12 DEF Catalogued, KeysUnique
    <2>14. AnswersKnown'
      <3> SUFFICES ASSUME NEW l \in Keys PROVE answers'[l] \subseteq FindByAuthorAndIdempotencyKey(l)'
        BY DEF AnswersKnown
      <3>1. answers'[l] \subseteq FindByAuthorAndIdempotencyKey(l)
        BY <1>1 DEF Catalogued, AnswersKnown
      <3> QED
        BY <2>10, <2>11, <3>1
    <2>15. announced'[v] = 0
      BY <1>1, <2>2 DEF Catalogued, CreatorsAnnounce, Typed, TypeOK
    <2>16. \A w \in Videos : announced'[w] <= (IF w \in Free' THEN 0 ELSE 1)
      BY <1>1, <2>9 DEF Catalogued, CreatorsAnnounce, Typed, TypeOK
    <2>17. ASSUME NEW q \in Procs \ {p}, at'[q] = "announce"
           PROVE  /\ at[q] = "announce" /\ mem'[q] = mem[q]
                  /\ mem[q].video \in Videos \ {v} /\ row'[mem[q].video] = row[mem[q].video]
      BY <2>2, <2>6, <2>8, <2>17 DEF Others, Typed, Named
    <2>18. ASSUME NEW q \in Procs, at'[q] = "announce"
           PROVE  /\ row'[mem'[q].video].key = mem'[q].key
                  /\ announced'[mem'[q].video] = 0
                  /\ \A r \in Procs \ {q} : at'[r] = "announce" => mem'[r].video # mem'[q].video
      <3>1. CASE q = p
        BY <2>6, <2>8, <2>15, <2>17, <3>1
      <3>2. CASE q # p
        <4>1. /\ row[mem[q].video].key = mem[q].key /\ announced[mem[q].video] = 0
              /\ \A r \in Procs \ {q} : at[r] = "announce" => mem[r].video # mem[q].video
          BY <2>17, <2>18, <3>2 DEF Catalogued, CreatorsAnnounce
        <4>2. ASSUME NEW r \in Procs \ {q}, at'[r] = "announce" PROVE mem'[r].video # mem'[q].video
          BY <2>6, <2>17, <2>18, <3>2, <4>1, <4>2
        <4> QED
          BY <1>1, <2>17, <2>18, <3>2, <4>1, <4>2
      <3> QED
        BY <3>1, <3>2
    <2>19. CreatorsAnnounce'
      BY <2>16, <2>18 DEF CreatorsAnnounce
    <2> QED
      BY <2>13, <2>14, <2>19 DEF Catalogued
  <1> QED
    BY <1>2, <1>3

LEMMA AnnounceKeeps ==
    ASSUME Typed, Catalogued, NEW p \in Procs, Announce(p)
    PROVE  Catalogued'
  <1>1. PICK v : v = mem[p].video
    OBVIOUS
  <1>2. /\ v \in Videos /\ v \notin Free /\ at[p] = "announce"
        /\ row[v].key = mem[p].key /\ announced[v] = 0
        /\ \A q \in Procs \ {p} : at[q] = "announce" => mem[q].video # v
    BY <1>1 DEF Announce, Typed, Named, Catalogued, CreatorsAnnounce
  <1>3. Answer(p, v) /\ UNCHANGED row
    BY <1>1 DEF Announce, state
  <1>4. mem[p].key \in Keys => v \in FindByAuthorAndIdempotencyKey(mem[p].key)
    BY <1>2, NoKeyIsNone DEF FindByAuthorAndIdempotencyKey, Free
  <1>5. KeysUnique' /\ AnswersKnown'
    BY <1>2, <1>3, <1>4, AnswerKeeps
  <1>6. Others(p) /\ at'[p] = "idle" /\ Free' = Free
    BY <1>2, <1>3, AnswerEffect DEF Free
  <1>7. announced' = announced \/ announced' = [announced EXCEPT ![v] = announced[v] + 1]
    BY <1>1 DEF Announce
  <1>8. announced'[v] \in {0, 1} /\ \A w \in Videos \ {v} : announced'[w] = announced[w]
    BY <1>2, <1>7 DEF Typed, TypeOK
  <1>9. ASSUME NEW q \in Procs, at'[q] = "announce"
        PROVE  q # p /\ at[q] = "announce" /\ mem'[q] = mem[q] /\ mem[q].video \in Videos \ {v}
    BY <1>2, <1>6, <1>9 DEF Others, Typed, Named
  <1>10. \A w \in Videos : announced'[w] <= (IF w \in Free' THEN 0 ELSE 1)
    BY <1>2, <1>6, <1>8 DEF Catalogued, CreatorsAnnounce
  <1>11. CreatorsAnnounce'
    BY <1>3, <1>8, <1>9, <1>10 DEF Catalogued, CreatorsAnnounce
  <1> QED
    BY <1>5, <1>11 DEF Catalogued

\* Every other step of a goroutine: where it goes, and that others stay.
LEMMA OtherSteps ==
    ASSUME Typed, NEW p \in Procs,
           \/ Find(p) \/ Delete(p) \/ Drop(p) \/ LoadUser(p) \/ Write(p) \/ Collect(p) \/ Purge(p)
           \/ ReadCards(p) \/ LoadCards(p) \/ StoreCard(p) \/ AddCard(p) \/ Renew(p)
           \/ CutPipeline(p) \/ StatementFails(p) \/ NotFound(p)
           \/ \E k \in Keys \cup {NoKey} : StartCreate(p, k)
           \/ \E v \in Videos \ Free : StartDelete(p, v)
           \/ \E data \in Profiles \cup {NoCard} : StartProfile(p, data)
           \/ StartRead(p)
    PROVE  Others(p) /\ at'[p] # "announce" /\ UNCHANGED <<answers, announced>>
           /\ (Delete(p) \/ UNCHANGED row)
  <1>1. mem \in [Procs -> Locals] /\ at \in [Procs -> Labels]
    BY DEF Typed, TypeOK
  <1>2. at'[p] # "announce" /\ \A q \in Procs \ {p} : at'[q] = at[q]
    BY <1>1 DEF Find, Delete, Drop, LoadUser, Write, Collect, Purge, ReadCards, LoadCards, StoreCard,
           AddCard, Renew, CutPipeline, StatementFails, NotFound, StartCreate, StartDelete,
           StartProfile, StartRead, BeginChange, Begin, Finish, Goto
  <1>3. \A q \in Procs \ {p} : mem'[q] = mem[q]
    BY <1>1 DEF Find, Delete, Drop, LoadUser, Write, Collect, Purge, ReadCards, LoadCards, StoreCard,
           AddCard, Renew, CutPipeline, StatementFails, NotFound, StartCreate, StartDelete,
           StartProfile, StartRead, BeginChange, Begin, Finish, Goto
  <1>4. UNCHANGED <<answers, announced>>
    BY DEF Find, Delete, Drop, LoadUser, Write, Collect, Purge, ReadCards, LoadCards, StoreCard,
           AddCard, Renew, CutPipeline, StatementFails, NotFound, StartCreate, StartDelete,
           StartProfile, StartRead, BeginChange, Begin, history
  <1>5. Delete(p) \/ UNCHANGED row
    BY DEF Find, Drop, LoadUser, Write, Collect, Purge, ReadCards, LoadCards, StoreCard,
           AddCard, Renew, CutPipeline, StatementFails, NotFound, StartCreate, StartDelete,
           StartProfile, StartRead, BeginChange, Begin, state
  <1> QED
    BY <1>2, <1>3, <1>4, <1>5 DEF Others

LEMMA CatalogueKept ==
    ASSUME Typed, Catalogued, Next
    PROVE  Catalogued'
  <1>1. CASE TimePasses
    <2>1. UNCHANGED <<row, at, mem, answers, announced>>
      BY <1>1 DEF TimePasses, state, locals, history
    <2>2. Free' = Free /\ \A k : FindByAuthorAndIdempotencyKey(k)' = FindByAuthorAndIdempotencyKey(k)
      BY <2>1 DEF Free, FindByAuthorAndIdempotencyKey
    <2> QED
      BY <2>1, <2>2 DEF Catalogued, KeysUnique, CreatorsAnnounce, AnswersKnown
  <1>2. ASSUME NEW p \in Procs, Others(p), at'[p] # "announce", UNCHANGED <<answers, announced>>,
               Delete(p) \/ UNCHANGED row
        PROVE  Catalogued'
    BY <1>2, DeleteEffect, RowsKeep
  <1>3. ASSUME NEW p \in Procs, Step(p) PROVE Catalogued'
    BY <1>2, <1>3, LookupKeeps, SaveKeeps, AnnounceKeeps, OtherSteps DEF Step
  <1> QED
    BY <1>1, <1>2, <1>3, OtherSteps DEF Next

LEMMA InitInv == Init => IInv
  <1> SUFFICES ASSUME Init PROVE IInv
    OBVIOUS
  <1>1. Typed
    BY InitTypes
  <1>2. \A k \in Keys : FindByAuthorAndIdempotencyKey(k) = {}
    BY NoKeyIsNone DEF Init, CatalogueInit, Absent, FindByAuthorAndIdempotencyKey
  <1>3. KeysUnique
    BY <1>2 DEF KeysUnique
  <1>4. CreatorsAnnounce
    BY DEF Init, CreatorsAnnounce
  <1>5. AnswersKnown
    BY DEF Init, AnswersKnown
  <1>6. Cached = {} /\ before = {}
    BY DEF Init, CacheInit, Cached
  <1>7. index.life = Forever
    BY DEF Init, CacheInit, NoIndex
  <1>8. CardsInSet /\ ChangesReachCards
    BY <1>6, <1>7 DEF CardsInSet, ChangesReachCards
  <1> QED
    BY <1>1, <1>3, <1>4, <1>5, <1>8 DEF IInv, Typed

LEMMA NextInv == IInv /\ [Next]_vars => IInv'
  <1> SUFFICES ASSUME IInv, [Next]_vars PROVE IInv'
    OBVIOUS
  <1>1. Typed /\ Catalogued /\ CardsInSet /\ ChangesReachCards /\ CacheOK
    BY CacheIsOK DEF IInv, Typed, Catalogued
  <1>2. CASE Next
    BY <1>1, <1>2, StepTypes, CatalogueKept, CacheKept DEF IInv, Typed, Catalogued
  <1>3. CASE UNCHANGED vars
    <2>1. UNCHANGED <<row, profile, card, index, before, excused, at, mem,
                      answers, announced, changes, faults>>
      BY <1>3 DEF vars
    <2>2. UNCHANGED <<Free, Cached, Unadded, Adding>>
      BY <2>1 DEF Free, Cached, Unadded, Adding
    <2>3. TypeOK' /\ Named'
      BY <1>1, <2>1, <2>2 DEF Typed, TypeOK, Named
    <2>4. \A k : FindByAuthorAndIdempotencyKey(k)' = FindByAuthorAndIdempotencyKey(k)
      BY <2>1 DEF FindByAuthorAndIdempotencyKey
    <2>5. Catalogued'
      BY <1>1, <2>1, <2>2, <2>4 DEF Catalogued, KeysUnique, CreatorsAnnounce, AnswersKnown
    <2>6. CardsInSet' /\ ChangesReachCards'
      BY <1>1, <2>1, <2>2 DEF CardsInSet, ChangesReachCards, Pending
    <2> QED
      BY <2>3, <2>5, <2>6 DEF IInv, Catalogued
  <1> QED
    BY <1>2, <1>3

LEMMA Inductive == Spec => []IInv
  <1>1. Init => IInv
    BY InitInv
  <1>2. IInv /\ [Next]_vars => IInv'
    BY NextInv
  <1> QED
    BY <1>1, <1>2, PTL DEF Spec

LEMMA KeysNamed == IInv => KeyNamesOneVideo
  <1> SUFFICES ASSUME IInv PROVE KeyNamesOneVideo
    OBVIOUS
  <1>1. ASSUME NEW k \in Keys PROVE Cardinality(FindByAuthorAndIdempotencyKey(k)) <= 1
    <2>1. PICK S : S = FindByAuthorAndIdempotencyKey(k)
      OBVIOUS
    <2>2. \A v, w \in S : v = w
      BY <2>1 DEF IInv, KeysUnique
    <2>3. S = {} \/ \E v : S = {v}
      BY <2>2
    <2>4. Cardinality(S) \in {0, 1}
      BY <2>3, FS_EmptySet, FS_Singleton
    <2> QED
      BY <2>1, <2>4
  <1>2. \A v \in Videos : announced[v] <= 1
    BY DEF IInv, CreatorsAnnounce, TypeOK
  <1> QED
    BY <1>1, <1>2 DEF KeyNamesOneVideo, IInv, AnswersKnown

(* Rows, cards, the author's set and every request keep their types, and a   *)
(* step that deletes, announces or stores a card has a video to do it to.    *)
THEOREM TypesAreKept == Spec => [](TypeOK /\ Named)
  BY Inductive, PTL DEF IInv

(* video/service.go: however many creations with one key run at once, fail   *)
(* halfway or are tried again, there is one video with the key, every answer *)
(* names it, and it is announced at most once.                               *)
THEOREM KeysNameTheirVideo == Spec => []KeyNamesOneVideo
  BY Inductive, KeysNamed, PTL

(* feed_card_cache.go: a deletion or a new profile leaves no card it should  *)
(* have removed, for any number of readers that store cards, with three      *)
(* commands each, while invalidations read and delete the author's set.      *)
THEOREM ChangesReachTheirCards == Spec => []ChangesReachCards
  <1>1. IInv => ChangesReachCards
    BY DEF IInv
  <1> QED
    BY Inductive, <1>1, PTL
================================================================================
