------------------------------- MODULE CardCache -------------------------------
(***************************************************************************)
(* What Redis keeps of the videos of an author for the feed: a card per    *)
(* video, and the set of videos whose cards are cached. Each command is a  *)
(* step; a pipeline is several, between which the commands of other        *)
(* clients run.                                                            *)
(*                                                                         *)
(* Time passes in ticks. SET gives a key its time to live, SADD leaves the *)
(* one the set has or creates a set that never expires, EXPIRE renews it.  *)
(*                                                                         *)
(* A card that was stored before the last change of its video or of the    *)
(* profile is in "before"; "excused" holds the cards an invalidation may   *)
(* miss for a reason the code leaves open. Both are history.               *)
(*                                                                         *)
(* Source: internal/infra/cache/feed_card_cache.go.                        *)
(***************************************************************************)
EXTENDS Videos

CONSTANT
    CardLife    \* time to live of a card and of the author's set, in ticks

VARIABLES card, index, before, excused

ASSUME LifePositive == CardLife \in Nat \ {0}

redis == <<card, index, before, excused>>

\* The time to live of a set without one.
Forever == CardLife + 1

NoIndex == [ids |-> {}, life |-> Forever]

CacheInit ==
    /\ card = [v \in Videos |-> [data |-> NoCard, life |-> 0]]
    /\ index = NoIndex
    /\ before = {}
    /\ excused = {}

Cached == {v \in Videos : card[v].data # NoCard}

Removed(vs) == [v \in Videos |-> IF v \in vs THEN [data |-> NoCard, life |-> 0] ELSE card[v]]

\* The first command of SetCards for a card: SET with a time to live.
SetCard(v, data) ==
    /\ card' = [card EXCEPT ![v] = [data |-> data, life |-> CardLife]]
    /\ before' = before \ {v}
    /\ excused' = excused \ {v}
    /\ UNCHANGED index

\* Wrong: the set is not kept.
LeaveIndex(v) == v \in Videos /\ UNCHANGED redis

\* The second: SADD to the author's set.
AddToIndex(v) ==
    /\ index' = [index EXCEPT !.ids = @ \cup {v}]
    /\ UNCHANGED <<card, before, excused>>

\* The third: EXPIRE, which needs the set to be there.
RenewIndex ==
    /\ index' = IF index.ids = {} THEN index ELSE [index EXCEPT !.life = CardLife]
    /\ UNCHANGED <<card, before, excused>>

\* DeleteCards.
DeleteCard(v) ==
    /\ card' = Removed({v})
    /\ before' = before \ {v}
    /\ excused' = excused \ {v}
    /\ UNCHANGED index

\* DeleteAuthorCards, the DEL at its end: the set, and the cards it held when
\* SMEMBERS read it. A card added since keeps its key and loses its place.
DeleteCollected(ids) ==
    /\ card' = Removed(ids)
    /\ index' = NoIndex
    /\ before' = before \ ids
    /\ excused' = (excused \cup Cached) \ ids

\* Every key has grown older by one tick. "adding" are the cards between
\* SADD and EXPIRE, whose set may expire under them.
Tick(adding) ==
    LET gone  == {v \in Cached : card[v].life = 1}
        lives == [v \in Videos |-> IF card[v].life > 1
                                   THEN [card[v] EXCEPT !.life = @ - 1]
                                   ELSE [data |-> NoCard, life |-> 0]]
        out   == index.ids # {} /\ index.life = 1
    IN  /\ card' = lives
        /\ index' = IF out THEN NoIndex
                    ELSE IF index.life = Forever THEN index
                    ELSE [index EXCEPT !.life = @ - 1]
        /\ before' = before \ gone
        /\ excused' = (excused \cup (IF out THEN adding ELSE {})) \ gone
================================================================================
