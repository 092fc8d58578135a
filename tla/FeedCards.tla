------------------------------- MODULE FeedCards -------------------------------
(***************************************************************************)
(* The requests around the cards of an author: creating a video with or    *)
(* without an idempotency key, deleting it, changing the profile, and      *)
(* reading the feed. Each handler is its sequence of database statements   *)
(* and Redis commands, and any two handlers interleave between them.       *)
(*                                                                         *)
(* A reader has a page, which FeedPages models, and gets the cards of its  *)
(* videos: from the cache, else from the database, storing what it had to  *)
(* load. Counts and the viewer's own actions are read beside the cards and *)
(* change nothing here.                                                    *)
(*                                                                         *)
(* A failing Redis call is ignored by every handler: a read counts as a    *)
(* miss, an invalidation stays undone. A failing statement ends the        *)
(* request.                                                                *)
(*                                                                         *)
(* Source: internal/application/{video,account}/service.go and             *)
(* internal/application/feed/page_loader.go.                               *)
(***************************************************************************)
EXTENDS CardCache

CONSTANTS
    Procs,       \* goroutines that serve requests, 1..n
    NoVideo,
    MaxChanges,  \* bound: creations, deletions and profile changes in the run
    MaxPage,     \* bound: videos of a page
    MaxFaults    \* bound: calls that fail

VARIABLES
    at, mem,     \* per goroutine: next step, and key, video, data and ids it has
    answers,     \* answers[k]: videos named to those who created with key k
    announced,   \* announced[v]: times the video was published to the broker
    changes, faults

state   == <<row, profile>>
locals  == <<at, mem>>
history == <<answers, announced>>
vars == <<row, profile, card, index, before, excused, at, mem,
          answers, announced, changes, faults>>

Nothing == [key |-> NoKey, video |-> NoVideo, data |-> NoCard, ids |-> {}]

Init ==
    /\ CatalogueInit
    /\ CacheInit
    /\ at = [p \in Procs |-> "idle"]
    /\ mem = [p \in Procs |-> Nothing]
    /\ answers = [k \in Keys |-> {}]
    /\ announced = [v \in Videos |-> 0]
    /\ changes = 0
    /\ faults = 0

Goto(p, label) == at' = [at EXCEPT ![p] = label]

Finish(p) == Goto(p, "idle") /\ mem' = [mem EXCEPT ![p] = Nothing]

\* Goroutines are alike: the first idle one takes the request.
Begin(p, label, data) ==
    /\ at[p] = "idle"
    /\ p = Min({q \in Procs : at[q] = "idle"})
    /\ Goto(p, label)
    /\ mem' = [mem EXCEPT ![p] = data]
    /\ UNCHANGED <<state, redis, history, faults>>

BeginChange(p, label, data) ==
    /\ changes < MaxChanges
    /\ changes' = changes + 1
    /\ Begin(p, label, data)

\* A call fails.
Fault == faults < MaxFaults /\ faults' = faults + 1

-----------------------------------------------------------------------------
(* Creating a video. *)

StartCreate(p, k) ==
    /\ Cardinality({q \in Procs : at[q] \in {"lookup", "save"}}) < Cardinality(Free)
    /\ BeginChange(p, IF k = NoKey THEN "save" ELSE "lookup", [Nothing EXCEPT !.key = k])

Answer(p, v) ==
    /\ answers' = [k \in Keys |-> IF k = mem[p].key THEN answers[k] \cup {v} ELSE answers[k]]
    /\ Finish(p)

\* A retry finds the video of the first attempt.
Lookup(p) ==
    /\ at[p] = "lookup"
    /\ IF FindByAuthorAndIdempotencyKey(mem[p].key) # {}
       THEN \E v \in FindByAuthorAndIdempotencyKey(mem[p].key) : Answer(p, v)
       ELSE Goto(p, "save") /\ UNCHANGED <<mem, answers>>
    /\ UNCHANGED <<state, redis, announced, changes, faults>>

Save(p) ==
    /\ at[p] = "save"
    /\ IF DuplicateKey(mem[p].key)
       THEN Goto(p, "relookup") /\ UNCHANGED <<row, mem>>
       ELSE /\ Free # {}
            /\ SaveVideo(Min(Free), mem[p].key)
            /\ mem' = [mem EXCEPT ![p].video = Min(Free)]
            /\ Goto(p, "announce")
    /\ UNCHANGED <<profile, redis, history, changes, faults>>

\* The insert clashed with another one: its video is the answer, its creator
\* announces it.
Relookup(p) ==
    /\ at[p] = "relookup"
    /\ \E v \in FindByAuthorAndIdempotencyKey(mem[p].key) : Answer(p, v)
    /\ UNCHANGED <<state, redis, announced, changes, faults>>

\* publishCreatedVideo; its error is dropped.
Announce(p) ==
    /\ at[p] = "announce"
    /\ \/ announced' = [announced EXCEPT ![mem[p].video] = @ + 1] /\ UNCHANGED faults
       \/ Fault /\ UNCHANGED announced
    /\ Answer(p, mem[p].video)
    /\ UNCHANGED <<state, redis, changes>>

-----------------------------------------------------------------------------
(* Deleting a video and changing the profile. *)

StartDelete(p, v) == BeginChange(p, "find", [Nothing EXCEPT !.video = v])

\* A deleted video is deleted again without effect.
Find(p) ==
    /\ at[p] = "find"
    /\ IF FindByIDAnyStatus(mem[p].video).status = "published"
       THEN Goto(p, "delete") /\ UNCHANGED mem
       ELSE Finish(p)
    /\ UNCHANGED <<state, redis, history, changes, faults>>

\* An UPDATE that changes nothing, not even the millisecond of updated_at,
\* reports no row: ErrVideoNotFound.
NotFound(p) ==
    /\ \/ at[p] = "delete" /\ row[mem[p].video].status = "deleted"
       \/ at[p] = "write" /\ mem[p].data = profile
    /\ Finish(p)
    /\ UNCHANGED <<state, redis, history, changes, faults>>

Delete(p) ==
    /\ at[p] = "delete"
    /\ UpdateStatus(mem[p].video, DeleteBy(FindByIDAnyStatus(mem[p].video)))
    /\ before' = before \cup (Cached \cap {mem[p].video})
    /\ Goto(p, "drop")
    /\ UNCHANGED <<profile, card, index, excused, mem, history, changes, faults>>

Drop(p) ==
    /\ at[p] = "drop"
    /\ \/ DeleteCard(mem[p].video) /\ UNCHANGED faults
       \/ /\ Fault
          /\ excused' = excused \cup (Cached \cap {mem[p].video})
          /\ UNCHANGED <<card, index, before>>
    /\ Finish(p)
    /\ UNCHANGED <<state, history, changes>>

\* The new profile, or NoCard where the request leaves nickname and avatar
\* out (it sets the description only).
StartProfile(p, data) == BeginChange(p, "load_user", [Nothing EXCEPT !.data = data])

\* What the request leaves out is written back as it was read.
LoadUser(p) ==
    /\ at[p] = "load_user"
    /\ mem' = [mem EXCEPT ![p].data = Updated(profile, @)]
    /\ Goto(p, "write")
    /\ UNCHANGED <<state, redis, history, changes, faults>>

Write(p) ==
    /\ at[p] = "write"
    /\ UpdateProfile(mem[p].data)
    /\ before' = before \cup Cached
    /\ Goto(p, "collect")
    /\ mem' = [mem EXCEPT ![p] = Nothing]
    /\ UNCHANGED <<row, card, index, excused, history, changes, faults>>

\* Cards whose SADD is still to come.
Unadded == {mem[q].video : q \in {r \in Procs : at[r] = "add"}}

\* Cards whose EXPIRE is still to come.
Adding == {mem[q].video : q \in {r \in Procs : at[r] = "renew"}}

\* DeleteAuthorCards, first half: SMEMBERS.
Collect(p) ==
    /\ at[p] = "collect"
    /\ \/ /\ mem' = [mem EXCEPT ![p].ids = index.ids]
          /\ Goto(p, "purge")
          /\ excused' = excused \cup (Unadded \cap Cached)
          /\ UNCHANGED faults
       \/ Fault /\ excused' = excused \cup Cached /\ Finish(p)
    /\ UNCHANGED <<state, card, index, before, history, changes>>

Purge(p) ==
    /\ at[p] = "purge"
    /\ \/ DeleteCollected(mem[p].ids) /\ UNCHANGED faults
       \/ /\ Fault
          /\ excused' = excused \cup Cached
          /\ UNCHANGED <<card, index, before>>
    /\ Finish(p)
    /\ UNCHANGED <<state, history, changes>>

-----------------------------------------------------------------------------
(* Reading the feed: the cards of a page. *)

\* The page may come from a cache and name any video there has been.
StartRead(p) ==
    /\ \E n \in 1..MaxPage : \E ids \in kSubset(n, Videos \ Free) :
        Begin(p, "cards", [Nothing EXCEPT !.ids = ids])
    /\ UNCHANGED changes

\* Wrong: the reader stores all the cards it shows, those it found too.
ReadCardsToStore(p) ==
    /\ at[p] = "cards"
    /\ \E v \in mem[p].ids :
        /\ mem' = [mem EXCEPT ![p].ids = {v}, ![p].data = IF v \in Cached THEN card[v].data ELSE profile]
        /\ Goto(p, IF v \in Cached THEN "set" ELSE "load")
    /\ UNCHANGED <<state, redis, history, changes, faults>>

\* GetCards: which ones are missing.
ReadCards(p) ==
    /\ at[p] = "cards"
    /\ \E missing \in {mem[p].ids \ Cached, mem[p].ids} :
        /\ IF missing = mem[p].ids \ Cached THEN UNCHANGED faults ELSE Fault
        /\ IF missing = {} THEN Finish(p)
           ELSE Goto(p, "load") /\ mem' = [mem EXCEPT ![p].ids = missing]
    /\ UNCHANGED <<state, redis, history, changes>>

\* BatchGetFeedCards.
LoadCards(p) ==
    /\ at[p] = "load"
    /\ IF mem[p].ids \cap Listed = {} THEN Finish(p)
       ELSE /\ Goto(p, "set")
            /\ mem' = [mem EXCEPT ![p].ids = @ \cap Listed, ![p].data = profile]
    /\ UNCHANGED <<state, redis, history, changes, faults>>

\* SetCards, the cards in any order.
StoreCard(p) ==
    /\ at[p] = "set"
    /\ \E v \in mem[p].ids :
        /\ SetCard(v, mem[p].data)
        /\ mem' = [mem EXCEPT ![p].video = v, ![p].ids = @ \ {v}]
    /\ Goto(p, "add")
    /\ UNCHANGED <<state, history, changes, faults>>

AddCard(p) ==
    /\ at[p] = "add"
    /\ AddToIndex(mem[p].video)
    /\ Goto(p, "renew")
    /\ UNCHANGED <<state, mem, history, changes, faults>>

Renew(p) ==
    /\ at[p] = "renew"
    /\ RenewIndex
    /\ IF mem[p].ids = {} THEN Finish(p) ELSE Goto(p, "set") /\ UNCHANGED mem
    /\ UNCHANGED <<state, history, changes, faults>>

\* The connection breaks inside the pipeline.
CutPipeline(p) ==
    /\ at[p] \in {"set", "add", "renew"}
    /\ Fault
    /\ excused' = excused \cup (Cached \cap {mem[p].video})
    /\ Finish(p)
    /\ UNCHANGED <<state, card, index, before, history, changes>>

\* A statement fails: the request ends.
StatementFails(p) ==
    /\ at[p] \in {"lookup", "save", "relookup", "find", "delete", "load_user", "write", "load"}
    /\ Fault
    /\ Finish(p)
    /\ UNCHANGED <<state, redis, history, changes>>

TimePasses ==
    /\ Tick(Adding)
    /\ UNCHANGED <<state, locals, history, changes, faults>>

-----------------------------------------------------------------------------
Step(p) ==
    \/ Lookup(p) \/ Save(p) \/ Relookup(p) \/ Announce(p)
    \/ Find(p) \/ Delete(p) \/ Drop(p)
    \/ LoadUser(p) \/ Write(p) \/ Collect(p) \/ Purge(p)
    \/ ReadCards(p) \/ LoadCards(p) \/ StoreCard(p) \/ AddCard(p) \/ Renew(p)

Next ==
    \/ \E p \in Procs :
        \/ Step(p) \/ CutPipeline(p) \/ StatementFails(p) \/ NotFound(p)
        \/ \E k \in Keys \cup {NoKey} : StartCreate(p, k)
        \/ \E v \in Videos \ Free : StartDelete(p, v)
        \/ \E data \in Profiles \cup {NoCard} : StartProfile(p, data)
        \/ StartRead(p)
    \/ TimePasses

\* Handlers run and time passes; nothing says that requests come.
Spec == Init /\ [][Next]_vars /\ WF_vars(TimePasses) /\ \A p \in Procs : WF_vars(Step(p))

-----------------------------------------------------------------------------
(* One key, one video: whatever retries and concurrent first attempts of a *)
(* creation interleave, all that are answered name the same video, there   *)
(* is only one with the key, and it is announced at most once.             *)
KeyNamesOneVideo ==
    /\ \A k \in Keys : Cardinality(FindByAuthorAndIdempotencyKey(k)) <= 1 /\ answers[k] \subseteq FindByAuthorAndIdempotencyKey(k)
    /\ \A v \in Videos : announced[v] <= 1

\* An invalidation that will still remove the card of v.
Pending(v) ==
    \E p \in Procs :
        \/ at[p] = "collect"
        \/ at[p] = "purge" /\ v \in mem[p].ids
        \/ at[p] = "drop" /\ mem[p].video = v

(* A deletion or a change of the profile reaches every card stored before  *)
(* it committed, unless its invalidation failed or the card was out of the *)
(* author's set: between SET and SADD, after a broken pipeline, or after   *)
(* an invalidation that removed the set and not this card. A card that is  *)
(* stored later, by a reader that loaded before, is not reached.           *)
ChangesReachCards == \A v \in before \ excused : Pending(v)

(* Once nothing changes any more, expiry brings every cached card to what  *)
(* the database has: no reader can keep a stale card alive.                *)
CardsSettle ==
    <>[](\A v \in Cached : v \in Listed /\ card[v].data = profile)

-----------------------------------------------------------------------------
(* Why the two invariants hold: what the steps preserve. *)

Labels == {"idle", "lookup", "save", "relookup", "announce", "find", "delete", "drop",
           "load_user", "write", "collect", "purge", "cards", "load", "set", "add", "renew"}

Locals == [key : Keys \cup {NoKey}, video : Videos \cup {NoVideo},
           data : Profiles \cup {NoCard}, ids : SUBSET Videos]

TypeOK ==
    /\ row \in [Videos -> [status : {"absent", "published", "deleted"}, key : Keys \cup {NoKey}]]
    /\ profile \in Profiles
    /\ card \in [Videos -> [data : Profiles \cup {NoCard}, life : 0..CardLife]]
    /\ index \in [ids : SUBSET Videos, life : 1..Forever]
    /\ before \subseteq Videos /\ excused \subseteq Videos
    /\ at \in [Procs -> Labels]
    /\ mem \in [Procs -> Locals]
    /\ answers \in [Keys -> SUBSET Videos]
    /\ announced \in [Videos -> Nat]
    /\ changes \in Nat /\ faults \in Nat

\* A step that names a video or a profile has one.
Named ==
    \A p \in Procs :
        /\ at[p] \in {"find", "delete", "announce"} => mem[p].video \in Videos \ Free
        /\ at[p] \in {"drop", "add", "renew"} => mem[p].video \in Videos
        /\ at[p] = "write" => mem[p].data \in Profiles

\* No two videos have one key.
KeysUnique ==
    \A k \in Keys : \A v, w \in FindByAuthorAndIdempotencyKey(k) : v = w

\* Whoever is about to announce a video has created it, and is the only one.
CreatorsAnnounce ==
    /\ \A v \in Videos : announced[v] <= (IF v \in Free THEN 0 ELSE 1)
    /\ \A p \in Procs : at[p] = "announce" =>
          /\ row[mem[p].video].key = mem[p].key
          /\ announced[mem[p].video] = 0
          /\ \A q \in Procs \ {p} : at[q] = "announce" => mem[q].video # mem[p].video

AnswersKnown == \A k \in Keys : answers[k] \subseteq FindByAuthorAndIdempotencyKey(k)

\* A card that an invalidation must find is in the author's set, which lives as
\* long as the card, except between the three commands that store it.
CardsInSet ==
    /\ index.ids = {} => index.life = Forever
    /\ before \subseteq Cached
    /\ \A v \in Cached : card[v].life # 0
    /\ \A v \in Cached \ (excused \cup Unadded) :
          v \in index.ids /\ (v \in Adding \/ card[v].life <= index.life)

IInv ==
    /\ TypeOK /\ Named
    /\ KeysUnique /\ CreatorsAnnounce /\ AnswersKnown
    /\ CardsInSet /\ ChangesReachCards
================================================================================
