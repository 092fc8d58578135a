------------------------------- MODULE FeedPages -------------------------------
(***************************************************************************)
(* Readers that page through a list while it changes. The lists of         *)
(* comments, messages, followed users and followers are read page by page  *)
(* from the database. The timeline goes through a cache of pages: a page   *)
(* that is not cached is loaded by the first reader that asks for it; the  *)
(* others in the process wait for what it gets (singleflight), and the     *)
(* leader looks in the cache again before it loads.                        *)
(*                                                                         *)
(* Rows come and go. Their time is taken before the row is committed, so   *)
(* it may be older than rows already there. A user who is followed anew    *)
(* moves to the front of the list; a video never changes its time.         *)
(*                                                                         *)
(* A cached page may expire at any time. A failing Redis call is taken for *)
(* a miss; a failing query fails the readers that wait for it.             *)
(*                                                                         *)
(* Source: internal/application/feed/page_loader.go, strategy_timeline.go  *)
(* and internal/infra/cache/feed_page_cache.go; application/{interaction,  *)
(* message,relation} for the lists without a cache.                        *)
(***************************************************************************)
EXTENDS Cursors

CONSTANTS
    Readers,     \* 1..n: goroutines that serve readers
    Ids,         \* rows there may come to be, 1..n
    Times,       \* bound: the times they may have
    Limit,       \* the limit clients ask for
    NoPage,
    MaxChanges,  \* bound: changes of the list in the run
    MaxFaults    \* bound: calls that fail

\* Times and ids are numbers; a page can be told from none.
ASSUME RowsAreNumbered ==
    /\ IsFiniteSet(Ids) /\ Ids \subseteq Nat
    /\ IsFiniteSet(Times) /\ Times \subseteq Nat
ASSUME LimitIsNumber == Limit \in Int

VARIABLES
    listing,        \* which list it is
    listed, used,  \* the rows of the list, and the ids handed out
    page,        \* page[cursor]: the cached page
    loads,       \* loads[cursor]: times it was loaded since it last expired
    at,          \* per reader: next step,
    cursor,      \*   where it is in the list,
    got,         \*   the page it has loaded,
    shown,       \*   the rows it has seen,
    sure,        \*   and those that were there at every load behind its pages
    changes, faults

list == <<listing, listed, used>>
session == <<cursor, shown, sure>>
pagesVars == <<listing, listed, used, page, loads, at, cursor, got, shown, sure, changes, faults>>

\* The cursors a client has: none, or what a page returned.
Cursor == {Start} \cup (Times \X Ids)

Kinds == {"timeline", "comments", "messages", "following", "followers"}

\* Only the timeline goes through the cache of pages.
Cached == listing = "timeline"

\* No reader has been shown anything, and any row may be there.
Everything == Times \X Ids

PageRecord == [items : Seq(Everything), more : BOOLEAN, next : Cursor, known : SUBSET Everything]

ASSUME NoPageIsNone == NoPage \notin PageRecord

PagesInit ==
    /\ listing \in Kinds
    /\ used = Ids \ {Max(Ids)}
    /\ \E time \in [used -> Times] : listed = {<<time[i], i>> : i \in used}
    /\ page = [c \in Cursor |-> NoPage]
    /\ loads = [c \in Cursor |-> 0]
    /\ at = [p \in Readers |-> "idle"]
    /\ cursor = [p \in Readers |-> Start]
    /\ got = [p \in Readers |-> NoPage]
    /\ shown = [p \in Readers |-> <<>>]
    /\ sure = [p \in Readers |-> Everything]
    /\ changes = 0
    /\ faults = 0

GotoStep(p, label) == at' = [at EXCEPT ![p] = label]

Fault == faults < MaxFaults /\ faults' = faults + 1

-----------------------------------------------------------------------------
(* The list changes. *)

Change ==
    /\ changes < MaxChanges
    /\ changes' = changes + 1
    /\ UNCHANGED <<listing, page, loads, at, session, got, faults>>

AddRow ==
    /\ used # Ids
    /\ LET i == Min(Ids \ used)
       IN  used' = used \cup {i} /\ \E t \in Times : listed' = listed \cup {<<t, i>>}
    /\ Change

\* A video or comment is deleted, a user is followed no longer. Messages stay.
RemoveRow ==
    /\ listing # "messages"
    /\ \E r \in listed : listed' = listed \ {r}
    /\ UNCHANGED used
    /\ Change

\* A row of user_follow is written again.
MoveRow ==
    /\ listing \in {"following", "followers"}
    /\ \E r \in listed : \E t \in Times : t > r[1] /\ listed' = (listed \ {r}) \cup {<<t, r[2]>>}
    /\ UNCHANGED used
    /\ Change

\* A page expires.
Expire ==
    /\ \E c \in Cursor :
        /\ page[c] # NoPage
        /\ page' = [page EXCEPT ![c] = NoPage]
        /\ loads' = [loads EXCEPT ![c] = 0]
    /\ UNCHANGED <<list, at, session, got, changes, faults>>

-----------------------------------------------------------------------------
(* A reader asks for a page. *)

\* A session begins: one reader is like another, and without the cache they do
\* not meet.
BeginSession(p) ==
    /\ at[p] = "idle"
    /\ Cached \/ p = 1
    /\ p = Min({q \in Readers : at[q] = "idle"})
    /\ GotoStep(p, IF Cached THEN "get" ELSE "query")
    /\ UNCHANGED <<list, page, loads, session, got, changes, faults>>

\* The answers: the readers ps have page g; the session goes on behind it, or
\* ends with its last page.
Answer(ps, g) ==
    /\ at' = [p \in Readers |-> IF p \in ps THEN IF g.more THEN "answered" ELSE "done" ELSE at[p]]
    /\ cursor' = [p \in Readers |-> IF p \in ps THEN g.next ELSE cursor[p]]
    /\ shown' = [p \in Readers |-> IF p \in ps THEN shown[p] \o g.items ELSE shown[p]]
    /\ sure' = [p \in Readers |-> IF p \in ps THEN sure[p] \cap g.known ELSE sure[p]]
    /\ got' = [p \in Readers |-> IF p \in ps THEN NoPage ELSE got[p]]

Leave(ps) ==
    /\ at' = [p \in Readers |-> IF p \in ps THEN "idle" ELSE at[p]]
    /\ cursor' = [p \in Readers |-> IF p \in ps THEN Start ELSE cursor[p]]
    /\ shown' = [p \in Readers |-> IF p \in ps THEN <<>> ELSE shown[p]]
    /\ sure' = [p \in Readers |-> IF p \in ps THEN Everything ELSE sure[p]]
    /\ got' = [p \in Readers |-> IF p \in ps THEN NoPage ELSE got[p]]

PageOf(c) == CASE listing = "timeline"  -> TimelinePage(listed, c, Limit)
               [] listing = "comments"  -> CommentPage(listed, c, Limit)
               [] listing = "messages"  -> MessagePage(listed, c, Limit)
               [] listing = "following" -> FollowingPage(listed, c, Limit)
               [] listing = "followers" -> FollowerPage(listed, c, Limit)

\* The page the database has now, and what was there when it was loaded.
Loaded(c) ==
    LET g == PageOf(c)
    IN  [items |-> g.items, more |-> g.more, next |-> g.next, known |-> listed]

Hit(p) == page[cursor[p]] # NoPage

\* GetPage finds nothing, or fails.
NotRead(p) ==
    \/ ~Hit(p) /\ UNCHANGED faults
    \/ Fault

\* loadFeedPage looks in the cache first.
GetPage(p) ==
    /\ at[p] = "get"
    /\ \/ Hit(p) /\ Answer({p}, page[cursor[p]]) /\ UNCHANGED faults
       \/ NotRead(p) /\ GotoStep(p, "join") /\ UNCHANGED <<session, got>>
    /\ UNCHANGED <<list, page, loads, changes>>

Leading(q) == at[q] \in {"recheck", "query", "store"}

\* singleflight: those who wait for the page p loads.
Followers(p) == {q \in Readers \ {p} : at[q] = "wait" /\ cursor[q] = cursor[p]}

\* Wrong: every reader loads.
JoinAlone(p) ==
    /\ at[p] = "join"
    /\ GotoStep(p, "recheck")
    /\ UNCHANGED <<list, page, loads, session, got, changes, faults>>

Join(p) ==
    /\ at[p] = "join"
    /\ GotoStep(p, IF \E q \in Readers \ {p} : Leading(q) /\ cursor[q] = cursor[p] THEN "wait" ELSE "recheck")
    /\ UNCHANGED <<list, page, loads, session, got, changes, faults>>

\* The page may have been stored since.
Recheck(p) ==
    /\ at[p] = "recheck"
    /\ \/ Hit(p) /\ Answer({p} \cup Followers(p), page[cursor[p]]) /\ UNCHANGED faults
       \/ NotRead(p) /\ GotoStep(p, "query") /\ UNCHANGED <<session, got>>
    /\ UNCHANGED <<list, page, loads, changes>>

\* listPageFromRepo, and List of the other lists.
QueryPage(p) ==
    /\ at[p] = "query"
    /\ \/ /\ Cached
          /\ got' = [got EXCEPT ![p] = Loaded(cursor[p])]
          /\ loads' = [loads EXCEPT ![cursor[p]] = @ + 1]
          /\ GotoStep(p, "store")
          /\ UNCHANGED <<session, faults>>
       \/ ~Cached /\ Answer({p}, Loaded(cursor[p])) /\ UNCHANGED <<loads, faults>>
       \/ Fault /\ Leave({p} \cup Followers(p)) /\ UNCHANGED loads
    /\ UNCHANGED <<list, page, changes>>

\* SetPage; its error is dropped.
StorePage(p) ==
    /\ at[p] = "store"
    /\ \/ page' = [page EXCEPT ![cursor[p]] = got[p]] /\ UNCHANGED faults
       \/ Fault /\ UNCHANGED page
    /\ Answer({p} \cup Followers(p), got[p])
    /\ UNCHANGED <<list, loads, changes>>

\* The client asks for the next page with the cursor it was given.
Continue(p) ==
    /\ at[p] = "answered"
    /\ GotoStep(p, IF Cached THEN "get" ELSE "query")
    /\ UNCHANGED <<list, page, loads, session, got, changes, faults>>

End(p) ==
    /\ at[p] \in {"answered", "done"}
    /\ Leave({p})
    /\ UNCHANGED <<list, page, loads, changes, faults>>

PagesNext ==
    \/ AddRow \/ RemoveRow \/ MoveRow \/ Expire
    \/ \E p \in Readers :
        \/ BeginSession(p) \/ GetPage(p) \/ Join(p) \/ Recheck(p) \/ QueryPage(p) \/ StorePage(p)
        \/ Continue(p) \/ End(p)

-----------------------------------------------------------------------------
\* Nobody is shown a row twice.
NothingTwice(p) == Cardinality({r[2] : r \in ToSet(shown[p])}) = Len(shown[p])

\* Who comes to the end has seen every row that was there at each load behind
\* the pages.
NothingSkipped(p) == at[p] = "done" => sure[p] \subseteq ToSet(shown[p])

(* Paging shows a row at most once, and misses none that stays: whatever   *)
(* is added, removed or moved to the front between two pages, rows of one  *)
(* time included, and however old a cached page is.                        *)
EveryRowOnce == \A p \in Readers : NothingTwice(p) /\ NothingSkipped(p)

(* However many readers miss a page at the same time, it is loaded once    *)
(* while its cached copy lives; each failed call may cost another load.    *)
PageLoadedOnce == \A c \in Cursor : loads[c] <= 1 + faults

-----------------------------------------------------------------------------
(* The strengthening that is inductive. *)

PagesSpec == PagesInit /\ [][PagesNext]_pagesVars

ReadingSteps == {"idle", "get", "join", "wait", "recheck", "query", "store", "answered", "done"}

PagesTypes ==
    /\ listing \in Kinds
    /\ listed \subseteq Everything
    /\ used \subseteq Ids
    /\ page \in [Cursor -> PageRecord \cup {NoPage}]
    /\ loads \in [Cursor -> Nat]
    /\ at \in [Readers -> ReadingSteps]
    /\ cursor \in [Readers -> Cursor]
    /\ got \in [Readers -> PageRecord \cup {NoPage}]
    /\ shown \in [Readers -> Seq(Everything)]
    /\ sure \in [Readers -> SUBSET Everything]
    /\ faults \in Nat

\* A reader has a page while it stores it. Only the timeline has stored ones.
PagesInHand ==
    /\ \A p \in Readers : got[p] # NoPage <=> at[p] = "store"
    /\ ~Cached => /\ \A c \in Cursor : page[c] = NoPage
                  /\ \A p \in Readers : at[p] \in {"idle", "query", "answered", "done"}

Descending(s) == \A i, j \in 1..Len(s) : i < j => Newer(s[i], s[j])

\* A page holds the first rows behind the cursor of those there were, and
\* names the last of them if there are more.
PageIsFor(c, g) ==
    /\ Descending(g.items)
    /\ \A r \in ToSet(g.items) : r \in g.known /\ After(c, r)
    /\ g.more => g.items # <<>> /\ g.next = Last(g.items)
    /\ \A r \in g.known : After(c, r) => r \in ToSet(g.items) \/ (g.more /\ Newer(g.next, r))

PagesAreRight ==
    /\ \A c \in Cursor : page[c] # NoPage => PageIsFor(c, page[c])
    /\ \A p \in Readers : got[p] # NoPage => PageIsFor(cursor[p], got[p])

\* The rows a reader may yet be shown: those of now, and those of the pages.
Offered ==
    {r \in Everything :
        \/ r \in listed
        \/ \E c \in Cursor : page[c] # NoPage /\ r \in page[c].known
        \/ \E p \in Readers : got[p] # NoPage /\ r \in got[p].known}

\* No two of them have one id, and all their ids were handed out.
OneOfEachId(offered, ids) ==
    /\ \A r, s \in offered : r[2] = s[2] => r = s
    /\ \A r \in offered : r[2] \in ids

IdsAreOnce == OneOfEachId(Offered, used)

IdsDiffer(s) == \A i, j \in 1..Len(s) : i < j => s[i][2] # s[j][2]

\* A row that may yet be offered has not moved back since it was shown.
NoneMovesBack(s, offered, ids) ==
    \A r \in ToSet(s) : r[2] \in ids /\ \A q \in offered : q[2] = r[2] => q[1] >= r[1]

ShownOrBehind(known, s, c) == \A r \in known : r \in ToSet(s) \/ After(c, r)

\* The cursor is behind what was shown; what was there each time is shown or
\* behind the cursor, and shown at the end.
SessionIsSound(p) ==
    /\ Descending(shown[p])
    /\ IdsDiffer(shown[p])
    /\ NoneMovesBack(shown[p], Offered, used)
    /\ at[p] # "done" => /\ cursor[p] = NextCursor(shown[p])
                         /\ ShownOrBehind(sure[p], shown[p], cursor[p])
    /\ at[p] = "done" => sure[p] \subseteq ToSet(shown[p])

SessionsAreSound == \A p \in Readers : SessionIsSound(p)

OneLeader ==
    Cached => \A p, q \in Readers : Leading(p) /\ Leading(q) /\ cursor[p] = cursor[q] => p = q

\* A page was loaded as often as calls failed, unless it is there, or about to be.
LoadsAreCounted ==
    /\ \A c \in Cursor : loads[c] <= 1 + faults
    /\ \A c \in Cursor : page[c] = NoPage /\ (\A p \in Readers : at[p] = "store" => cursor[p] # c) =>
            loads[c] <= faults
    /\ \A p \in Readers : at[p] = "query" => loads[cursor[p]] <= faults

PagesIInv ==
    /\ PagesTypes
    /\ PagesInHand
    /\ PagesAreRight
    /\ IdsAreOnce
    /\ SessionsAreSound
    /\ OneLeader
    /\ LoadsAreCounted
================================================================================
