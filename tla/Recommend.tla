------------------------------- MODULE Recommend -------------------------------
(***************************************************************************)
(* The recommendation feed of one user. A page is made from a pool: the    *)
(* hottest published videos the user has not been shown for a week. They   *)
(* are ranked by similarity, heat and freshness, cut behind the cursor,    *)
(* and reordered so that an author does not follow itself. What the client *)
(* then shows is stored as exposures, at once, later or never.             *)
(*                                                                         *)
(* The clock ticks in half minutes: freshness is computed from the minute, *)
(* the exposure window of the pool from the exact time, that of the        *)
(* exposure decisions from the minute. Scores are integers: the weights in *)
(* twentieths, and a small scale for each term. Scores closer than the     *)
(* tolerance of the cursor, 1e-9, are not told apart.                      *)
(*                                                                         *)
(* Source: application/recommendation/service.go, domain/recommendation,   *)
(* infra/persistence/recommendation, application/feed/strategy_recommend.  *)
(***************************************************************************)
EXTENDS Cursors

CONSTANTS
    Catalog,       \* videos, 1..n; a larger id is published later or together
    AuthorOf,      \* AuthorOf[v]
    PublishedAt,   \* PublishedAt[v], in ticks; none is later than 0
    Heats,         \* bound: the hot scores at the start, 0 or 1 for each video
    Tastes,        \* bound: the sets of similar videos
    Limits,        \* page sizes the client asks for
    PoolMultiplier, MinPool, MaxPool, \* the size of a pool
    WeekTicks,     \* RecentExposureWindow, in ticks
    Fresh,         \* bound: freshness ends at 0 after so many minutes
    Never,         \* no exposure
    NoCandidate,   \* no cursor, and no pool
    MaxTicks,      \* bound: the clock
    MaxMoves       \* bound: changes of scores, videos, exposures and sessions

ASSUME CatalogIsNumbered == Catalog \subseteq Int /\ IsFiniteSet(Catalog)

ASSUME AgesAreNumbers == PublishedAt \in [Catalog -> Int] /\ WeekTicks \in Int /\ Fresh \in Int

ASSUME HeatsAreNumbers == Heats \subseteq [Catalog -> Int]

ASSUME SizesAreNumbers ==
    /\ Limits \subseteq Nat \ {0}
    /\ PoolMultiplier \in Int /\ MinPool \in Int /\ MaxPool \in Int

ASSUME NoCandidateIsNone == NoCandidate \notin [video : Catalog, score : Int]

VARIABLES
    published,     \* published videos
    heat,          \* heat[v]: hot score
    taste,         \* videos similar to the user's vector; {} without a vector
    now,           \* ticks
    exposedAt,     \* exposedAt[v]: last_exposed_at
    reading,       \* the session of the client
    moves

recommendVars == <<published, heat, taste, now, exposedAt, reading, moves>>

NoSession == [at |-> "idle", size |-> 0, behind |-> NoCandidate, pool |-> NoCandidate,
              seen |-> <<>>, latest |-> <<>>, offered |-> Catalog, still |-> TRUE, full |-> TRUE]

RecommendInit ==
    /\ published = Catalog
    /\ heat \in Heats
    /\ taste = {}
    /\ now = 1
    /\ exposedAt = [v \in Catalog |-> Never]
    /\ reading = NoSession
    /\ moves = 0

-----------------------------------------------------------------------------
(* Scores and order. *)

Minute(t) == t \div 2

\* FreshnessScore: it falls with every minute.
Freshness(v) == LET age == Minute(now) - (PublishedAt[v] \div 2)
                IN  IF age > Fresh THEN 0 ELSE Fresh - age

\* LoadUserInterestVector finds a vector, in the cache or from the events.
HasUserVector == taste # {}

\* The vector of a video, against that of the user.
Similarity(v) == IF v \in taste THEN 2 ELSE 0

\* RankScore, with the two sets of weights.
RankScore(v, hot) ==
    IF HasUserVector
    THEN 14 * Similarity(v) + 4 * hot + 2 * Freshness(v)
    ELSE 13 * hot + 7 * Freshness(v)

\* sortCandidates. A ranked candidate is a record of video and score.
Better(c, d) ==
    \/ c.score > d.score
    \/ /\ c.score = d.score
       /\ \/ PublishedAt[c.video] > PublishedAt[d.video]
          \/ PublishedAt[c.video] = PublishedAt[d.video] /\ c.video > d.video

\* Wrong: only a lower score is behind the cursor.
LowerScore(c, cursor) == cursor = NoCandidate \/ c.score < cursor.score

\* filterByCursor.
Behind(c, cursor) == cursor = NoCandidate \/ Better(cursor, c)

\* The cursor of the next page, none for an empty page.
NextCandidate(chosen) == IF chosen = <<>> THEN NoCandidate ELSE Last(chosen)

\* rankCandidates: the candidates of a pool with their scores.
Scored(pool) == {[video |-> c.video, score |-> RankScore(c.video, c.hot)] : c \in pool}

\* In their order, those that filterByCursor keeps.
Ranked(pool, cursor) == RankedBy({c \in Scored(pool) : Behind(c, cursor)}, Better)

-----------------------------------------------------------------------------
(* interleaveByAuthor. *)

\* A candidate of the author shown last waits for the next pass.
Place(acc, c) ==
    IF acc.out # <<>> /\ AuthorOf[Last(acc.out).video] = AuthorOf[c.video]
    THEN [acc EXCEPT !.delayed = Append(@, c)]
    ELSE [acc EXCEPT !.out = Append(@, c)]

\* One pass over those that wait.
Spread(state) == FoldLeft(Place, [out |-> state.out, delayed |-> <<>>], state.delayed)

NextPass(state, c) == Spread(state)

\* As many passes as there are candidates: the last ones may place nothing.
Passes(s) == FoldLeft(NextPass, [out |-> <<>>, delayed |-> s], s)

\* Wrong: three candidates are taken for too few to reorder.
InterleaveLonger(s) ==
    IF Len(s) <= 3 THEN s
    ELSE Passes(s).out \o Passes(s).delayed

\* Passes until one places nothing; the rest comes last.
InterleaveByAuthor(s) ==
    IF Len(s) <= 2 THEN s
    ELSE Passes(s).out \o Passes(s).delayed

-----------------------------------------------------------------------------
(* A page. *)

\* ListRecentExposures, and the join of the pool.
RecentlyExposed(v, since) == exposedAt[v] # Never /\ exposedAt[v] >= since

\* What the pool is chosen from.
Eligible == {v \in published : ~RecentlyExposed(v, now - WeekTicks)}

Hotter(v, w) ==
    \/ heat[v] > heat[w]
    \/ heat[v] = heat[w] /\ PublishedAt[v] > PublishedAt[w]
    \/ heat[v] = heat[w] /\ PublishedAt[v] = PublishedAt[w] /\ v > w

\* ListCandidatePool of the repository: the hottest, with the heat they have.
Hottest(vs, n) ==
    LET sorted == RankedBy(vs, Hotter)
    IN  {[video |-> sorted[i], hot |-> heat[sorted[i]]] : i \in 1..Min({n, Len(sorted)})}

\* Several pages, within bounds.
CandidatePoolLimit(size) == Min({Max({size * PoolMultiplier, MinPool}), MaxPool})

\* The feed asks for a page.
ListCandidatePool ==
    /\ reading.at \in {"idle", "shown"}
    /\ \E size \in Limits :
        reading' = [reading EXCEPT !.at = "pool", !.size = size,
                                   !.pool = Hottest(Eligible, CandidatePoolLimit(size)),
                                   !.offered = @ \cap Eligible,
                                   !.full = @ /\ Cardinality(Eligible) <= CandidatePoolLimit(size)]
    /\ UNCHANGED <<published, heat, taste, now, exposedAt, moves>>

\* Recommend: the ranking, the cut behind the cursor, the next cursor, the
\* new order.
RankCandidates ==
    /\ reading.at = "pool"
    /\ LET ranked == Ranked(reading.pool, reading.behind)
           more   == Len(ranked) > reading.size
           chosen == IF more THEN SubSeq(ranked, 1, reading.size) ELSE ranked
           page   == InterleaveByAuthor(chosen)
       IN  reading' = [reading EXCEPT
                           !.at = IF more THEN "shown" ELSE "done",
                           !.behind = NextCandidate(chosen),
                           !.pool = NoCandidate,
                           !.seen = @ \o [i \in DOMAIN page |-> page[i].video],
                           !.latest = [i \in DOMAIN page |-> page[i].video]]
    /\ UNCHANGED <<published, heat, taste, now, exposedAt, moves>>

-----------------------------------------------------------------------------
(* What changes meanwhile. *)

Move == moves < MaxMoves /\ moves' = moves + 1

\* A page that cannot be loaded, or a client that has enough.
EndReading ==
    /\ reading.at # "idle"
    /\ reading' = NoSession
    /\ Move
    /\ UNCHANGED <<published, heat, taste, now, exposedAt>>

\* Scores have moved during the session.
Moved == reading' = [reading EXCEPT !.still = (reading.at = "idle")]

\* ensurePublishedVideo, for every video of a report.
AllPublished(vs) == vs \subseteq published

\* SaveExposures of the repository, one transaction: the last exposure.
Exposed(vs) == [v \in Catalog |-> IF v \in vs THEN now ELSE exposedAt[v]]

\* SaveExposures: a report, each video of it once; all of it, or nothing when a
\* video of it is gone.
SaveExposures ==
    /\ \E vs \in SUBSET ToSet(reading.seen) \ {{}} :
        /\ AllPublished(vs)
        /\ exposedAt' = Exposed(vs)
    /\ Move
    /\ UNCHANGED <<published, heat, taste, now, reading>>

HeatChanges ==
    /\ \E v \in Catalog : heat' = [heat EXCEPT ![v] = 1 - @]
    /\ Moved
    /\ Move
    /\ UNCHANGED <<published, taste, now, exposedAt>>

\* A view event or a rebuilt vector; the vector may also expire.
TasteChanges ==
    /\ \E vs \in Tastes \ {taste} : taste' = vs
    /\ Moved
    /\ Move
    /\ UNCHANGED <<published, heat, now, exposedAt>>

Withdraw ==
    /\ \E v \in published : published' = published \ {v}
    /\ Move
    /\ UNCHANGED <<heat, taste, now, exposedAt, reading>>

Tick ==
    /\ now < MaxTicks
    /\ now' = now + 1
    /\ IF Minute(now') = Minute(now) THEN UNCHANGED reading ELSE Moved
    /\ UNCHANGED <<published, heat, taste, exposedAt, moves>>

RecommendNext ==
    \/ ListCandidatePool \/ RankCandidates \/ EndReading
    \/ SaveExposures \/ HeatChanges \/ TasteChanges \/ Withdraw \/ Tick

RecommendSpec == RecommendInit /\ [][RecommendNext]_recommendVars

-----------------------------------------------------------------------------
\* DecideExposures: the window of the decision counts from the minute.
Allowed(v) == ~RecentlyExposed(v, 2 * Minute(now) - WeekTicks)

\* A video comes twice in a session only when scores moved: exposures, and
\* those that grow old, never bring one back.
NothingComesTwice == reading.still => Cardinality(ToSet(reading.seen)) = Len(reading.seen)

\* Who reads to the end while scores stand still, and no pool was too small,
\* has seen every video that could be offered at each page.
NothingIsMissed ==
    (reading.at = "done" /\ reading.still /\ reading.full) =>
        reading.offered \subseteq ToSet(reading.seen)

\* What the exposure decision lets pass, the pool does too.
DecisionsAgree == \A v \in published : Allowed(v) => v \in Eligible

(* Paging through recommendations over a pool that is made anew for every  *)
(* page: no video twice, none missed, whatever is exposed in between.      *)
RecommendedOnce == NothingComesTwice /\ NothingIsMissed /\ DecisionsAgree

(* Two videos of one author follow each other only at the end of a page,   *)
(* where nothing else is left.                                             *)
AuthorsAlternate ==
    LET author(i) == AuthorOf[reading.latest[i]]
    IN  \A i, j \in DOMAIN reading.latest :
            (i > 1 /\ author(i) = author(i - 1) /\ j > i) => author(j) = author(i)

-----------------------------------------------------------------------------
(* The strengthening that is inductive. *)

Candidate == [video : Catalog, score : Int]

RecommendTypes ==
    /\ published \subseteq Catalog
    /\ heat \in [Catalog -> Int]
    /\ now \in Nat
    /\ exposedAt \in [Catalog -> Nat \cup {Never}]
    /\ reading \in [at : {"idle", "pool", "shown", "done"}, size : Nat,
                    behind : Candidate \cup {NoCandidate},
                    pool : (SUBSET [video : Catalog, hot : Int]) \cup {NoCandidate},
                    seen : Seq(Catalog), latest : Seq(Catalog), offered : SUBSET Catalog,
                    still : BOOLEAN, full : BOOLEAN]
    /\ reading.at = "idle" => reading = NoSession
    /\ reading.at = "pool" =>
          reading.pool \subseteq [video : Catalog, hot : Int] /\ reading.size # 0

\* What a video would be ranked as now.
Standing(v) == [video |-> v, score |-> RankScore(v, heat[v])]

\* A pool has a video once; while scores stand still, with the heat it has.
PoolIsCurrent ==
    reading.at = "pool" =>
        /\ \A c, d \in reading.pool : c.video = d.video => c = d
        /\ reading.still = TRUE => \A c \in reading.pool : c.hot = heat[c.video]

\* The cursor stands where it would be ranked now, behind all that was shown.
CursorIsCurrent ==
    reading.still = TRUE /\ reading.at \in {"pool", "shown"} =>
        /\ reading.behind # NoCandidate => reading.behind = Standing(reading.behind.video)
        /\ \A v \in ToSet(reading.seen) :
              reading.behind # NoCandidate /\ ~Better(reading.behind, Standing(v))

\* No video is shown twice.
SeenOnce ==
    reading.still = TRUE =>
        \A i, j \in 1..Len(reading.seen) : reading.seen[i] = reading.seen[j] => i = j

\* What could be offered at each page was seen, or is behind the cursor and, once
\* there is a pool, in it.
OfferedIsAhead ==
    (reading.still = TRUE /\ reading.full = TRUE) =>
        \A v \in reading.offered :
            \/ v \in ToSet(reading.seen)
            \/ /\ reading.at # "done" /\ Behind(Standing(v), reading.behind)
               /\ reading.at = "pool" => \E c \in reading.pool : c.video = v

RecommendIInv ==
    /\ RecommendTypes /\ PoolIsCurrent /\ CursorIsCurrent /\ SeenOnce /\ OfferedIsAhead
    /\ AuthorsAlternate
================================================================================
