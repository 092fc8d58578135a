--------------------------------- MODULE Videos ---------------------------------
(***************************************************************************)
(* What the database keeps of one author: the rows of video and the        *)
(* nickname in account, with the statements the video, account and feed    *)
(* repositories execute on them. The author stands for all: an             *)
(* idempotency key, a profile and the cached cards belong to one author.   *)
(*                                                                         *)
(* Nickname and avatar are one value here, the profile; ids are handed out *)
(* in order. The draft and offline states of a video are never entered by  *)
(* this code.                                                              *)
(*                                                                         *)
(* Source: internal/infra/persistence/{video,account,feed}/gorm.go and     *)
(* internal/domain/{video,account}/entity.go.                              *)
(***************************************************************************)
EXTENDS FiniteSetsExt, Integers

CONSTANTS
    Videos,     \* ids, 1..n: the videos the author may come to have
    Keys,       \* idempotency keys
    NoKey,
    Profiles,   \* what the author may call himself
    FirstProfile,
    NoCard      \* no card for this video

VARIABLES
    row,        \* row[v]: status and key
    profile     \* nickname and avatar of the author

ASSUME VideosNumbered == IsFiniteSet(Videos) /\ Videos = 1..Cardinality(Videos)

ASSUME NoKeyIsNone == NoKey \notin Keys

ASSUME ProfilesNamed == FirstProfile \in Profiles /\ NoCard \notin Profiles

Absent == [status |-> "absent", key |-> NoKey]

\* The author may have published before.
CatalogueInit ==
    /\ \E n \in {0, 1} :
        row = [v \in Videos |-> IF v <= n THEN [status |-> "published", key |-> NoKey] ELSE Absent]
    /\ profile = FirstProfile

Free == {v \in Videos : row[v].status = "absent"}

\* A video is published as it is created. Title, description, tags and URLs are
\* checked by value and are not kept here.
NewPublished(k) == [status |-> "published", key |-> k]

\* The author deletes a video; one that is deleted stays so.
DeleteBy(r) == [r EXCEPT !.status = "deleted"]

FindByAuthorAndIdempotencyKey(k) == {v \in Videos : k # NoKey /\ row[v].status # "absent" /\ row[v].key = k}

FindByIDAnyStatus(v) == row[v]

\* Wrong: no unique index.
NeverDuplicate(k) == k \notin Keys \cup {NoKey}

\* The unique index on author and key; a missing key is NULL and never clashes.
DuplicateKey(k) == FindByAuthorAndIdempotencyKey(k) # {}

\* The row of the video, with its statistics and tags, in one transaction.
SaveVideo(v, k) == row' = [row EXCEPT ![v] = NewPublished(k)]

UpdateStatus(v, r) == row' = [row EXCEPT ![v].status = r.status]

\* What a request leaves out (NoCard) keeps the value that was read.
Updated(read, data) == IF data = NoCard THEN read ELSE data

UpdateProfile(data) == profile' = data

\* What the feed shows cards of.
Listed == {v \in Videos : row[v].status = "published"}
================================================================================
