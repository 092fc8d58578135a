----------------------------- MODULE InteractionTx -----------------------------
(***************************************************************************)
(* The transactions of the interaction repository on one video, at the     *)
(* granularity of InnoDB row locks: SetAction (like, favorite),            *)
(* CreateComment, DeleteComment and the soft delete of the video run       *)
(* concurrently, wait for each other's rows, and may be rolled back at any *)
(* point. Every transaction reads and writes the rows of one video only,   *)
(* so one video is enough for what becomes of them. What transactions on   *)
(* several videos share is gaps in two unique indexes and keys of          *)
(* comments, for which they wait (InteractionLocks); such a wait ends in a *)
(* Commit or an Abort of this module.                                      *)
(*                                                                         *)
(* A transaction reads each row when it locks it (SELECT ... FOR UPDATE    *)
(* reads the last committed version) and its writes become visible at      *)
(* Commit, which also releases its locks.                                  *)
(*                                                                         *)
(* Source: internal/infra/persistence/interaction/gorm.go, with the        *)
(* idempotency lookup of internal/application/interaction/comment.go.      *)
(***************************************************************************)
EXTENDS ActionRules, FiniteSets

CONSTANTS
    Procs,       \* goroutines that run repository calls (handlers, workers)
    Users,       \* accounts
    Types,       \* the action types: LIKE and FAVORITE
    CommentIds,  \* primary keys interaction_comment may allocate (bound)
    Author,      \* the author of the video
    Admins       \* the users whose token carries the admin role

ASSUME UsersFinite      == IsFiniteSet(Users)
ASSUME CommentIdsFinite == IsFiniteSet(CommentIds)
ASSUME AdminsAreUsers   == Admins \subseteq Users

VARIABLES
    published,     \* video.status = StatusPublished
    action,        \* action[t][u]: the row of interaction_action
    tally,         \* tally[t]: like_count or favorite_count of video_stat
    comment,       \* comment[c]: the row of interaction_comment
    commentTally,  \* comment_count of video_stat
    pc,            \* what each goroutine does next
    req,           \* the call each goroutine serves
    held,          \* the rows each transaction has locked
    delta,         \* the count delta the transaction has decided on
    count          \* the counter value the transaction will write or return

rows == <<published, action, tally, comment, commentTally>>
locals == <<pc, req, held, delta, count>>
vars == <<published, action, tally, comment, commentTally, pc, req, held, delta, count>>

Normal  == "normal"
Deleted == "deleted"
NoOne   == "no one"      \* the user of a comment id that is not allocated yet

SetRequest    == [op : {"setAction"}, user : Users, type : Types,
                  active : BOOLEAN, key : Key]
CreateRequest == [op : {"createComment"}, user : Users, key : Key]
DeleteRequest == [op : {"deleteComment"}, user : Users, id : CommentIds]
NoRequest     == [op |-> "none"]
Request       == SetRequest \cup CreateRequest \cup DeleteRequest

CommentRow == [status : {Unset, Normal, Deleted}, user : Users \cup {NoOne}, key : Key]
NoComment  == [status |-> Unset, user |-> NoOne, key |-> NoKey]

VideoRow        == <<"video">>
StatRow         == <<"stat">>
ActionRow(t, u) == <<"action", t, u>>
CommentIdRow(c) == <<"comment", c>>
RowNames == {VideoRow, StatRow} \cup {ActionRow(t, u) : t \in Types, u \in Users}
                                \cup {CommentIdRow(c) : c \in CommentIds}

PCs == {"idle", "lookup", "comment", "video", "action", "insert", "stat", "commit"}

Init ==
    /\ published = TRUE
    /\ action = [t \in Types |-> [u \in Users |-> Absent]]
    /\ tally = [t \in Types |-> 0]
    /\ comment = [c \in CommentIds |-> NoComment]
    /\ commentTally = 0
    /\ pc = [p \in Procs |-> "idle"]
    /\ req = [p \in Procs |-> NoRequest]
    /\ held = [p \in Procs |-> {}]
    /\ delta = [p \in Procs |-> 0]
    /\ count = [p \in Procs |-> 0]

Free(r) == \A q \in Procs : r \notin held[q]

\* Every row lock of these transactions is exclusive (FOR UPDATE).
Lock(p, r) ==
    /\ Free(r)
    /\ held' = [held EXCEPT ![p] = @ \cup {r}]

Goto(p, label) == pc' = [pc EXCEPT ![p] = label]

\* The transaction ends, by commit or rollback: its locks are released.
Finish(p) ==
    /\ pc'    = [pc EXCEPT ![p] = "idle"]
    /\ req'   = [req EXCEPT ![p] = NoRequest]
    /\ held'  = [held EXCEPT ![p] = {}]
    /\ delta' = [delta EXCEPT ![p] = 0]
    /\ count' = [count EXCEPT ![p] = 0]

FreshIds == {c \in CommentIds : comment[c].status = Unset}
Creating == {q \in Procs : req[q].op = "createComment"}

\* A call arrives. CommentIds bounds how many comments are ever created.
Begin(p, r) ==
    /\ pc[p] = "idle"
    /\ r.op = "createComment" => Cardinality(FreshIds) > Cardinality(Creating)
    /\ req' = [req EXCEPT ![p] = r]
    /\ \/ r.op = "setAction"     /\ Goto(p, "video")
       \/ r.op = "createComment" /\ Goto(p, "lookup")
       \/ r.op = "deleteComment" /\ Goto(p, "comment")
    /\ UNCHANGED <<rows, held, delta, count>>

\* The committed comment of the same user with the same non-empty key.
SameKey(u, k) == {c \in CommentIds : /\ k # NoKey
                                     /\ comment[c].status # Unset
                                     /\ comment[c].user = u
                                     /\ comment[c].key = k}

\* CreateComment first looks the key up, outside the transaction.
Lookup(p) ==
    /\ pc[p] = "lookup"
    /\ IF SameKey(req[p].user, req[p].key) # {}
       THEN Finish(p)
       ELSE Goto(p, "video") /\ UNCHANGED <<req, held, delta, count>>
    /\ UNCHANGED rows

\* Wrong variant: the status is read without waiting for the row's lock.
LockCommentUnlocked(p) ==
    /\ pc[p] = "comment"
    /\ IF comment[req[p].id].status = Unset
       THEN Finish(p)
       ELSE /\ delta' = [delta EXCEPT ![p] = IF comment[req[p].id].status = Normal THEN -1 ELSE 0]
            /\ Goto(p, "video")
            /\ UNCHANGED <<req, held, count>>
    /\ UNCHANGED rows

\* DeleteComment locks the comment first; a deleted one changes no counter.
LockComment(p) ==
    /\ pc[p] = "comment"
    /\ Free(CommentIdRow(req[p].id))
    /\ IF comment[req[p].id].status = Unset
       THEN Finish(p)
       ELSE /\ Lock(p, CommentIdRow(req[p].id))
            /\ delta' = [delta EXCEPT ![p] = IF comment[req[p].id].status = Normal THEN -1 ELSE 0]
            /\ Goto(p, "video")
            /\ UNCHANGED <<req, count>>
    /\ UNCHANGED rows

\* CanDeleteComment: the comment's owner, the video's author, or an admin.
CanDelete(p) ==
    \/ req[p].user = comment[req[p].id].user
    \/ req[p].user = Author
    \/ req[p].user \in Admins

AfterVideo(p) ==
    IF req[p].op = "setAction" THEN "action"
    ELSE IF req[p].op = "createComment" THEN "insert"
    ELSE "stat"

\* Wrong variant: the video row is read, its lock is not taken.
LockVideoUnlocked(p) ==
    /\ pc[p] = "video"
    /\ IF \/ req[p].op # "deleteComment" /\ ~published
          \/ req[p].op = "deleteComment" /\ ~CanDelete(p)
       THEN Finish(p)
       ELSE Goto(p, AfterVideo(p)) /\ UNCHANGED <<req, held, delta, count>>
    /\ UNCHANGED rows

\* SetAction and CreateComment need a published video (lockPublishedVideo);
\* DeleteComment needs the permission and accepts a withdrawn video.
LockVideo(p) ==
    /\ pc[p] = "video"
    /\ Free(VideoRow)
    /\ IF \/ req[p].op # "deleteComment" /\ ~published
          \/ req[p].op = "deleteComment" /\ ~CanDelete(p)
       THEN Finish(p)
       ELSE /\ Lock(p, VideoRow)
            /\ Goto(p, AfterVideo(p))
            /\ UNCHANGED <<req, delta, count>>
    /\ UNCHANGED rows

\* SetAction reads the user's row under its lock and decides the delta. A row that
\* is not there cannot be locked: the gap it is missing from is, which keeps nobody
\* of this video away; the video's lock does.
LockAction(p) ==
    LET r == req[p] IN
    /\ pc[p] = "action"
    /\ \/ action[r.type][r.user].status # Unset /\ Lock(p, ActionRow(r.type, r.user))
       \/ action[r.type][r.user].status = Unset /\ UNCHANGED held
    /\ delta' = [delta EXCEPT ![p] = RowDelta(action[r.type][r.user], r.active, r.key)]
    /\ Goto(p, "stat")
    /\ UNCHANGED <<rows, req, count>>

\* Wrong variant: the unique key (user_id, idempotency_key) is not enforced.
InsertCommentNoUniqueKey(p) ==
    /\ pc[p] = "insert"
    /\ delta' = [delta EXCEPT ![p] = 1]
    /\ Goto(p, "stat")
    /\ UNCHANGED <<rows, req, held, count>>

\* CreateComment inserts its row; on a duplicate key it rolls back and loads
\* the existing comment, which changes nothing.
InsertComment(p) ==
    /\ pc[p] = "insert"
    /\ IF SameKey(req[p].user, req[p].key) # {}
       THEN Finish(p)
       ELSE /\ delta' = [delta EXCEPT ![p] = 1]
            /\ Goto(p, "stat")
            /\ UNCHANGED <<req, held, count>>
    /\ UNCHANGED rows

\* The counter the request is about, as video_stat has it now.
Counter(p) == IF req[p].op = "setAction" THEN tally[req[p].type] ELSE commentTally

\* updateVideoStatCounter or currentVideoStatCounter: lock and read the row.
LockStat(p) ==
    /\ pc[p] = "stat"
    /\ Lock(p, StatRow)
    /\ count' = [count EXCEPT ![p] = Clamp(Counter(p) + delta[p])]
    /\ Goto(p, "commit")
    /\ UNCHANGED <<rows, req, delta>>

CommitAction(p) ==
    LET r == req[p] IN
    /\ action' = [action EXCEPT ![r.type][r.user] =
                     RowAfter(action[r.type][r.user], r.active, r.key)]
    /\ tally' = [tally EXCEPT ![r.type] = count[p]]
    /\ UNCHANGED <<published, comment, commentTally>>

CommitCreate(p) ==
    \E c \in FreshIds :
        /\ comment' = [comment EXCEPT ![c] =
                         [status |-> Normal, user |-> req[p].user, key |-> req[p].key]]
        /\ commentTally' = count[p]
        /\ UNCHANGED <<published, action, tally>>

CommitDelete(p) ==
    /\ comment' = [comment EXCEPT ![req[p].id].status = Deleted]
    /\ commentTally' = count[p]
    /\ UNCHANGED <<published, action, tally>>

Commit(p) ==
    /\ pc[p] = "commit"
    /\ \/ req[p].op = "setAction"     /\ CommitAction(p)
       \/ req[p].op = "createComment" /\ CommitCreate(p)
       \/ req[p].op = "deleteComment" /\ CommitDelete(p)
    /\ Finish(p)

\* A database error, a lock wait timeout, a deadlock victim or the death of
\* the process: the transaction is rolled back.
Abort(p) ==
    /\ pc[p] # "idle"
    /\ Finish(p)
    /\ UNCHANGED rows

\* The author deletes the video: one UPDATE, which waits for the row's lock.
Withdraw ==
    /\ published
    /\ Free(VideoRow)
    /\ published' = FALSE
    /\ UNCHANGED <<action, tally, comment, commentTally, locals>>

Advance(p) ==
    \/ Lookup(p) \/ LockComment(p) \/ LockVideo(p) \/ LockAction(p)
    \/ InsertComment(p) \/ LockStat(p) \/ Commit(p)

Next ==
    \/ \E p \in Procs : \/ \E r \in Request : Begin(p, r)
                        \/ Advance(p)
                        \/ Abort(p)
    \/ Withdraw

Spec == Init /\ [][Next]_vars

--------------------------------------------------------------------------------
(* Properties *)

TypeOK ==
    /\ published \in BOOLEAN
    /\ action \in [Types -> [Users -> Record]]
    /\ tally \in [Types -> Nat]
    /\ comment \in [CommentIds -> CommentRow]
    /\ commentTally \in Nat
    /\ pc \in [Procs -> PCs]
    /\ req \in [Procs -> Request \cup {NoRequest}]
    /\ held \in [Procs -> SUBSET RowNames]
    /\ delta \in [Procs -> {-1, 0, 1}]
    /\ count \in [Procs -> Nat]

Marked(t) == {u \in Users : action[t][u].status = Active}
Visible   == {c \in CommentIds : comment[c].status = Normal}

(* like_count and favorite_count of video_stat always are the numbers of     *)
(* active rows of interaction_action: concurrent requests, replays, clamps   *)
(* and rollbacks never make the counter drift from the rows.                 *)
ActionCountsAgree == \A t \in Types : tally[t] = Cardinality(Marked(t))

(* comment_count always is the number of comments in status Normal, whatever *)
(* creates, duplicate creates and double deletes run at the same time.       *)
CommentCountAgrees == commentTally = Cardinality(Visible)

(* A client's retry never creates a second comment: no two rows have the     *)
(* same user and the same non-empty idempotency key.                         *)
CommentKeysUnique ==
    \A u \in Users, k \in Keys : Cardinality(SameKey(u, k)) <= 1

(* Once a video is withdrawn its likes and favorites and their counters are  *)
(* frozen and it gains no comment, even for transactions begun before: they  *)
(* either commit before the withdrawal or find the video gone.               *)
WithdrawnIsFrozen ==
    [][~published => /\ UNCHANGED <<published, action, tally>>
                     /\ Visible' \subseteq Visible]_vars

(* The strengthening under which the invariants above are inductive.         *)
(* Exclusive: a row is locked by one transaction at a time.                  *)
Exclusive == \A p, q \in Procs : p # q => held[p] \cap held[q] = {}

Past(p, labels) == pc[p] \in labels
Inside == {"action", "insert", "stat", "commit"}

(* Staged: the request a goroutine serves fits its next step, and it holds   *)
(* the video row from the step that locks it to the end of the transaction.  *)
Staged ==
    \A p \in Procs :
        /\ pc[p] = "idle" => req[p] = NoRequest
        /\ pc[p] # "idle" => req[p] \in Request
        /\ Past(p, {"lookup", "insert"}) => req[p].op = "createComment"
        /\ pc[p] = "comment" => req[p].op = "deleteComment"
        /\ pc[p] = "action" => req[p].op = "setAction"
        /\ Past(p, Inside) => VideoRow \in held[p]

(* Decided: what a transaction has read under its locks is still true.       *)
Decided ==
    \A p \in Procs :
        /\ req[p].op = "setAction" /\ Past(p, {"stat", "commit"}) =>
              delta[p] = RowDelta(action[req[p].type][req[p].user],
                                  req[p].active, req[p].key)
        /\ req[p].op # "deleteComment" /\ Past(p, Inside) => published
        /\ req[p].op = "createComment" /\ Past(p, {"stat", "commit"}) =>
              delta[p] = 1 /\ SameKey(req[p].user, req[p].key) = {}
        /\ req[p].op = "deleteComment" /\ Past(p, {"video", "stat", "commit"}) =>
              /\ CommentIdRow(req[p].id) \in held[p]
              /\ comment[req[p].id].status # Unset
              /\ delta[p] = IF comment[req[p].id].status = Normal THEN -1 ELSE 0
        /\ pc[p] = "commit" => count[p] = Clamp(Counter(p) + delta[p])

IInv == /\ TypeOK /\ Exclusive /\ Staged /\ Decided
        /\ ActionCountsAgree /\ CommentCountAgrees /\ CommentKeysUnique

(* The row-lock transactions implement the promise of InteractionLedger.     *)
Ledger == INSTANCE InteractionLedger WITH
              marks   <- [t \in Types |-> Marked(t)],
              visible <- Visible

LedgerSpec == Ledger!Spec
================================================================================
