---------------------------- MODULE InteractionLocks ----------------------------
(***************************************************************************)
(* The locks that SetAction, CreateComment and DeleteComment take, on      *)
(* several videos at once, under MySQL's default isolation (repeatable     *)
(* read; database.go asks for no other). InteractionTx has the values of   *)
(* the rows of one video; this module has who waits for whom.              *)
(*                                                                         *)
(* Locks on records are exclusive and belong to one video, but two unique  *)
(* indexes span all videos: interaction_action by user, video and type,    *)
(* interaction_comment by user and idempotency key. A row has a place, a   *)
(* number, in the order of its index. SELECT ... FOR UPDATE that finds no  *)
(* row locks the gap the row would stand in: others may lock the same gap, *)
(* but nobody may insert into a gap that another transaction has locked.   *)
(* An insertion that meets an uncommitted row with the same key asks for   *)
(* that row and the gap before it, and waits for the row's transaction.    *)
(* A gap goes by the record it ends with: a row inserted into a gap, or    *)
(* removed by a rollback, splits or joins what is locked.                  *)
(*                                                                         *)
(* A comment without a key has a place of its own. Left out are the gaps   *)
(* locked by a search for a video, a comment or counters that are not      *)
(* there: the transaction ends at once and waits for nobody.               *)
(*                                                                         *)
(* Source: infra/persistence/interaction/gorm.go and model.go. How InnoDB  *)
(* locks gaps is external.                                                 *)
(***************************************************************************)
EXTENDS Naturals, FiniteSets

CONSTANTS
    Sessions,   \* goroutines with a call of the repository
    Videos,
    Places,     \* the places rows may have in the unique indexes
    End,        \* the place behind all rows, where the last gap ends
    VideoAt,    \* the video of the action row at each place
    Offers,     \* the calls a session may make (bound)
    Nobody,     \* the inserter of a committed row
    Missing,    \* a place without a row
    NoVideo,    \* the video of a deletion that has not read its comment yet
    NoCall

Ops    == {"setAction", "createComment", "deleteComment"}
Tables == {"action", "comment"}
Call   == [op : Ops, place : Places, video : Videos \cup {NoVideo}]
Row    == [by : Sessions \cup {Nobody}, video : Videos]

ASSUME PlacesAreNumbers == Places \subseteq Nat
ASSUME ActionsHaveVideos == VideoAt \in [Places -> Videos]
ASSUME NothingIsSomething ==
    Nobody \notin Sessions /\ Missing \notin Row /\ NoVideo \notin Videos /\ NoCall \notin Call

\* An action's place says which video it is on; a deletion learns it from the comment.
ASSUME OffersTyped ==
    /\ Offers \subseteq Call
    /\ \A c \in Offers : /\ c.op = "setAction" => c.video = VideoAt[c.place]
                         /\ c.op # "deleteComment" => c.video \in Videos

VARIABLES
    step,      \* what each session does next
    call,      \* the call it serves
    row,       \* row[table][place]: who has inserted it, and of which video it is
    records,   \* the records each session has locked
    gaps       \* the gaps it has locked, or waits for together with a record

lockVars == <<step, call, row, records, gaps>>

VideoRecord(v)   == <<"video", v>>
StatRecord(v)    == <<"stat", v>>
ActionRecord(n)  == <<"action", n>>
CommentRecord(n) == <<"comment", n>>

InitLocks ==
    /\ step = [s \in Sessions |-> "idle"]
    /\ call = [s \in Sessions |-> NoCall]
    /\ row = [t \in Tables |-> [n \in Places |-> Missing]]
    /\ records = [s \in Sessions |-> {}]
    /\ gaps = [s \in Sessions |-> {}]

Table(s) == IF call[s].op = "setAction" THEN "action" ELSE "comment"
Place(s) == call[s].place
Found(s) == row[Table(s)][Place(s)]
Own(s)   == <<Table(s), Place(s)>>

\* The gap that the row of the call would stand in, or stands at the end of.
Gap(s) ==
    LET later == {n \in Places : n > Place(s) /\ row[Table(s)][n] # Missing}
    IN  <<Table(s), IF later = {} THEN End
                    ELSE CHOOSE n \in later : \A m \in later : n <= m>>

\* Whom the next statement of s waits for.
Holders(r)  == {q \in Sessions : r \in records[q]}
Inserter(s) == {q \in Sessions : Found(s) # Missing /\ Found(s).by = q}

Blockers(s) ==
    (CASE step[s] = "comment" -> Holders(CommentRecord(Place(s))) \cup Inserter(s)
       [] step[s] = "video"   -> Holders(VideoRecord(call[s].video))
       [] step[s] = "look"    -> Holders(ActionRecord(Place(s))) \cup Inserter(s)
       [] step[s] = "insert"  -> IF Found(s) = Missing
                                 THEN {q \in Sessions : Gap(s) \in gaps[q]}
                                 ELSE Inserter(s)
       [] step[s] = "stat"    -> Holders(StatRecord(call[s].video))
       [] OTHER               -> {}) \ {s}

Take(s, r) == records' = [records EXCEPT ![s] = @ \cup {r}]
To(s, label) == step' = [step EXCEPT ![s] = label]

\* The transaction ends and its locks go.
EndCall(s) ==
    /\ To(s, "idle")
    /\ call' = [call EXCEPT ![s] = NoCall]
    /\ records' = [records EXCEPT ![s] = {}]

Arrive(s, c) ==
    /\ step[s] = "idle"
    /\ call' = [call EXCEPT ![s] = c]
    /\ To(s, IF c.op = "deleteComment" THEN "comment" ELSE "video")
    /\ UNCHANGED <<row, records, gaps>>

\* Wrong variant: the counters are locked together with the comment.
CommentAndStatLock(s) ==
    /\ step[s] = "comment"
    /\ Found(s) # Missing
    /\ Blockers(s) = {} /\ Holders(StatRecord(Found(s).video)) = {}
    /\ records' = [records EXCEPT ![s] = {CommentRecord(Place(s)), StatRecord(Found(s).video)}]
    /\ call' = [call EXCEPT ![s].video = Found(s).video]
    /\ To(s, "video")
    /\ UNCHANGED <<row, gaps>>

\* DeleteComment locks the comment, which names the video.
CommentLock(s) ==
    /\ step[s] = "comment"
    /\ Found(s) # Missing
    /\ Blockers(s) = {}
    /\ Take(s, CommentRecord(Place(s)))
    /\ call' = [call EXCEPT ![s].video = Found(s).video]
    /\ To(s, "video")
    /\ UNCHANGED <<row, gaps>>

AfterVideoLock(s) ==
    CASE call[s].op = "setAction"     -> "look"
      [] call[s].op = "createComment" -> "insert"
      [] call[s].op = "deleteComment" -> "stat"

\* lockPublishedVideo, or the video of the comment.
VideoLock(s) ==
    /\ step[s] = "video"
    /\ Blockers(s) = {}
    /\ Take(s, VideoRecord(call[s].video))
    /\ To(s, AfterVideoLock(s))
    /\ UNCHANGED <<call, row, gaps>>

\* The withdrawn video, the missing comment, the missing permission, and the row
\* that is there already: the transaction ends. What refuses it was read when it
\* could be locked.
Refused(s) ==
    /\ \/ step[s] = "comment" /\ Found(s) = Missing
       \/ step[s] = "video" /\ Blockers(s) = {}
       \/ step[s] = "insert" /\ Found(s) # Missing /\ Found(s).by = Nobody
    /\ EndCall(s)
    /\ gaps' = [gaps EXCEPT ![s] = {}]
    /\ UNCHANGED row

\* SetAction looks for its row: the record is locked, or the gap it is missing from.
Look(s) ==
    /\ step[s] = "look"
    /\ Blockers(s) = {}
    /\ \/ /\ Found(s) # Missing
          /\ Take(s, ActionRecord(Place(s)))
          /\ To(s, "stat")
          /\ UNCHANGED gaps
       \/ /\ Found(s) = Missing
          /\ gaps' = [gaps EXCEPT ![s] = @ \cup {Gap(s)}]
          /\ To(s, "insert")
          /\ UNCHANGED records
    /\ UNCHANGED <<call, row>>

\* The insertion of SetAction or CreateComment; a gap of its own is split in two.
InsertRow(s) ==
    /\ step[s] = "insert"
    /\ Found(s) = Missing
    /\ Blockers(s) = {}
    /\ row' = [row EXCEPT ![Table(s)][Place(s)] = [by |-> s, video |-> call[s].video]]
    /\ gaps' = [gaps EXCEPT ![s] = IF Gap(s) \in @ THEN @ \cup {Own(s)} ELSE @]
    /\ To(s, "stat")
    /\ UNCHANGED <<call, records>>

\* The row is there, uncommitted: the insertion asks for it and the gap before it.
AskForRow(s) ==
    /\ step[s] = "insert"
    /\ Inserter(s) # {}
    /\ Own(s) \notin gaps[s]
    /\ gaps' = [gaps EXCEPT ![s] = @ \cup {Own(s)}]
    /\ UNCHANGED <<step, call, row, records>>

StatLock(s) ==
    /\ step[s] = "stat"
    /\ Blockers(s) = {}
    /\ Take(s, StatRecord(call[s].video))
    /\ To(s, "commit")
    /\ UNCHANGED <<call, row, gaps>>

Inserted(s) == Found(s) # Missing /\ Found(s).by = s

CommitRows(s) ==
    /\ step[s] = "commit"
    /\ row' = IF Inserted(s)
              THEN [row EXCEPT ![Table(s)][Place(s)].by = Nobody]
              ELSE row
    /\ EndCall(s)
    /\ gaps' = [gaps EXCEPT ![s] = {}]

\* An error, a timeout, the victim of a circle: the inserted row goes, and whoever
\* has locked the gap that ended with it has now locked the one it is joined to.
RollBack(s) ==
    /\ step[s] # "idle"
    /\ EndCall(s)
    /\ \/ /\ Inserted(s)
          /\ row' = [row EXCEPT ![Table(s)][Place(s)] = Missing]
          /\ gaps' = [q \in Sessions |->
                        IF q = s THEN {}
                        ELSE IF Own(s) \in gaps[q] THEN (gaps[q] \ {Own(s)}) \cup {Gap(s)}
                        ELSE gaps[q]]
       \/ /\ ~Inserted(s)
          /\ gaps' = [gaps EXCEPT ![s] = {}]
          /\ UNCHANGED row

NextLocks ==
    \E s \in Sessions :
        \/ \E c \in Offers : Arrive(s, c)
        \/ CommentLock(s) \/ VideoLock(s) \/ Refused(s)
        \/ Look(s) \/ InsertRow(s) \/ AskForRow(s)
        \/ StatLock(s) \/ CommitRows(s) \/ RollBack(s)

LocksSpec == InitLocks /\ [][NextLocks]_lockVars

--------------------------------------------------------------------------------
(* Properties *)

Labels == {"idle", "comment", "video", "look", "insert", "stat", "commit"}

RecordNames == {VideoRecord(v) : v \in Videos} \cup {StatRecord(v) : v \in Videos}
               \cup {ActionRecord(n) : n \in Places} \cup {CommentRecord(n) : n \in Places}

LocksTypeOK ==
    /\ step \in [Sessions -> Labels]
    /\ call \in [Sessions -> Call \cup {NoCall}]
    /\ row \in [Tables -> [Places -> Row \cup {Missing}]]
    /\ records \in [Sessions -> SUBSET RecordNames]
    /\ gaps \in [Sessions -> SUBSET (Tables \X (Places \cup {End}))]

\* Each of S waits for another of S: InnoDB has to choose a victim among them.
Circle(S) == S # {} /\ \A s \in S : Blockers(s) \cap S # {}

InsertingOf(S) == {s \in S : step[s] = "insert"}

(* Transactions do wait for each other in circles: two first actions, on two *)
(* videos, that have locked one gap (gorm.go:116) and insert into it (135),  *)
(* or two creations with one key whose first one is rolled back (204). But   *)
(* every circle is made of insertions, all on different videos: the order in *)
(* which comments, videos, actions and counters are locked adds none, though *)
(* deletions lock the comment before the video and the others after it.      *)
CirclesAreOfInserts ==
    \A S \in SUBSET Sessions : Circle(S) =>
        /\ Circle(InsertingOf(S))
        /\ \A s, q \in InsertingOf(S) : s # q => call[s].video # call[q].video

(* The strengthening it follows from. A record is locked by one transaction  *)
(* at a time.                                                                *)
OneHolder == \A s, q \in Sessions : s # q => records[s] \cap records[q] = {}

Within(s) == step[s] \in {"look", "insert", "stat", "commit"}

(* A transaction holds its video from the lock on, and on its way there at   *)
(* most a comment; what it locks later belongs to that video.                *)
Ordered ==
    \A s \in Sessions :
        /\ step[s] = "idle" <=> call[s] = NoCall
        /\ Within(s) => VideoRecord(call[s].video) \in records[s]
        /\ step[s] \in {"idle", "comment"} => records[s] = {}
        /\ step[s] = "video" => records[s] \subseteq {CommentRecord(Place(s))}
        /\ step[s] = "comment" => call[s].op = "deleteComment"
        /\ step[s] = "look" => call[s].op = "setAction"
        /\ step[s] = "insert" => call[s].op # "deleteComment"
        /\ step[s] \notin {"idle", "comment"} => call[s].video \in Videos
        /\ step[s] # "idle" /\ call[s].op = "setAction" => call[s].video = VideoAt[Place(s)]

(* Each record locked is one of the transaction's call.                      *)
OwnRecords ==
    \A s \in Sessions : \A r \in records[s] :
        \/ r = VideoRecord(call[s].video) /\ Within(s)
        \/ r = StatRecord(call[s].video) /\ Within(s)
        \/ r = ActionRecord(Place(s)) /\ Within(s) /\ call[s].op = "setAction"
        \/ r = CommentRecord(Place(s)) /\ call[s].op = "deleteComment"

(* Gaps are locked, and rows inserted, behind the lock of the video only.    *)
GapsBehindVideo ==
    \A s \in Sessions : gaps[s] # {} => step[s] \in {"insert", "stat", "commit"}

RowsBehindVideo ==
    \A s \in Sessions, t \in Tables, n \in Places :
        row[t][n] # Missing /\ row[t][n].by = s =>
            /\ step[s] \in {"stat", "commit"}
            /\ call[s].op # "deleteComment"
            /\ t = Table(s) /\ n = Place(s)

LocksIInv ==
    /\ LocksTypeOK /\ OneHolder /\ Ordered /\ OwnRecords
    /\ GapsBehindVideo /\ RowsBehindVideo
================================================================================
