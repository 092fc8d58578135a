-------------------------------- MODULE Playback --------------------------------
(***************************************************************************)
(* What a player asks for: its settings, the videos to load ahead, and to  *)
(* log how playing went.                                                   *)
(*                                                                         *)
(* A player watches one video after the other: it asks for those behind    *)
(* the current one, watches them in their order, and asks again. The       *)
(* current video is looked up first and the list is read after it, and     *)
(* videos come and go in between. A report that was not answered is sent   *)
(* again with its key.                                                     *)
(*                                                                         *)
(* Source: internal/application/playback/service.go, domain/playback and   *)
(* infra/persistence/playback/gorm.go                                      *)
(***************************************************************************)
EXTENDS Cursors

CONSTANTS
    Reels, PlayTimes,   \* videos 1..n, and the times they are published at
    ConfigTables,       \* playback_config: from platform and network to a row
    Networks,           \* the networks players are on, "DEFAULT" among them
    Reporters,          \* requests that log, of one user or of anonymous ones
    ReportKeys,
    NoReportKey,
    MaxReels,           \* bound: videos that come or go
    MaxBreaks           \* bound: calls that fail

ASSUME ReelsAreNumbered ==
    /\ IsFiniteSet(Reels) /\ Reels # {} /\ Reels = 1..Cardinality(Reels)
    /\ IsFiniteSet(PlayTimes) /\ PlayTimes \subseteq Nat
ASSUME SettingsAreNumbers ==
    \A configs \in ConfigTables : \A k \in DOMAIN configs : configs[k].preload \in Int

VARIABLES
    reels,              \* published videos: time and id
    player,             \* next step, limit, current video, its row, what is loaded ahead
    watched,            \* the videos it has watched
    astray,             \* a current video was no longer there
    log,                \* playback_qos_log: key and request of each row
    report,             \* report[r]: next step, key, answer
    turnover, breaks

playbackVars == <<reels, player, watched, astray, log, report, turnover, breaks>>

NoReport == [at |-> "idle", key |-> NoReportKey, row |-> 0, created |-> FALSE]

\* The videos of the start were published in the order of their ids.
PlaybackInit ==
    /\ reels = {r \in PlayTimes \X Reels : r[1] = r[2] /\ r[2] < Max(Reels)}
    /\ player = [at |-> "config", limit |-> 0, current |-> 0, anchor |-> Start, ahead |-> <<>>]
    /\ watched = <<>>
    /\ astray = FALSE
    /\ log = <<>>
    /\ report = [r \in Reporters |-> NoReport]
    /\ turnover = 0
    /\ breaks = 0

Break == breaks < MaxBreaks /\ breaks' = breaks + 1

-----------------------------------------------------------------------------
(* GetConfig. *)

PreloadCount(n) == NormalizeLimit(n, 3, 10)

\* FindConfig: the row of the network, else that of the default network, else
\* nothing.
FindConfig(configs, network) ==
    LET rows == DOMAIN configs \cap {network, "DEFAULT"}
    IN  IF network \in rows THEN configs[network]
        ELSE IF rows # {} THEN configs["DEFAULT"]
        ELSE [preload |-> 0, buffer |-> 0]

\* normalizeConfig: values out of bounds become the defaults or the bound.
NormalizeConfig(row) ==
    [preload |-> PreloadCount(row.preload), buffer |-> IF row.buffer <= 0 THEN 1200 ELSE row.buffer]

\* The player takes the number of videos to load ahead from its settings.
GetConfig ==
    /\ player.at = "config"
    /\ \E configs \in ConfigTables, network \in Networks :
        player' = [player EXCEPT !.at = "watch",
                      !.limit = NormalizeConfig(FindConfig(configs, network)).preload]
    /\ UNCHANGED <<reels, watched, astray, log, report, turnover, breaks>>

-----------------------------------------------------------------------------
(* ListPreloadVideos. *)

\* The player has watched what it had loaded, and names its current video.
AskPreload ==
    /\ player.at = "watch"
    /\ player.ahead = <<>>
    /\ player' = [player EXCEPT !.at = IF player.current = 0 THEN "list" ELSE "find", !.anchor = Start]
    /\ UNCHANGED <<reels, watched, astray, log, report, turnover, breaks>>

\* findCurrentVideo: one that is not there starts the list anew.
FindCurrentVideo ==
    /\ player.at = "find"
    /\ LET current == {r \in reels : r[2] = player.current}
       IN  /\ player' = [player EXCEPT !.at = "list",
                            !.anchor = IF current = {} THEN Start ELSE CHOOSE r \in current : TRUE]
           /\ astray' = (astray \/ current = {})
    /\ UNCHANGED <<reels, watched, log, report, turnover, breaks>>

ListPreloadVideos ==
    /\ player.at = "list"
    /\ player' = [player EXCEPT !.at = "watch",
                     !.ahead = Query(reels, player.anchor, PreloadCount(player.limit))]
    /\ UNCHANGED <<reels, watched, astray, log, report, turnover, breaks>>

\* Either query may fail: the player asks again.
PreloadFails ==
    /\ player.at \in {"find", "list"}
    /\ Break
    /\ player' = [player EXCEPT !.at = "watch"]
    /\ UNCHANGED <<reels, watched, astray, log, report, turnover>>

\* The player goes on to the next video, loaded ahead.
WatchNext ==
    /\ player.at = "watch"
    /\ player.ahead # <<>>
    /\ player' = [player EXCEPT !.current = Head(player.ahead)[2], !.ahead = Tail(player.ahead)]
    /\ watched' = Append(watched, Head(player.ahead))
    /\ UNCHANGED <<reels, astray, log, report, turnover, breaks>>

TurnOver == turnover < MaxReels /\ turnover' = turnover + 1

\* A video is published; its time is taken before it is there.
PublishReel ==
    /\ \E t \in PlayTimes : reels' = reels \cup {<<t, Max(Reels)>>}
    /\ ~\E r \in reels : r[2] = Max(Reels)
    /\ Max(Reels) \notin {w[2] : w \in ToSet(watched)}
    /\ TurnOver
    /\ UNCHANGED <<player, watched, astray, log, report, breaks>>

WithdrawReel ==
    /\ \E r \in reels : r[2] # Max(Reels) /\ reels' = reels \ {r}
    /\ TurnOver
    /\ UNCHANGED <<player, watched, astray, log, report, breaks>>

-----------------------------------------------------------------------------
(* CreateQoSReport. *)

SendReport(r) ==
    /\ report[r].at = "idle"
    /\ \E k \in ReportKeys \cup {NoReportKey} : report' = [report EXCEPT ![r].at = "insert", ![r].key = k]
    /\ UNCHANGED <<reels, player, watched, astray, log, turnover, breaks>>

\* uk_user_idempotency: optionalString stores no key as NULL, which never collides.
RowsWith(key) == IF key = NoReportKey THEN {} ELSE {i \in DOMAIN log : log[i].key = key}

\* The INSERT; when it fails the row may be there all the same.
CreateQoSReport(r) ==
    LET inserted == log' = Append(log, [key |-> report[r].key, by |-> r])
    IN  /\ report[r].at = "insert"
        /\ \/ /\ RowsWith(report[r].key) = {}
              /\ inserted
              /\ report' = [report EXCEPT ![r].at = "answered", ![r].row = Len(log) + 1, ![r].created = TRUE]
              /\ UNCHANGED breaks
           \/ /\ RowsWith(report[r].key) # {}
              /\ report' = [report EXCEPT ![r].at = "existing"]
              /\ UNCHANGED <<log, breaks>>
           \/ /\ Break
              /\ report' = [report EXCEPT ![r].at = "failed"]
              /\ UNCHANGED log \/ (RowsWith(report[r].key) = {} /\ inserted)
        /\ UNCHANGED <<reels, player, watched, astray, turnover>>

\* findExistingQoS answers the row that is there.
FindExistingQoS(r) ==
    /\ report[r].at = "existing"
    /\ \/ /\ report' = [report EXCEPT ![r].at = "answered", ![r].row = Max(RowsWith(report[r].key))]
          /\ UNCHANGED breaks
       \/ Break /\ report' = [report EXCEPT ![r].at = "failed"]
    /\ UNCHANGED <<reels, player, watched, astray, log, turnover>>

\* The client sends a failed report again.
Resend(r) ==
    /\ report[r].at = "failed"
    /\ report' = [report EXCEPT ![r].at = "insert"]
    /\ UNCHANGED <<reels, player, watched, astray, log, turnover, breaks>>

PlaybackNext ==
    \/ GetConfig \/ AskPreload \/ FindCurrentVideo \/ ListPreloadVideos \/ PreloadFails \/ WatchNext
    \/ PublishReel \/ WithdrawReel
    \/ \E r \in Reporters :
        SendReport(r) \/ CreateQoSReport(r) \/ FindExistingQoS(r) \/ Resend(r)

-----------------------------------------------------------------------------
(* Loading ahead, a player is shown no video twice and in the order of the *)
(* list, whatever is published or withdrawn in between, as long as its     *)
(* current video was there each time; else it starts anew.                 *)
PlayedOnce ==
    ~astray => \A i, j \in DOMAIN watched : i < j => Newer(watched[i], watched[j])

(* However often and by how many requests a report is sent with a key, one *)
(* row is logged, all answers name it, and at most one says it is new. One *)
(* without a key that is answered has a row of its own.                    *)
ReportedOnce ==
    /\ \A i, j \in DOMAIN log : log[i].key = log[j].key /\ log[i].key # NoReportKey => i = j
    /\ \A r, s \in Reporters :
        report[r].at = "answered" /\ report[s].at = "answered" /\ r # s =>
            IF report[r].key = report[s].key /\ report[r].key # NoReportKey
            THEN report[r].row = report[s].row /\ ~(report[r].created /\ report[s].created)
            ELSE report[r].row # report[s].row

-----------------------------------------------------------------------------
(* The strengthening that is inductive. *)

PlaybackSpec == PlaybackInit /\ [][PlaybackNext]_playbackVars

SomeKey == ReportKeys \cup {NoReportKey}

ReportTypes ==
    /\ log \in Seq([key : SomeKey, by : Reporters])
    /\ report \in [Reporters -> [at : {"idle", "insert", "existing", "failed", "answered"},
                                 key : SomeKey, row : Nat, created : BOOLEAN]]

\* uk_user_idempotency.
KeysAreUnique == \A i, j \in DOMAIN log : log[i].key = log[j].key /\ log[i].key # NoReportKey => i = j

\* An answer names a row with the key, that of the request itself if it says so
\* or if there is no key; nothing is said before it, and a request looks for a
\* row that is there.
AnswerIsLogged(r) ==
    /\ report[r].at = "answered" =>
        /\ report[r].row \in DOMAIN log
        /\ log[report[r].row].key = report[r].key
        /\ report[r].created => log[report[r].row].by = r
        /\ report[r].key = NoReportKey => report[r].created
    /\ report[r].at # "answered" => ~report[r].created
    /\ report[r].at = "existing" => RowsWith(report[r].key) # {}

AnswersAreLogged == \A r \in Reporters : AnswerIsLogged(r)

ReportIInv == ReportTypes /\ KeysAreUnique /\ AnswersAreLogged

AllReels == PlayTimes \X Reels

PlayTypes ==
    /\ reels \subseteq AllReels
    /\ player \in [at : {"config", "watch", "find", "list"}, limit : Int, current : Nat,
                   anchor : AllReels \cup {Start}, ahead : Seq(AllReels)]
    /\ watched \in Seq(AllReels)
    /\ astray \in BOOLEAN

\* A video keeps its time, and the last one stays published.
Around == reels \cup ToSet(watched) \cup ToSet(player.ahead)

ReelsKeepTime ==
    /\ \A r, s \in Around : r[2] = s[2] => r = s
    /\ \A r \in Around : r[2] = Max(Reels) => r \in reels

\* What a player asks behind is the last video it has watched.
PlayerKnowsPlace ==
    /\ player.current = (IF watched = <<>> THEN 0 ELSE Last(watched)[2])
    /\ player.at # "watch" => player.ahead = <<>>
    /\ player.at = "config" => watched = <<>>
    /\ player.at = "find" => watched # <<>>
    /\ player.at = "list" /\ ~astray => player.anchor = NextCursor(watched)

WatchedInOrder ==
    ~astray =>
        /\ \A i, j \in 1..Len(watched) : i < j => Newer(watched[i], watched[j])
        /\ \A i, j \in 1..Len(player.ahead) : i < j => Newer(player.ahead[i], player.ahead[j])
        /\ \A i \in 1..Len(watched), j \in 1..Len(player.ahead) : Newer(watched[i], player.ahead[j])

PlayIInv == PlayTypes /\ ReelsKeepTime /\ PlayerKnowsPlace /\ WatchedInOrder
================================================================================
