------------------------------ MODULE MCApiParts ------------------------------
(***************************************************************************)
(* Model-checking instance of the small parts of the API that share no     *)
(* state: paging through lists, recommendations and the hot list, counts,  *)
(* uploads, vectors, playback, accounts and the rate limit. Running two of *)
(* them side by side would only multiply their states, so a behaviour runs *)
(* one of them.                                                            *)
(***************************************************************************)
EXTENDS FeedPages, Recommend, HotWindow, StatCache, Upload, Embeddings, Playback, Accounts,
        RateLimit, TLC

VARIABLE part  \* the part that runs

partsVars == <<part, pagesVars, recommendVars, hotVars, statVars, uploadVars, embeddingVars,
               playbackVars, accountVars, limitVars>>

-----------------------------------------------------------------------------
(* Instances. *)

Authors == [v \in 1..4 |-> <<"Ann", "Ann", "Bob", "Bob">>[v]]
Ages == [v \in 1..4 |-> <<-2, -2, 0, 0>>[v]]
TwoHeats == {[v \in 1..4 |-> <<0, 1, 0, 0>>[v]], [v \in 1..4 |-> <<1, 0, 0, 1>>[v]]}

\* Login: the bucket is full again before the client is forgotten.
\* Registration: it takes longer.
LoginAndRegistration == {<<1, 2>>, <<2, 3>>}

Sent(kind, size, ext, mime, found) ==
    [kind |-> kind, size |-> size, ext |-> ext, mime |-> mime,
     seconds |-> found[1], streams |-> found[2]]

\* Length and streams of a file: type, codec, and width and height.
Stream(type, codec, sides) == [type |-> type, codec |-> codec, sides |-> sides]
Picture(codec, width) == Stream("video", codec, <<width, 90>>)
Sound(codec) == Stream("audio", codec, <<0, 0>>)

Playable == <<600, <<Sound(""), Picture("h264", 3840), Sound("aac"), Picture("mjpeg", 90), Sound("ac3")>>>>
Unplayable ==
    {<<601, <<Picture("h264", 3840), Sound("aac")>>>>, <<0, <<Picture("vp9", 1), Sound("opus")>>>>,
     <<1, <<Picture("av1", 3841), Sound("mp3")>>>>, <<1, <<Sound("aac")>>>>,
     <<1, <<Stream("video", "vp8", <<90, 0>>)>>>>,
     <<1, <<Picture("mjpeg", 90), Picture("h264", 1)>>>>, <<1, <<Picture("h264", 1), Sound("ac3"), Sound("aac")>>>>}

SomeFiles ==
    {Sent("video", 512, "mp4", "video/mp4", found) : found \in Unplayable}
    \cup {Sent("video", 512, ext, mime, Playable) :
            ext \in {"mp4", "webm", "png"}, mime \in {"video/mp4", "image/png"}}
    \cup {Sent(kind, size, "png", "image/png", Playable) :
            kind \in {"cover", "file"}, size \in {0, 20, 21, 1025}}
    \cup {Sent("avatar", 1, "mov", "image/png", Playable)}

\* Two ways to write one account, and a blank one.
OneAccount == [s \in {"", "Ann", "ann", "Bob"} |-> IF s = "ann" THEN "Ann" ELSE s]

Settings(preload, buffer) == [preload |-> preload, buffer |-> buffer]

SomeTables == {[k \in {"DEFAULT"} |-> Settings(1, 0)],
               [k \in {"DEFAULT", "WiFi"} |-> Settings(IF k = "WiFi" THEN 2 ELSE 11, 900)]}

-----------------------------------------------------------------------------
\* The parts that do not run keep one initial state.
PartsInit ==
    /\ part \in {"pages", "recommend", "hot", "stat", "upload", "embedding", "playback", "account", "limit"}
    /\ PagesInit /\ RecommendInit /\ HotInit /\ StatInit /\ UploadInit /\ EmbeddingInit
    /\ PlaybackInit /\ AccountInit /\ LimitInit
    /\ part # "pages" => listing = "messages" /\ \A r \in listed : r[1] = Min(Times)
    /\ part # "recommend" => heat[1] = 0
    /\ part # "limit" => limited[1] = 1

PartsNext ==
    \/ /\ part = "pages" /\ PagesNext
       /\ UNCHANGED <<part, recommendVars, hotVars, statVars, uploadVars, embeddingVars,
                      playbackVars, accountVars, limitVars>>
    \/ /\ part = "recommend" /\ RecommendNext
       /\ UNCHANGED <<part, pagesVars, hotVars, statVars, uploadVars, embeddingVars,
                      playbackVars, accountVars, limitVars>>
    \/ /\ part = "hot" /\ HotNext
       /\ UNCHANGED <<part, pagesVars, recommendVars, statVars, uploadVars, embeddingVars,
                      playbackVars, accountVars, limitVars>>
    \/ /\ part = "stat" /\ StatNext
       /\ UNCHANGED <<part, pagesVars, recommendVars, hotVars, uploadVars, embeddingVars,
                      playbackVars, accountVars, limitVars>>
    \/ /\ part = "upload" /\ UploadNext
       /\ UNCHANGED <<part, pagesVars, recommendVars, hotVars, statVars, embeddingVars,
                      playbackVars, accountVars, limitVars>>
    \/ /\ part = "embedding" /\ EmbeddingNext
       /\ UNCHANGED <<part, pagesVars, recommendVars, hotVars, statVars, uploadVars,
                      playbackVars, accountVars, limitVars>>
    \/ /\ part = "playback" /\ PlaybackNext
       /\ UNCHANGED <<part, pagesVars, recommendVars, hotVars, statVars, uploadVars,
                      embeddingVars, accountVars, limitVars>>
    \/ /\ part = "account" /\ AccountNext
       /\ UNCHANGED <<part, pagesVars, recommendVars, hotVars, statVars, uploadVars,
                      embeddingVars, playbackVars, limitVars>>
    \/ /\ part = "limit" /\ LimitNext
       /\ UNCHANGED <<part, pagesVars, recommendVars, hotVars, statVars, uploadVars,
                      embeddingVars, playbackVars, accountVars>>

PartsSpec == PartsInit /\ [][PartsNext]_partsVars

-----------------------------------------------------------------------------
(* Properties that two parts share. *)

(* Lists that change are shown once: pages of a list behind a cursor, and  *)
(* the videos a player loads ahead behind its current one.                 *)
ListsShownOnce == EveryRowOnce /\ PlayedOnce

(* A unique key names one row, whoever inserts at the same time and however *)
(* often: the account of a user, and the idempotency key of a report.      *)
KeysNameOneRow == AccountsHaveOneUser /\ ReportedOnce
================================================================================
