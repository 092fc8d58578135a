-------------------------------- MODULE Upload --------------------------------
(***************************************************************************)
(* An upload: the file is checked, written under its kind, and, when it is *)
(* a video, probed, checked again, and rewritten so that playing can start *)
(* before the end. A later step that fails takes the file back. The steps  *)
(* may fail, and the process may die between any two of them.              *)
(*                                                                         *)
(* File names are unique, so uploads do not meet: one slot per upload. A   *)
(* file is what the rules look at: kind, size in MiB, extension, sniffed   *)
(* type, and the length and streams ffprobe finds in it.                   *)
(*                                                                         *)
(* Source: internal/application/upload, internal/infra/storage/local.go,   *)
(* internal/infra/media/ffmpeg.go.                                         *)
(***************************************************************************)
EXTENDS Integers, Sequences

CONSTANTS
    Uploads,       \* uploads of the run
    Files,         \* the files clients send
    NoFile,
    MaxMishaps     \* bound: failing steps, and deaths of the process

VARIABLES
    upload,        \* upload[u]: next step, file, answer
    stored,        \* stored[u]: "absent", "part", "whole" or "faststart"
    scratch,       \* uploads whose temporary file is on disk
    stranded,      \* uploads whose files nobody will remove
    mishaps

uploadVars == <<upload, stored, scratch, stranded, mishaps>>

NoUpload == [at |-> "idle", file |-> NoFile, answer |-> "none"]

UploadInit ==
    /\ upload = [u \in Uploads |-> NoUpload]
    /\ stored = [u \in Uploads |-> "absent"]
    /\ scratch = {}
    /\ stranded = {}
    /\ mishaps = 0

Mishap == mishaps < MaxMishaps /\ mishaps' = mishaps + 1

-----------------------------------------------------------------------------
(* The rules. *)

VideoExt == {"mp4", "mov", "webm"}
ImageExt == {"jpg", "jpeg", "png", "webp"}
VideoMIME == {"application/octet-stream", "video/mp4", "video/quicktime", "video/webm"}
ImageMIME == {"image/jpeg", "image/png", "image/webp"}
VideoCodecs == {"h264", "h265", "hevc", "vp8", "vp9", "av1"}
AudioCodecs == {"none", "aac", "mp3", "opus", "vorbis"}

MaxMiB(kind) == CASE kind = "video" -> 512
                  [] kind \in {"cover", "avatar"} -> 20
                  [] OTHER -> 1024

ValidSize(f) == 0 < f.size /\ f.size <= MaxMiB(f.kind)

ValidExtension(f) ==
    /\ f.kind = "video" => f.ext \in VideoExt
    /\ f.kind \in {"cover", "avatar"} => f.ext \in ImageExt

\* By the sniffed type, whatever the client said.
ValidMIME(f) ==
    /\ f.kind = "video" => f.mime \in VideoMIME
    /\ f.kind \in {"cover", "avatar"} => f.mime \in ImageMIME

\* ValidateFile; a plain file has no type to be checked.
ValidFile(f) == ValidSize(f) /\ ValidExtension(f) /\ ValidMIME(f)

\* buildProbeResult: of several streams the first video and the first audio
\* with a codec count.
ProbeResult(f) ==
    LET videos == SelectSeq(f.streams, LAMBDA s : s.type = "video")
        audios == SelectSeq(f.streams, LAMBDA s : s.type = "audio" /\ s.codec # "")
    IN  [seconds |-> f.seconds,
         video   |-> IF videos = <<>> THEN "none" ELSE Head(videos).codec,
         sides   |-> IF videos = <<>> THEN <<0, 0>> ELSE Head(videos).sides,
         audio   |-> IF audios = <<>> THEN "none" ELSE Head(audios).codec]

\* ValidateMetadata: seconds, width and height, codecs.
ValidMetadata(m) ==
    /\ 0 < m.seconds /\ m.seconds <= 600
    /\ m.video \in VideoCodecs
    /\ \A side \in {m.sides[1], m.sides[2]} : 0 < side /\ side <= 3840
    /\ m.audio \in AudioCodecs

ShouldFaststart(f) == f.ext \in {"mp4", "mov"}

-----------------------------------------------------------------------------
(* Service.Save. *)

\* LocalStorage.Remove, or os.Remove after a failed copy: it may fail, and
\* nobody hears of it.
RemoveFile(u) ==
    \/ stored' = [stored EXCEPT ![u] = "absent"] /\ UNCHANGED stranded
    \/ stranded' = stranded \cup {u} /\ UNCHANGED stored

\* The deferred removal of the temporary file, which may fail as well.
RemoveTemp(u) ==
    \/ scratch' = scratch \ {u} /\ UNCHANGED stranded
    \/ stranded' = stranded \cup {u} /\ UNCHANGED scratch

Step(u, label) == upload' = [upload EXCEPT ![u].at = label]

Answered(u, answer) == upload' = [upload EXCEPT ![u].at = "answered", ![u].answer = answer]

\* ValidateFile refuses a file before anything is written.
ReceiveFile(u) ==
    /\ upload[u].at = "idle"
    /\ \E f \in Files :
        upload' = [upload EXCEPT ![u] = IF ValidFile(f)
                                       THEN [at |-> "create", file |-> f, answer |-> "none"]
                                       ELSE [at |-> "answered", file |-> f, answer |-> "error"]]
    /\ UNCHANGED <<stored, scratch, stranded, mishaps>>

\* LocalStorage.Save: the directory, the source and the target are opened.
CreateFile(u) ==
    /\ upload[u].at = "create"
    /\ \/ stored' = [stored EXCEPT ![u] = "part"] /\ Step(u, "copy") /\ UNCHANGED mishaps
       \/ Mishap /\ Answered(u, "error") /\ UNCHANGED stored
    /\ UNCHANGED <<scratch, stranded>>

\* The content is copied and the file closed, or else removed.
CopyFile(u) ==
    /\ upload[u].at = "copy"
    /\ \/ /\ stored' = [stored EXCEPT ![u] = "whole"]
          /\ IF upload[u].file.kind = "video" THEN Step(u, "probe") ELSE Answered(u, "url")
          /\ UNCHANGED <<stranded, mishaps>>
       \/ /\ Mishap
          /\ Answered(u, "error")
          /\ RemoveFile(u)
    /\ UNCHANGED scratch

\* Probe runs ffprobe for at most thirty seconds; its result is checked.
ProbeVideo(u) ==
    /\ upload[u].at = "probe"
    /\ LET f == upload[u].file
       IN  \/ /\ ValidMetadata(ProbeResult(f))
              /\ IF ShouldFaststart(f) THEN Step(u, "temp") ELSE Answered(u, "url")
              /\ UNCHANGED mishaps
           \/ ~ValidMetadata(ProbeResult(f)) /\ Step(u, "rollback") /\ UNCHANGED mishaps
           \/ Mishap /\ Step(u, "rollback")
    /\ UNCHANGED <<stored, scratch, stranded>>

\* Faststart makes a temporary file beside the target,
CreateTemp(u) ==
    /\ upload[u].at = "temp"
    /\ \/ scratch' = scratch \cup {u} /\ Step(u, "rewrite") /\ UNCHANGED mishaps
       \/ Mishap /\ Step(u, "rollback") /\ UNCHANGED scratch
    /\ UNCHANGED <<stored, stranded>>

\* Wrong: the temporary file stays when ffmpeg fails.
RewriteLeaves(u) ==
    /\ upload[u].at = "rewrite"
    /\ \/ Step(u, "rename") /\ UNCHANGED mishaps
       \/ Mishap /\ Step(u, "rollback")
    /\ UNCHANGED <<stored, scratch, stranded>>

\* has ffmpeg write it, for at most two minutes; its removal is deferred,
RewriteVideo(u) ==
    /\ upload[u].at = "rewrite"
    /\ \/ Step(u, "rename") /\ UNCHANGED <<scratch, stranded, mishaps>>
       \/ Mishap /\ Step(u, "rollback") /\ RemoveTemp(u)
    /\ UNCHANGED stored

\* and renames it over the target.
RenameTemp(u) ==
    /\ upload[u].at = "rename"
    /\ \/ /\ stored' = [stored EXCEPT ![u] = "faststart"]
          /\ scratch' = scratch \ {u}
          /\ Answered(u, "url")
          /\ UNCHANGED <<stranded, mishaps>>
       \/ Mishap /\ Step(u, "rollback") /\ RemoveTemp(u) /\ UNCHANGED stored

\* Save takes the file back.
RollBack(u) ==
    /\ upload[u].at = "rollback"
    /\ Answered(u, "error")
    /\ RemoveFile(u)
    /\ UNCHANGED <<scratch, mishaps>>

\* The process dies: its uploads end without an answer.
UploadsCrash ==
    LET under == {u \in Uploads : upload[u].at \notin {"idle", "answered"}}
    IN  /\ under # {}
        /\ upload' = [u \in Uploads |-> IF u \in under THEN [upload[u] EXCEPT !.at = "answered"]
                                        ELSE upload[u]]
        /\ stranded' = stranded \cup under
        /\ Mishap
        /\ UNCHANGED <<stored, scratch>>

UploadNext ==
    \/ UploadsCrash
    \/ \E u \in Uploads :
        \/ ReceiveFile(u) \/ CreateFile(u) \/ CopyFile(u) \/ ProbeVideo(u) \/ CreateTemp(u)
        \/ RewriteVideo(u) \/ RenameTemp(u) \/ RollBack(u)

-----------------------------------------------------------------------------
(* A URL that was answered names a whole file that all rules accepted, a   *)
(* video ready to be played from the start; and an upload that is over     *)
(* leaves nothing else on disk, unless the process died or a removal       *)
(* failed: those files stay for good, no code looks for them.              *)
UploadsSettle ==
    \A u \in Uploads : upload[u].at = "answered" =>
        LET f == upload[u].file
        IN  /\ upload[u].answer = "url" =>
                  /\ ValidFile(f)
                  /\ f.kind = "video" => ValidMetadata(ProbeResult(f))
                  /\ stored[u] = IF f.kind = "video" /\ ShouldFaststart(f) THEN "faststart" ELSE "whole"
            /\ u \in stranded \/ (u \notin scratch /\ (upload[u].answer = "error" => stored[u] = "absent"))
-----------------------------------------------------------------------------
(* The strengthening that is inductive.                                    *)

UploadSpec == UploadInit /\ [][UploadNext]_uploadVars

UploadSteps == {"idle", "create", "copy", "probe", "temp", "rewrite", "rename", "rollback", "answered"}

UploadTypes ==
    /\ upload \in [Uploads -> [at : UploadSteps, file : Files \cup {NoFile},
                               answer : {"none", "url", "error"}]]
    /\ stored \in [Uploads -> {"absent", "part", "whole", "faststart"}]
    /\ scratch \subseteq Uploads
    /\ stranded \subseteq Uploads

\* What an upload under way has checked, and what it has on disk.
CheckedSoFar ==
    \A u \in Uploads :
        LET f == upload[u].file
        IN  /\ upload[u].at \notin {"idle", "answered"} => ValidFile(f) /\ upload[u].answer = "none"
            /\ upload[u].at \in {"idle", "create"} => stored[u] = "absent"
            /\ upload[u].at \in {"probe", "temp", "rewrite", "rename"} =>
                  stored[u] = "whole" /\ f.kind = "video"
            /\ upload[u].at \in {"temp", "rewrite", "rename"} =>
                  ValidMetadata(ProbeResult(f)) /\ ShouldFaststart(f)

\* A temporary file is in the hands of its upload, or left for good.
ScratchIsHeld == \A u \in scratch : upload[u].at \in {"rewrite", "rename"} \/ u \in stranded

UploadIInv == UploadTypes /\ CheckedSoFar /\ ScratchIsHeld /\ UploadsSettle
================================================================================
