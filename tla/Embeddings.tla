------------------------------ MODULE Embeddings ------------------------------
(***************************************************************************)
(* The vectors of the videos. A published event makes the worker vectorize *)
(* the text and write the row of (video, model); the event may be lost or  *)
(* given up, and a video keeps the vectors of models no longer used. The   *)
(* command rebuild-embeddings writes the vectors of all published videos   *)
(* with the current model, page by page in the order of the ids, while     *)
(* videos are published and deleted.                                       *)
(*                                                                         *)
(* An id is taken before its row is committed. A video's text never        *)
(* changes, so a vector is known by its model. Delivery is the subject of  *)
(* RabbitDelivery: here an event is handled at least once, or lost.        *)
(*                                                                         *)
(* Source: application/embedding, infra/persistence/embedding.             *)
(***************************************************************************)
EXTENDS Cursors

CONSTANTS
    Clips,        \* video ids, 1..n
    Models, Model, \* the models there were, and the current one
    BatchSize,    \* videos of a page
    MaxErrors     \* bound: events lost or failing, queries that fail

ASSUME ModelKnown == Model \in Models

ASSUME ClipsAreNumbered == Clips \subseteq Nat \ {0} /\ IsFiniteSet(Clips)

ASSUME BatchIsNumber == BatchSize \in Nat \ {0}

VARIABLES
    row,          \* row[v]: "none", "published" or "deleted"
    vectors,      \* rows of video_embedding: pairs of video and model
    events,       \* published events not yet handled
    rebuild,      \* the command
    errors

embeddingVars == <<row, vectors, events, rebuild, errors>>

NotStarted == [at |-> "idle", after |-> 0, page |-> <<>>, size |-> 0, promised |-> {}]

EmbeddingInit ==
    /\ row = [v \in Clips |-> "none"]
    /\ vectors = {}
    /\ events = {}
    /\ rebuild = NotStarted
    /\ errors = 0

Error == errors < MaxErrors /\ errors' = errors + 1

PublishedClips == {v \in Clips : row[v] = "published"}

-----------------------------------------------------------------------------
(* Videos and their events. *)

\* Any free id: rows are committed in any order. The event may be lost; a
\* video of earlier times has the vector of another model.
PublishClip ==
    /\ \E v \in Clips :
        /\ row[v] = "none"
        /\ row' = [row EXCEPT ![v] = "published"]
        /\ \/ events' = events \cup {v} /\ UNCHANGED <<vectors, errors>>
           \/ Error /\ UNCHANGED <<events, vectors>>
           \/ \E m \in Models \ {Model} :
                vectors' = vectors \cup {<<v, m>>} /\ UNCHANGED <<events, errors>>
    /\ UNCHANGED rebuild

DeleteClip ==
    /\ \E v \in PublishedClips : row' = [row EXCEPT ![v] = "deleted"]
    /\ UNCHANGED <<vectors, events, rebuild, errors>>

\* The vector the current model gives the text of a video.
NewVideoEmbedding(v) == <<v, Model>>

\* SaveVideoEmbedding: an upsert by video and model.
Saved(embedding) == vectors \cup {embedding}

GenerateForPublishedVideo(v) == vectors' = Saved(NewVideoEmbedding(v))

\* The worker writes the vector, whatever became of the video; then the
\* event is acknowledged, or given up after its retries.
HandleVideoPublished ==
    /\ \E v \in events :
        \/ GenerateForPublishedVideo(v) /\ events' \in {events, events \ {v}} /\ UNCHANGED errors
        \/ Error /\ events' = events \ {v} /\ UNCHANGED vectors
    /\ UNCHANGED <<row, rebuild>>

-----------------------------------------------------------------------------
(* RebuildPublishedVideos. *)

StartRebuild ==
    /\ rebuild.at = "idle"
    /\ rebuild' = [NotStarted EXCEPT !.at = "list", !.promised = PublishedClips]
    /\ UNCHANGED <<row, vectors, events, errors>>

Fails(step) ==
    /\ rebuild.at = step
    /\ rebuild' = [rebuild EXCEPT !.at = "failed"]
    /\ Error
    /\ UNCHANGED <<row, vectors, events>>

SmallerId(v, w) == v < w

\* ListPublishedVideoTexts: a page of texts behind the last id.
ListVideoTexts ==
    /\ rebuild.at = "list"
    /\ LET ids  == RankedBy({v \in PublishedClips : v > rebuild.after}, SmallerId)
           page == SubSeq(ids, 1, Min({BatchSize, Len(ids)}))
       IN  rebuild' = [rebuild EXCEPT !.at = IF page = <<>> THEN "done" ELSE "save",
                                      !.page = page, !.size = Len(page)]
    /\ UNCHANGED <<row, vectors, events, errors>>

\* Wrong: a full page is taken for the last one.
SaveStopsEarly ==
    /\ rebuild.at = "save"
    /\ LET v    == Head(rebuild.page)
           rest == Tail(rebuild.page)
       IN  /\ GenerateForPublishedVideo(v)
           /\ rebuild' = [rebuild EXCEPT
                !.page = rest, !.after = v,
                !.at = IF rest # <<>> THEN "save" ELSE IF rebuild.size <= BatchSize THEN "done" ELSE "list"]
    /\ UNCHANGED <<row, events, errors>>

\* The vectors of the page, one after the other; a short page is the last.
SaveVideoText ==
    /\ rebuild.at = "save"
    /\ LET v    == Head(rebuild.page)
           rest == Tail(rebuild.page)
       IN  /\ GenerateForPublishedVideo(v)
           /\ rebuild' = [rebuild EXCEPT
                !.page = rest, !.after = v,
                !.at = IF rest # <<>> THEN "save" ELSE IF rebuild.size < BatchSize THEN "done" ELSE "list"]
    /\ UNCHANGED <<row, events, errors>>

EmbeddingNext ==
    \/ PublishClip \/ DeleteClip \/ HandleVideoPublished
    \/ StartRebuild \/ ListVideoTexts \/ SaveVideoText \/ Fails("list") \/ Fails("save")

EmbeddingSpec == EmbeddingInit /\ [][EmbeddingNext]_embeddingVars

-----------------------------------------------------------------------------
(* A rebuild that ends without an error (application/embedding/service.go) *)
(* leaves every video that was published throughout, from its beginning to *)
(* its end, with a vector of the current model, whatever is published out  *)
(* of order or deleted meanwhile.                                          *)
RebuildCovers ==
    rebuild.at = "done" =>
        \A v \in rebuild.promised \cap PublishedClips : <<v, Model>> \in vectors

-----------------------------------------------------------------------------
(* The strengthening that is inductive. *)

EmbeddingTypes ==
    /\ row \in [Clips -> {"none", "published", "deleted"}]
    /\ rebuild \in [at : {"idle", "list", "save", "done", "failed"}, after : Nat,
                    page : Seq(Clips), size : Nat, promised : SUBSET Clips]

\* What was published when the rebuild began is published or deleted.
PromisesWereRows == \A v \in rebuild.promised : row[v] # "none"

\* The page ascends, and lies behind the last id that was saved.
PageAscends ==
    rebuild.at = "save" =>
        /\ rebuild.page # <<>>
        /\ \A i \in 1..Len(rebuild.page) : rebuild.page[i] > rebuild.after
        /\ \A i, j \in 1..Len(rebuild.page) : i < j => rebuild.page[i] < rebuild.page[j]

\* Up to the last id saved, every vector is written.
SavedSoFar ==
    rebuild.at \in {"list", "save"} =>
        \A v \in rebuild.promised \cap PublishedClips :
            v <= rebuild.after => <<v, Model>> \in vectors

\* Behind it, what is not on the page comes after it, and the page is full.
RestIsBehind ==
    rebuild.at = "save" =>
        \A v \in rebuild.promised \cap PublishedClips :
            \/ v <= rebuild.after
            \/ \E i \in 1..Len(rebuild.page) : rebuild.page[i] = v
            \/ rebuild.size = BatchSize /\ \A i \in 1..Len(rebuild.page) : rebuild.page[i] < v

EmbeddingIInv ==
    /\ EmbeddingTypes /\ PromisesWereRows /\ PageAscends /\ SavedSoFar /\ RestIsBehind
    /\ RebuildCovers
================================================================================
