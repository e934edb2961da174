---------------------------- MODULE VideoCatalog ----------------------------
(***************************************************************************)
(* The collections of one info hash as the web application changes them:   *)
(* its torrent record, the users' videos of it, the tags and the links     *)
(* between videos and tags (videos.ts, tags.ts).                           *)
(*                                                                         *)
(* A step is one MongoDB command; a request is a sequence of them with     *)
(* nothing to hold it together, and commands sent with Promise.all run in  *)
(* any order.  Titles, ratings and names are left out, the processing      *)
(* fields are in TorrentScheduler, the blobs in PreviewArtifacts and the   *)
(* actors in ActorCatalog.  An operator named ..._Fault is a seeded fault  *)
(* and not part of the model.                                              *)
(***************************************************************************)
CONSTANTS
    User,
    Video,      \* video ids: UUIDs, used once
    Torrent,    \* torrent ids: UUIDs, used once
    NoTorrent,
    Tag,        \* tag ids: UUIDs, used once
    Request     \* concurrent requests of the web application

ASSUME CatalogAssumption == NoTorrent \notin Torrent

VARIABLES
    torrent,    \* the record with this info hash, or NoTorrent
    spent,      \* the torrent ids given so far
    videos,     \* the videos collection
    tags,       \* the tags collection
    links,      \* the video_tags collection
    req,        \* the requests
    saved,      \* history: the selection the last edit of a video began to store
    loose,      \* history: videos stored while their torrent was being deleted
    forsaken,   \* history: torrents whose creation or deletion broke off
    stale,      \* history: links stored after what they link was being deleted
    mixed       \* history: videos on which two edits overlapped, or one broke off

state == <<torrent, spent, videos, tags, links>>
history == <<saved, loose, forsaken, stale, mixed>>
vars == <<torrent, spent, videos, tags, links, req, saved, loose, forsaken, stale, mixed>>

VideoDoc == [state   : {"unused", "live", "deleted"},
             user    : User,
             torrent : Torrent \cup {NoTorrent}]

Parts == {"links", "videos", "torrent"}

RequestState == [pc      : {"idle", "make", "check", "resolve", "store", "edit", "clear",
                            "link", "drop", "list", "untag"},
                 op      : {"create", "update", "delete", "orphan", "cascade", "tag"},
                 user    : User,
                 torrent : Torrent \cup {NoTorrent},
                 videos  : SUBSET Video,   \* the video, or those to be deleted
                 tags    : SUBSET Tag,     \* the selection, or the tag to be deleted
                 left    : SUBSET (Tag \cup Parts)]  \* commands still to be done

TypeOK ==
    /\ torrent \in Torrent \cup {NoTorrent}
    /\ spent \subseteq Torrent
    /\ videos \in [Video -> VideoDoc]
    /\ tags \in [Tag -> {"unused", "live", "deleted"}]
    /\ links \subseteq Video \X Tag
    /\ req \in [Request -> RequestState]
    /\ saved \in [Video -> SUBSET Tag]
    /\ loose \subseteq Video
    /\ forsaken \subseteq Torrent \cup {NoTorrent}
    /\ stale \subseteq Video \X Tag
    /\ mixed \subseteq Video

Live(v) == videos[v].state = "live"

LiveTags == {t \in Tag : tags[t] = "live"}

VideosOf(t) == {v \in Video : Live(v) /\ videos[v].torrent = t}

LinksOf(S) == {l \in links : l[1] \in S}

Init ==
    /\ torrent = NoTorrent
    /\ spent = {}
    /\ \E u \in User :
          /\ videos = [v \in Video |-> [state |-> "unused", user |-> u, torrent |-> NoTorrent]]
          /\ req = [r \in Request |-> [pc |-> "idle", op |-> "create", user |-> u,
                                       torrent |-> NoTorrent, videos |-> {}, tags |-> {},
                                       left |-> {}]]
    /\ tags = [t \in Tag |-> "unused"]
    /\ links = {}
    /\ saved = [v \in Video |-> {}]
    /\ loose = {} /\ forsaken = {} /\ stale = {} /\ mixed = {}

Goes(r, pc) == req' = [req EXCEPT ![r].pc = pc]

Ends(r) == Goes(r, "idle")

Unlink(S) == links' = links \ S /\ stale' = stale \ S

\* What a request that ends early may leave behind.
Forsakes(r) ==
    forsaken' = IF req[r].op = "create" THEN forsaken \cup {req[r].torrent} ELSE forsaken
-----------------------------------------------------------------------------
(***************************************************************************)
(* createVideo and updateVideo.                                            *)
(***************************************************************************)

\* The torrent of the info hash is looked up.
CreateReads(r, u, S) ==
    /\ req[r].pc = "idle"
    /\ req' = [req EXCEPT ![r] = [pc |-> IF torrent = NoTorrent THEN "make" ELSE "check",
                                  op |-> "create", user |-> u, torrent |-> torrent,
                                  videos |-> {}, tags |-> S, left |-> {}]]
    /\ UNCHANGED <<state, history>>

\* TorrentModel.create, which the unique index refuses if another was faster.
MakeTorrent(r, t) ==
    /\ req[r].pc = "make"
    /\ IF torrent = NoTorrent
       THEN /\ t \notin spent
            /\ torrent' = t
            /\ spent' = spent \cup {t}
            /\ req' = [req EXCEPT ![r].pc = "check", ![r].torrent = t]
       ELSE Ends(r) /\ UNCHANGED <<torrent, spent>>
    /\ UNCHANGED <<videos, tags, links, history>>

Has(u, t) == \E v \in VideosOf(t) : videos[v].user = u

\* A video the user already has is a conflict.
CheckVideo(r) ==
    /\ req[r].pc = "check"
    /\ Goes(r, IF Has(req[r].user, req[r].torrent) THEN "idle" ELSE "resolve")
    /\ UNCHANGED <<state, history>>

\* resolveTagIds: every tag that was selected exists.  A torrent that was
\* made for the video stays without it if not.
ResolveTags(r) ==
    /\ req[r].pc = "resolve"
    /\ IF req[r].tags \subseteq LiveTags
       THEN /\ Goes(r, IF req[r].op = "create" THEN "store" ELSE "edit")
            /\ UNCHANGED forsaken
       ELSE Ends(r) /\ Forsakes(r)
    /\ UNCHANGED <<state, saved, loose, stale, mixed>>

\* A request has decided to delete t and has not listed, or counted, since.
BeingDeleted(t) ==
    \E q \in Request : /\ req[q].pc = "drop" /\ req[q].op \in {"orphan", "cascade"}
                       /\ req[q].torrent = t /\ "torrent" \in req[q].left

Stored_Fault(u, t) == [state |-> "live", user |-> u]

\* The document VideoModel.create stores.
Stored(u, t) == [state |-> "live", user |-> u, torrent |-> t]

\* VideoModel.create: the index on (userId, torrentId) refuses a second one.
\* Whether the torrent still exists is not asked.
StoreVideo(r, v) ==
    LET t == req[r].torrent IN
    /\ req[r].pc = "store"
    /\ IF Has(req[r].user, t)
       THEN Ends(r) /\ UNCHANGED <<videos, loose>>
       ELSE /\ videos[v].state = "unused"
            /\ videos' = [videos EXCEPT ![v] = Stored(req[r].user, t)]
            /\ req' = [req EXCEPT ![r].pc = "clear", ![r].videos = {v}]
            /\ loose' = IF torrent # t \/ BeingDeleted(t) THEN loose \cup {v} ELSE loose
    /\ UNCHANGED <<torrent, spent, tags, links, saved, forsaken, stale, mixed>>

UpdateStarts(r, u, v, S) ==
    /\ req[r].pc = "idle"
    /\ videos[v].state # "unused"
    /\ req' = [req EXCEPT ![r] = [pc |-> "resolve", op |-> "update", user |-> u,
                                  torrent |-> NoTorrent, videos |-> {v}, tags |-> S,
                                  left |-> {}]]
    /\ UNCHANGED <<state, history>>

Owns_Fault(u, v) == Live(v)

\* The filter {_id, userId} of every command on one video.
Owns(u, v) == Live(v) /\ videos[v].user = u

EditVideo(r, v) ==
    /\ req[r].pc = "edit"
    /\ v \in req[r].videos
    /\ Goes(r, IF Owns(req[r].user, v) THEN "clear" ELSE "idle")
    /\ UNCHANGED <<state, history>>

\* syncVideoTags: the old links go, then the new ones come one by one.
Linking(q, v) == req[q].pc = "link" /\ v \in req[q].videos

Cleared_Fault(S, selection) == IF selection = {} THEN {} ELSE LinksOf(S)

Cleared(S, selection) == LinksOf(S)

ClearTags(r, v) ==
    /\ req[r].pc = "clear"
    /\ v \in req[r].videos
    /\ Unlink(Cleared({v}, req[r].tags))
    /\ req' = [req EXCEPT ![r].pc = IF req[r].tags = {} THEN "idle" ELSE "link",
                          ![r].left = req[r].tags]
    /\ saved' = [saved EXCEPT ![v] = req[r].tags]
    /\ mixed' = IF \E q \in Request : Linking(q, v) THEN mixed \cup {v} ELSE mixed
    /\ UNCHANGED <<torrent, spent, videos, tags, loose, forsaken>>

\* The links of v are being deleted, and have been.
Unlinked(v) == \E q \in Request : req[q].pc = "drop" /\ v \in req[q].videos
                                  /\ "links" \notin req[q].left

\* The insert of <<v, t>> is answered.
Answered(r, v, t) ==
    /\ req[r].pc = "link"
    /\ v \in req[r].videos
    /\ t \in req[r].left
    /\ req' = [req EXCEPT ![r].left = @ \ {t},
                          ![r].pc = IF req[r].left = {t} THEN "idle" ELSE @]

\* VideoTagModel.create sends one insert for each tag.
LinkTag(r, v, t) ==
    /\ Answered(r, v, t)
    /\ <<v, t>> \notin links
    /\ links' = links \cup {<<v, t>>}
    /\ stale' = IF tags[t] = "live" /\ Live(v) /\ ~Unlinked(v)
                THEN stale ELSE stale \cup {<<v, t>>}
    /\ UNCHANGED <<torrent, spent, videos, tags, saved, loose, forsaken, mixed>>

\* The index on (videoId, tagId) refuses a link that another edit has stored.
\* The request answers an error, createVideo a conflict for the video it has
\* stored; its other inserts are on their way all the same.
LinkRefused(r, v, t) ==
    /\ Answered(r, v, t)
    /\ <<v, t>> \in links
    /\ UNCHANGED <<state, history>>
-----------------------------------------------------------------------------
(***************************************************************************)
(* deleteVideo and deleteTorrent.                                          *)
(***************************************************************************)

DeleteReads(r, u, v) ==
    /\ req[r].pc = "idle"
    /\ Owns(u, v)
    /\ req' = [req EXCEPT ![r] = [pc |-> "drop", op |-> "delete", user |-> u,
                                  torrent |-> videos[v].torrent, videos |-> {v},
                                  tags |-> {}, left |-> {"links", "videos"}]]
    /\ UNCHANGED <<state, history>>

DeleteTorrentReads(r) ==
    /\ req[r].pc = "idle"
    /\ torrent # NoTorrent
    /\ req' = [req EXCEPT ![r].pc = "list", ![r].op = "cascade", ![r].torrent = torrent,
                          ![r].videos = {}, ![r].tags = {}, ![r].left = {}]
    /\ UNCHANGED <<state, history>>

Listed_Fault(t, u) == {v \in VideosOf(t) : videos[v].user = u}

Listed(t, u) == VideosOf(t)

ListVideos(r) ==
    /\ req[r].pc = "list"
    /\ req' = [req EXCEPT ![r].pc = "drop",
                          ![r].videos = Listed(req[r].torrent, req[r].user),
                          ![r].left = Parts]
    /\ UNCHANGED <<state, history>>

\* The commands of Promise.all, in any order.
Dropping(r, part) == req[r].pc = "drop" /\ part \in req[r].left

Dropped(r, part) == req' = [req EXCEPT ![r].left = @ \ {part}]

DropLinks(r) ==
    /\ Dropping(r, "links")
    /\ Unlink(LinksOf(req[r].videos))
    /\ Dropped(r, "links")
    /\ UNCHANGED <<torrent, spent, videos, tags, saved, loose, forsaken, mixed>>

DropVideos(r) ==
    /\ Dropping(r, "videos")
    /\ videos' = [v \in Video |-> IF v \in req[r].videos /\ Live(v)
                                  THEN [videos[v] EXCEPT !.state = "deleted"] ELSE videos[v]]
    /\ Dropped(r, "videos")
    /\ UNCHANGED <<torrent, spent, tags, links, history>>

DropTorrent(r) ==
    /\ Dropping(r, "torrent")
    /\ torrent' = IF torrent = req[r].torrent THEN NoTorrent ELSE torrent
    /\ Dropped(r, "torrent")
    /\ UNCHANGED <<spent, videos, tags, links, history>>

Remaining_Fault(t) == {v \in Video : videos[v].state # "unused" /\ videos[v].torrent = t}

\* countDocuments({torrentId})
Remaining(t) == VideosOf(t)

\* The commands are done.  After its video, deleteVideo deletes a torrent that
\* no video is left of.
DropsDone(r) ==
    /\ req[r].pc = "drop"
    /\ req[r].left = {}
    /\ IF req[r].op = "delete" /\ Remaining(req[r].torrent) = {}
       THEN req' = [req EXCEPT ![r].op = "orphan", ![r].videos = {}, ![r].left = {"torrent"}]
       ELSE Ends(r)
    /\ UNCHANGED <<state, history>>
-----------------------------------------------------------------------------
(***************************************************************************)
(* createTag and deleteTag.                                                *)
(***************************************************************************)

CreateTag(t) ==
    /\ tags[t] = "unused"
    /\ tags' = [tags EXCEPT ![t] = "live"]
    /\ UNCHANGED <<torrent, spent, videos, links, req, history>>

DeleteTag(r, t) ==
    /\ req[r].pc = "idle"
    /\ tags[t] = "live"
    /\ tags' = [tags EXCEPT ![t] = "deleted"]
    /\ req' = [req EXCEPT ![r].pc = "untag", ![r].op = "tag", ![r].tags = {t},
                          ![r].videos = {}, ![r].left = {}]
    /\ UNCHANGED <<torrent, spent, videos, links, history>>

\* A deleteOne.
Tagged_Fault(t) == LET S == {l \in links : l[2] = t} IN {l \in S : l = CHOOSE k \in S : TRUE}

\* The filter {tagId} of deleteTag.
Tagged(t) == {l \in links : l[2] = t}

UnlinkTag(r, t) ==
    /\ req[r].pc = "untag"
    /\ t \in req[r].tags
    /\ Unlink(Tagged(t))
    /\ Ends(r)
    /\ UNCHANGED <<torrent, spent, videos, tags, saved, loose, forsaken, mixed>>

\* The process dies, or a command raises: nothing is undone.
RequestBreaks(r) ==
    LET S == IF req[r].pc \in {"link", "drop"} THEN req[r].videos ELSE {} IN
    /\ req[r].pc # "idle"
    /\ Ends(r)
    /\ forsaken' = IF req[r].pc \in {"clear", "link", "untag"}
                   THEN forsaken ELSE forsaken \cup {req[r].torrent}
    /\ mixed' = mixed \cup S
    /\ loose' = IF req[r].pc = "drop" THEN loose \cup req[r].videos ELSE loose
    /\ stale' = stale \cup IF req[r].pc = "untag" THEN {l \in links : l[2] \in req[r].tags}
                           ELSE IF req[r].pc = "drop" THEN LinksOf(S) ELSE {}
    /\ UNCHANGED <<state, saved>>
-----------------------------------------------------------------------------
RequestStep(r) ==
    \/ \E u \in User, S \in SUBSET LiveTags : CreateReads(r, u, S)
    \/ \E t \in Torrent : MakeTorrent(r, t)
    \/ CheckVideo(r) \/ ResolveTags(r)
    \/ \E v \in Video : StoreVideo(r, v) \/ EditVideo(r, v) \/ ClearTags(r, v)
    \/ \E u \in User, v \in Video, S \in SUBSET LiveTags : UpdateStarts(r, u, v, S)
    \/ \E v \in Video, t \in Tag : LinkTag(r, v, t) \/ LinkRefused(r, v, t)
    \/ \E u \in User, v \in Video : DeleteReads(r, u, v)
    \/ DeleteTorrentReads(r) \/ ListVideos(r)
    \/ DropLinks(r) \/ DropVideos(r) \/ DropTorrent(r) \/ DropsDone(r)
    \/ \E t \in Tag : DeleteTag(r, t) \/ UnlinkTag(r, t)
    \/ RequestBreaks(r)

Next == \/ \E r \in Request : RequestStep(r)
        \/ \E t \in Tag : CreateTag(t)

Spec == Init /\ [][Next]_vars
-----------------------------------------------------------------------------
(***************************************************************************)
(* Properties.                                                             *)
(***************************************************************************)

Drops(r, v, part) == req[r].pc = "drop" /\ v \in req[r].videos /\ part \in req[r].left

\* A video has its torrent.  The only ones without are those the cascade of
\* deleteTorrent is about to reach or broke off at, and those createVideo
\* stored after the deletion of the torrent it had found was decided.
VideoHasTorrent ==
    \A v \in Video : Live(v) =>
        \/ videos[v].torrent = torrent
        \/ v \in loose
        \/ \E r \in Request : Drops(r, v, "videos")

\* docs/data-model.md: "Deleting the last video that references a torrent
\* removes the orphan torrent record".  Whatever deletions overlap, a torrent
\* without videos is on its way out, or a createVideo is bringing it one; the
\* only others are those left by a request that broke off or found no tag.
NoOrphanTorrent ==
    torrent # NoTorrent /\ VideosOf(torrent) = {} /\ torrent \notin forsaken =>
        \E r \in Request :
            /\ req[r].torrent = torrent
            /\ \/ req[r].op = "create" /\ req[r].pc \in {"check", "resolve", "store"}
               \/ req[r].op \in {"delete", "orphan", "cascade"} /\ req[r].pc \in {"list", "drop"}

\* A link joins a video and a tag that exist.  One that does not is about to
\* be deleted, or came after the links of its video or tag were deleted.
LinksResolve ==
    \A l \in links \ stale :
        /\ \/ tags[l[2]] = "live"
           \/ \E r \in Request : req[r].pc = "untag" /\ l[2] \in req[r].tags
        /\ Live(l[1]) \/ \E r \in Request : Drops(r, l[1], "links")

\* docs/data-model.md: links are "replaced from the add and detail forms when
\* a user saves tag selections": once its edits, if they came one after
\* another, are done, a video has the tags last selected that still exist, and
\* an edit that no other overlapped is refused none of its links on the way.
TagsAreTheSelection ==
    \A v \in Video \ mixed : Live(v) =>
        /\ \A r \in Request : Linking(r, v) => \A t \in req[r].left : <<v, t>> \notin links
        /\ \/ \E r \in Request : Linking(r, v) \/ (req[r].pc = "drop" /\ v \in req[r].videos)
           \/ {l[2] : l \in LinksOf({v})} \cap LiveTags = saved[v] \cap LiveTags

\* docs/data-model.md: "User isolation is enforced by querying videos with both
\* video._id and video.userId": nobody links a tag to another user's video, though
\* the owner is asked for several commands earlier.
OnlyOwnersLink ==
    [][\A l \in links' \ links :
          \E r \in Request : Linking(r, l[1]) /\ req[r].user = videos[l[1]].user]_vars
=============================================================================
