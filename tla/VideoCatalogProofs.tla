------------------------- MODULE VideoCatalogProofs -------------------------
(***************************************************************************)
(* VideoCatalog, for every set of users, videos, tags and concurrent       *)
(* requests: what the overlaps of requests leave of the references between *)
(* torrents, videos and tags, and that nobody reaches another user's.      *)
(***************************************************************************)
EXTENDS VideoCatalog, TLAPS

Pcs == {"idle", "make", "check", "resolve", "store", "edit", "clear", "link", "drop", "list",
        "untag"}

Ops == {"create", "update", "delete", "orphan", "cascade", "tag"}

Commands == SUBSET (Tag \cup Parts)

\* A request that begins.
LEMMA StartTypes ==
  ASSUME NEW pc \in Pcs, NEW op \in Ops, NEW u \in User, NEW t \in Torrent \cup {NoTorrent},
         NEW V \in SUBSET Video, NEW S \in SUBSET Tag, NEW L \in Commands
  PROVE  [pc |-> pc, op |-> op, user |-> u, torrent |-> t, videos |-> V, tags |-> S,
          left |-> L] \in RequestState
BY DEF RequestState, Pcs, Ops, Commands

\* One request may be replaced by another of its type.
LEMMA Replaced ==
  ASSUME TypeOK, NEW r \in Request, NEW x \in RequestState
  PROVE  [req EXCEPT ![r] = x] \in [Request -> RequestState]
BY DEF TypeOK

\* What TypeOK says of one request.
LEMMA OneRequest ==
  ASSUME TypeOK, NEW r \in Request
  PROVE  /\ req[r] \in RequestState /\ req[r].torrent \in Torrent \cup {NoTorrent}
         /\ req[r].videos \in SUBSET Video /\ req[r].tags \in SUBSET Tag
         /\ req[r].left \in Commands /\ req[r].user \in User
BY DEF TypeOK, RequestState, Commands

\* A request that only moves on keeps the types.
LEMMA GoesType ==
  ASSUME TypeOK, NEW r \in Request, NEW pc \in Pcs, Goes(r, pc)
  PROVE  req' \in [Request -> RequestState]
<1>1. [req[r] EXCEPT !.pc = pc] \in RequestState
  BY OneRequest DEF RequestState, Pcs
<1>2. req' = [req EXCEPT ![r] = [req[r] EXCEPT !.pc = pc]]
  BY DEF Goes
<1> QED BY <1>1, <1>2, Replaced

\* Every step of a request keeps the types.
LEMMA RequestType ==
  ASSUME TypeOK, NEW r \in Request, RequestStep(r) PROVE TypeOK'
<1> DEFINE q == req[r]
<1>0. /\ q \in RequestState /\ q.torrent \in Torrent \cup {NoTorrent} /\ q.user \in User
      /\ q.videos \in SUBSET Video /\ q.tags \in SUBSET Tag /\ q.left \in Commands
      /\ {} \in SUBSET Video /\ {} \in SUBSET Tag /\ {} \in Commands /\ LiveTags \subseteq Tag
      /\ {"links", "videos"} \in Commands /\ {"torrent"} \in Commands /\ Parts \in Commands
      /\ torrent \in Torrent \cup {NoTorrent} /\ NoTorrent \in Torrent \cup {NoTorrent}
      /\ \A S \in SUBSET Tag : S \in Commands
      /\ \A S : q.left \ S \in Commands
  <2>1. LiveTags \subseteq Tag
    BY DEF LiveTags
  <2>2. torrent \in Torrent \cup {NoTorrent}
    BY DEF TypeOK
  <2> QED BY <2>1, <2>2, OneRequest DEF Commands, Parts
<1>1. ASSUME NEW u \in User, NEW S \in SUBSET LiveTags, CreateReads(r, u, S) PROVE TypeOK'
  <2>1. \E pc \in Pcs :
          req' = [req EXCEPT ![r] = [pc |-> pc, op |-> "create", user |-> u,
                     torrent |-> torrent, videos |-> {}, tags |-> S, left |-> {}]]
    BY <1>1 DEF CreateReads, Pcs
  <2>2. S \in SUBSET Tag /\ "create" \in Ops
    BY <1>0 DEF Ops
  <2>3. req' \in [Request -> RequestState]
    BY <2>1, <2>2, <1>0, StartTypes, Replaced
  <2> QED BY <1>1, <2>3 DEF CreateReads, TypeOK, state, history
<1>2. ASSUME NEW t \in Torrent, MakeTorrent(r, t) PROVE TypeOK'
  <2>1. CASE torrent = NoTorrent
    <3>1. [q EXCEPT !.pc = "check", !.torrent = t] \in RequestState
      BY <1>0 DEF RequestState
    <3>2. req' = [req EXCEPT ![r] = [q EXCEPT !.pc = "check", !.torrent = t]]
      BY <1>2, <2>1 DEF MakeTorrent
    <3>3. req' \in [Request -> RequestState]
      BY <3>1, <3>2, Replaced
    <3> QED BY <1>2, <2>1, <3>3 DEF MakeTorrent, TypeOK, history
  <2>2. CASE torrent # NoTorrent
    <3>1. req' \in [Request -> RequestState]
      BY <1>2, <2>2, GoesType DEF MakeTorrent, Ends, Pcs
    <3> QED BY <1>2, <2>2, <3>1 DEF MakeTorrent, TypeOK, history
  <2> QED BY <2>1, <2>2
<1>3. ASSUME CheckVideo(r) PROVE TypeOK'
  <2>1. \E pc \in Pcs : Goes(r, pc)
    BY <1>3 DEF CheckVideo, Pcs
  <2> QED BY <1>3, <2>1, GoesType DEF CheckVideo, TypeOK, state, history
<1>4. ASSUME ResolveTags(r) PROVE TypeOK'
  <2>1. \E pc \in Pcs : Goes(r, pc)
    BY <1>4 DEF ResolveTags, Ends, Pcs
  <2>2. forsaken' \subseteq Torrent \cup {NoTorrent}
    BY <1>4, <1>0 DEF ResolveTags, Forsakes, TypeOK
  <2> QED BY <1>4, <2>1, <2>2, GoesType DEF ResolveTags, TypeOK, state
<1>5. ASSUME NEW v \in Video, StoreVideo(r, v) PROVE TypeOK'
  <2>1. CASE Has(q.user, q.torrent)
    <3>1. req' \in [Request -> RequestState]
      BY <1>5, <2>1, GoesType DEF StoreVideo, Ends, Pcs
    <3> QED BY <1>5, <2>1, <3>1 DEF StoreVideo, TypeOK
  <2>2. CASE ~Has(q.user, q.torrent)
    <3>1. [q EXCEPT !.pc = "clear", !.videos = {v}] \in RequestState
      <4>1. {v} \in SUBSET Video
        OBVIOUS
      <4> QED BY <1>0, <4>1 DEF RequestState
    <3>2. req' = [req EXCEPT ![r] = [q EXCEPT !.pc = "clear", !.videos = {v}]]
      BY <1>5, <2>2 DEF StoreVideo
    <3>3. req' \in [Request -> RequestState]
      BY <3>1, <3>2, Replaced
    <3>4. Stored(q.user, q.torrent) \in VideoDoc
      BY <1>0 DEF Stored, VideoDoc
    <3>5. videos' \in [Video -> VideoDoc] /\ loose' \subseteq Video
      BY <1>5, <2>2, <3>4 DEF StoreVideo, TypeOK
    <3> QED BY <1>5, <2>2, <3>3, <3>5 DEF StoreVideo, TypeOK
  <2> QED BY <2>1, <2>2
<1>6. ASSUME NEW v \in Video, EditVideo(r, v) PROVE TypeOK'
  <2>1. \E pc \in Pcs : Goes(r, pc)
    BY <1>6 DEF EditVideo, Pcs
  <2> QED BY <1>6, <2>1, GoesType DEF EditVideo, TypeOK, state, history
<1>7. ASSUME NEW v \in Video, ClearTags(r, v) PROVE TypeOK'
  <2>1. \E pc \in Pcs : req' = [req EXCEPT ![r] = [q EXCEPT !.pc = pc, !.left = q.tags]]
    BY <1>7 DEF ClearTags, Pcs
  <2>2. \A pc \in Pcs : [q EXCEPT !.pc = pc, !.left = q.tags] \in RequestState
    BY <1>0 DEF RequestState, Pcs, Commands
  <2>3. req' \in [Request -> RequestState]
    BY <2>1, <2>2, Replaced
  <2> QED BY <1>7, <1>0, <2>3 DEF ClearTags, Unlink, TypeOK
<1>8. ASSUME NEW u \in User, NEW v \in Video, NEW S \in SUBSET LiveTags,
             UpdateStarts(r, u, v, S)
      PROVE TypeOK'
  <2>1. {v} \in SUBSET Video /\ S \in SUBSET Tag /\ "resolve" \in Pcs /\ "update" \in Ops
    BY <1>0 DEF Pcs, Ops
  <2>2. req' \in [Request -> RequestState]
    BY <1>8, <1>0, <2>1, StartTypes, Replaced DEF UpdateStarts
  <2> QED BY <1>8, <2>2 DEF UpdateStarts, TypeOK, state, history
<1>a. ASSUME NEW v, NEW t, Answered(r, v, t) PROVE req' \in [Request -> RequestState]
  <2>1. \E pc \in Pcs : req' = [req EXCEPT ![r] = [q EXCEPT !.left = q.left \ {t}, !.pc = pc]]
    BY <1>a, <1>0 DEF Answered, Pcs
  <2>2. \A pc \in Pcs : [q EXCEPT !.left = q.left \ {t}, !.pc = pc] \in RequestState
    BY <1>0 DEF RequestState, Pcs, Commands
  <2> QED BY <2>1, <2>2, Replaced
<1>9. ASSUME NEW v \in Video, NEW t \in Tag, LinkTag(r, v, t) PROVE TypeOK'
  BY <1>9, <1>a DEF LinkTag, TypeOK
<1>20. ASSUME NEW v \in Video, NEW t \in Tag, LinkRefused(r, v, t) PROVE TypeOK'
  BY <1>20, <1>a DEF LinkRefused, TypeOK, state, history
<1>10. ASSUME NEW u \in User, NEW v \in Video, DeleteReads(r, u, v) PROVE TypeOK'
  <2>1. {v} \in SUBSET Video /\ "drop" \in Pcs /\ "delete" \in Ops
    BY DEF Pcs, Ops
  <2>2. videos[v].torrent \in Torrent \cup {NoTorrent}
    BY DEF TypeOK, VideoDoc
  <2>3. req' \in [Request -> RequestState]
    BY <1>10, <1>0, <2>1, <2>2, StartTypes, Replaced DEF DeleteReads
  <2> QED BY <1>10, <2>3 DEF DeleteReads, TypeOK, state, history
<1>11. ASSUME DeleteTorrentReads(r) PROVE TypeOK'
  <2> DEFINE x == [q EXCEPT !.pc = "list", !.op = "cascade", !.torrent = torrent,
                            !.videos = {}, !.tags = {}, !.left = {}]
  <2>1. x \in RequestState
    BY <1>0 DEF RequestState
  <2>2. req' = [req EXCEPT ![r] = x]
    BY <1>11 DEF DeleteTorrentReads
  <2>3. req' \in [Request -> RequestState]
    BY <2>1, <2>2, Replaced
  <2> QED BY <1>11, <2>3 DEF DeleteTorrentReads, TypeOK, state, history
<1>12. ASSUME ListVideos(r) PROVE TypeOK'
  <2>1. Listed(q.torrent, q.user) \in SUBSET Video
    BY DEF Listed, VideosOf
  <2>2. [q EXCEPT !.pc = "drop", !.videos = Listed(q.torrent, q.user), !.left = Parts]
          \in RequestState
    BY <1>0, <2>1 DEF RequestState, Commands
  <2>3. req' = [req EXCEPT ![r] = [q EXCEPT !.pc = "drop", !.videos = Listed(q.torrent, q.user),
                                           !.left = Parts]]
    BY <1>12 DEF ListVideos
  <2>4. req' \in [Request -> RequestState]
    BY <2>2, <2>3, Replaced
  <2> QED BY <1>12, <2>4 DEF ListVideos, TypeOK, state, history
<1>d. ASSUME NEW part, Dropped(r, part) PROVE req' \in [Request -> RequestState]
  <2>1. [q EXCEPT !.left = q.left \ {part}] \in RequestState
    BY <1>0 DEF RequestState, Commands
  <2>2. req' = [req EXCEPT ![r] = [q EXCEPT !.left = q.left \ {part}]]
    BY <1>d DEF Dropped
  <2> QED BY <2>1, <2>2, Replaced
<1>13. ASSUME DropLinks(r) PROVE TypeOK'
  BY <1>13, <1>d DEF DropLinks, Unlink, TypeOK
<1>14. ASSUME DropVideos(r) PROVE TypeOK'
  <2>1. \A v \in Video : [videos[v] EXCEPT !.state = "deleted"] \in VideoDoc
    BY DEF TypeOK, VideoDoc
  <2>2. videos' \in [Video -> VideoDoc]
    BY <1>14, <2>1 DEF DropVideos, TypeOK
  <2> QED BY <1>14, <1>d, <2>2 DEF DropVideos, TypeOK, history
<1>15. ASSUME DropTorrent(r) PROVE TypeOK'
  BY <1>15, <1>d DEF DropTorrent, TypeOK, history
<1>16. ASSUME DropsDone(r) PROVE TypeOK'
  <2>1. [q EXCEPT !.op = "orphan", !.videos = {}, !.left = {"torrent"}] \in RequestState
    BY <1>0 DEF RequestState, Commands
  <2>2. \/ req' = [req EXCEPT ![r] = [q EXCEPT !.op = "orphan", !.videos = {},
                                              !.left = {"torrent"}]]
        \/ Goes(r, "idle")
    BY <1>16 DEF DropsDone, Ends
  <2>3. "idle" \in Pcs
    BY DEF Pcs
  <2>4. req' \in [Request -> RequestState]
    BY <2>1, <2>2, <2>3, Replaced, GoesType
  <2> QED BY <1>16, <2>4 DEF DropsDone, TypeOK, state, history
<1>17. ASSUME NEW t \in Tag, DeleteTag(r, t) PROVE TypeOK'
  <2> DEFINE x == [q EXCEPT !.pc = "untag", !.op = "tag", !.tags = {t}, !.videos = {},
                            !.left = {}]
  <2>1. x \in RequestState
    BY <1>0 DEF RequestState
  <2>2. req' = [req EXCEPT ![r] = x]
    BY <1>17 DEF DeleteTag
  <2>3. req' \in [Request -> RequestState]
    BY <2>1, <2>2, Replaced
  <2> QED BY <1>17, <2>3 DEF DeleteTag, TypeOK, history
<1>18. ASSUME NEW t \in Tag, UnlinkTag(r, t) PROVE TypeOK'
  <2>1. req' \in [Request -> RequestState]
    BY <1>18, GoesType DEF UnlinkTag, Ends, Pcs
  <2> QED BY <1>18, <2>1 DEF UnlinkTag, Unlink, TypeOK
<1>19. ASSUME RequestBreaks(r) PROVE TypeOK'
  <2>1. req' \in [Request -> RequestState]
    BY <1>19, GoesType DEF RequestBreaks, Ends, Pcs
  <2>2. mixed' \subseteq Video /\ loose' \subseteq Video
    BY <1>19, <1>0 DEF RequestBreaks, TypeOK
  <2>3. stale' \subseteq Video \X Tag
    BY <1>19, <1>0 DEF RequestBreaks, LinksOf, TypeOK
  <2>4. forsaken' \subseteq Torrent \cup {NoTorrent}
    BY <1>19, <1>0 DEF RequestBreaks, TypeOK
  <2> QED BY <1>19, <2>1, <2>2, <2>3, <2>4 DEF RequestBreaks, TypeOK, state
<1> QED
  BY <1>1, <1>2, <1>3, <1>4, <1>5, <1>6, <1>7, <1>8, <1>9, <1>10, <1>11, <1>12, <1>13,
     <1>14, <1>15, <1>16, <1>17, <1>18, <1>19, <1>20 DEF RequestStep

LEMMA InitType == Init => TypeOK
<1> SUFFICES ASSUME Init PROVE TypeOK
  OBVIOUS
<1>1. videos \in [Video -> VideoDoc]
  BY DEF Init, VideoDoc
<1>2. req \in [Request -> RequestState]
  BY DEF Init, RequestState, Parts
<1> QED BY <1>1, <1>2 DEF Init, TypeOK

LEMMA NextType == TypeOK /\ [Next]_vars => TypeOK'
<1> SUFFICES ASSUME TypeOK, [Next]_vars PROVE TypeOK'
  OBVIOUS
<1>1. ASSUME NEW t \in Tag, CreateTag(t) PROVE TypeOK'
  BY <1>1 DEF CreateTag, TypeOK, history
<1>2. CASE UNCHANGED vars
  BY <1>2 DEF vars, TypeOK
<1> QED BY <1>1, <1>2, RequestType DEF Next

\* The collections and the requests always have the form the code gives them.
THEOREM TypeCorrect == Spec => []TypeOK
BY InitType, NextType, PTL DEF Spec
-----------------------------------------------------------------------------
(***************************************************************************)
(* What a step does to the requests.                                       *)
(***************************************************************************)

Known(v) == videos[v].state # "unused"

Others(r) == \A s \in Request \ {r} : req'[s] = req[s]

\* Request r has moved on to pc and is otherwise as it was.
Moved(r, pc) ==
    /\ Others(r) /\ req'[r].pc = pc /\ req'[r].op = req[r].op /\ req'[r].user = req[r].user
    /\ req'[r].torrent = req[r].torrent /\ req'[r].videos = req[r].videos
    /\ req'[r].tags = req[r].tags /\ req'[r].left = req[r].left

\* What is left to be done has changed, and perhaps the place.
Worked(r, pc, left) ==
    /\ Others(r) /\ req'[r].pc = pc /\ req'[r].op = req[r].op /\ req'[r].user = req[r].user
    /\ req'[r].torrent = req[r].torrent /\ req'[r].videos = req[r].videos
    /\ req'[r].tags = req[r].tags /\ req'[r].left = left

\* A request begins.
Began(r, pc, op, u, t, V, S, L) ==
    /\ Others(r) /\ req'[r].pc = pc /\ req'[r].op = op /\ req'[r].user = u
    /\ req'[r].torrent = t /\ req'[r].videos = V /\ req'[r].tags = S /\ req'[r].left = L

LEMMA GoesStep ==
  ASSUME TypeOK, NEW r \in Request, NEW pc, Goes(r, pc) PROVE Moved(r, pc)
BY DEF Goes, Moved, Others, TypeOK, RequestState

LEMMA CreateReadsStep ==
  ASSUME TypeOK, NEW r \in Request, NEW u, NEW S, CreateReads(r, u, S)
  PROVE  /\ req[r].pc = "idle"
         /\ Began(r, IF torrent = NoTorrent THEN "make" ELSE "check", "create", u, torrent,
                  {}, S, {})
         /\ UNCHANGED <<state, history>>
BY DEF CreateReads, Began, Others, TypeOK

LEMMA MakeTorrentStep ==
  ASSUME TypeOK, NEW r \in Request, NEW t, MakeTorrent(r, t)
  PROVE  /\ req[r].pc = "make"
         /\ \/ /\ torrent = NoTorrent /\ t \notin spent
               /\ torrent' = t /\ spent' = spent \cup {t}
               /\ Began(r, "check", req[r].op, req[r].user, t, req[r].videos, req[r].tags,
                        req[r].left)
            \/ Moved(r, "idle") /\ UNCHANGED <<torrent, spent>>
         /\ UNCHANGED <<videos, tags, links, history>>
BY GoesStep DEF MakeTorrent, Ends, Began, Others, TypeOK, RequestState

LEMMA StoreStep ==
  ASSUME TypeOK, NEW r \in Request, NEW v \in Video, StoreVideo(r, v)
  PROVE  /\ req[r].pc = "store"
         /\ \/ /\ Has(req[r].user, req[r].torrent)
               /\ Moved(r, "idle") /\ UNCHANGED <<videos, loose>>
            \/ /\ videos[v].state = "unused" /\ videos'[v].state = "live"
               /\ videos'[v].user = req[r].user /\ videos'[v].torrent = req[r].torrent
               /\ \A x \in Video \ {v} : videos'[x] = videos[x]
               /\ Began(r, "clear", req[r].op, req[r].user, req[r].torrent, {v},
                        req[r].tags, req[r].left)
               /\ loose' = IF torrent # req[r].torrent \/ BeingDeleted(req[r].torrent)
                           THEN loose \cup {v} ELSE loose
         /\ UNCHANGED <<torrent, spent, tags, links, saved, forsaken, stale, mixed>>
<1>1. CASE Has(req[r].user, req[r].torrent)
  BY <1>1, GoesStep DEF StoreVideo, Ends
<1>2. CASE ~Has(req[r].user, req[r].torrent)
  <2>1. Began(r, "clear", req[r].op, req[r].user, req[r].torrent, {v}, req[r].tags,
              req[r].left)
    BY <1>2 DEF StoreVideo, Began, Others, TypeOK, RequestState
  <2>2. /\ videos[v].state = "unused" /\ videos'[v].state = "live"
        /\ videos'[v].user = req[r].user /\ videos'[v].torrent = req[r].torrent
        /\ \A x \in Video \ {v} : videos'[x] = videos[x]
    BY <1>2 DEF StoreVideo, Stored, TypeOK
  <2> QED BY <1>2, <2>1, <2>2 DEF StoreVideo
<1> QED BY <1>1, <1>2

LEMMA ClearStep ==
  ASSUME TypeOK, NEW r \in Request, NEW v, ClearTags(r, v)
  PROVE  /\ req[r].pc = "clear" /\ v \in req[r].videos
         /\ Worked(r, IF req[r].tags = {} THEN "idle" ELSE "link", req[r].tags)
         /\ Unlink(LinksOf({v}))
         /\ saved' = [saved EXCEPT ![v] = req[r].tags]
         /\ mixed' = IF \E q \in Request : Linking(q, v) THEN mixed \cup {v} ELSE mixed
         /\ UNCHANGED <<torrent, spent, videos, tags, loose, forsaken>>
BY DEF ClearTags, Cleared, Worked, Others, TypeOK, RequestState

LEMMA UpdateStep ==
  ASSUME TypeOK, NEW r \in Request, NEW u, NEW v, NEW S, UpdateStarts(r, u, v, S)
  PROVE  /\ req[r].pc = "idle" /\ Known(v)
         /\ Began(r, "resolve", "update", u, NoTorrent, {v}, S, {})
         /\ UNCHANGED <<state, history>>
BY DEF UpdateStarts, Known, Began, Others, TypeOK

LEMMA LinkStep ==
  ASSUME TypeOK, NEW r \in Request, NEW v, NEW t, LinkTag(r, v, t)
  PROVE  /\ req[r].pc = "link" /\ v \in req[r].videos /\ t \in req[r].left
         /\ Worked(r, IF req[r].left = {t} THEN "idle" ELSE "link", req[r].left \ {t})
         /\ links' = links \cup {<<v, t>>}
         /\ stale' = IF tags[t] = "live" /\ Live(v) /\ ~Unlinked(v)
                     THEN stale ELSE stale \cup {<<v, t>>}
         /\ UNCHANGED <<torrent, spent, videos, tags, saved, loose, forsaken, mixed>>
BY DEF LinkTag, Answered, Worked, Others, TypeOK, RequestState

LEMMA RefusedStep ==
  ASSUME TypeOK, NEW r \in Request, NEW v, NEW t, LinkRefused(r, v, t)
  PROVE  /\ req[r].pc = "link" /\ v \in req[r].videos /\ t \in req[r].left
         /\ Worked(r, IF req[r].left = {t} THEN "idle" ELSE "link", req[r].left \ {t})
         /\ UNCHANGED <<state, history>>
BY DEF LinkRefused, Answered, Worked, Others, TypeOK, RequestState

LEMMA DeleteReadsStep ==
  ASSUME TypeOK, NEW r \in Request, NEW u, NEW v, DeleteReads(r, u, v)
  PROVE  /\ req[r].pc = "idle" /\ Owns(u, v)
         /\ Began(r, "drop", "delete", u, videos[v].torrent, {v}, {}, {"links", "videos"})
         /\ UNCHANGED <<state, history>>
BY DEF DeleteReads, Began, Others, TypeOK

LEMMA DeleteTorrentReadsStep ==
  ASSUME TypeOK, NEW r \in Request, DeleteTorrentReads(r)
  PROVE  /\ req[r].pc = "idle" /\ torrent # NoTorrent
         /\ Began(r, "list", "cascade", req[r].user, torrent, {}, {}, {})
         /\ UNCHANGED <<state, history>>
BY DEF DeleteTorrentReads, Began, Others, TypeOK, RequestState

LEMMA ListStep ==
  ASSUME TypeOK, NEW r \in Request, ListVideos(r)
  PROVE  /\ req[r].pc = "list"
         /\ Began(r, "drop", req[r].op, req[r].user, req[r].torrent,
                  VideosOf(req[r].torrent), req[r].tags, Parts)
         /\ UNCHANGED <<state, history>>
BY DEF ListVideos, Listed, Began, Others, TypeOK, RequestState

LEMMA DroppedStep ==
  ASSUME TypeOK, NEW r \in Request, NEW part, Dropped(r, part)
  PROVE  Worked(r, req[r].pc, req[r].left \ {part})
BY DEF Dropped, Worked, Others, TypeOK, RequestState

LEMMA DropVideosStep ==
  ASSUME TypeOK, NEW r \in Request, DropVideos(r)
  PROVE  /\ req[r].pc = "drop" /\ "videos" \in req[r].left
         /\ Worked(r, "drop", req[r].left \ {"videos"})
         /\ \A x \in Video :
               /\ videos'[x].state = IF x \in req[r].videos /\ Live(x) THEN "deleted"
                                     ELSE videos[x].state
               /\ videos'[x].user = videos[x].user /\ videos'[x].torrent = videos[x].torrent
         /\ UNCHANGED <<torrent, spent, tags, links, history>>
<1>1. \A x \in Video :
        /\ videos'[x].state = IF x \in req[r].videos /\ Live(x) THEN "deleted"
                              ELSE videos[x].state
        /\ videos'[x].user = videos[x].user /\ videos'[x].torrent = videos[x].torrent
  BY DEF DropVideos, TypeOK, VideoDoc
<1> QED BY <1>1, DroppedStep DEF DropVideos, Dropping

LEMMA DoneStep ==
  ASSUME TypeOK, NEW r \in Request, DropsDone(r)
  PROVE  /\ req[r].pc = "drop" /\ req[r].left = {}
         /\ \/ /\ req[r].op = "delete" /\ VideosOf(req[r].torrent) = {}
               /\ Began(r, "drop", "orphan", req[r].user, req[r].torrent, {}, req[r].tags,
                        {"torrent"})
            \/ /\ req[r].op # "delete" \/ VideosOf(req[r].torrent) # {}
               /\ Moved(r, "idle")
         /\ UNCHANGED <<state, history>>
<1>1. CASE req[r].op = "delete" /\ VideosOf(req[r].torrent) = {}
  BY <1>1 DEF DropsDone, Remaining, Began, Others, TypeOK, RequestState
<1>2. CASE ~(req[r].op = "delete" /\ VideosOf(req[r].torrent) = {})
  BY <1>2, GoesStep DEF DropsDone, Ends, Remaining
<1> QED BY <1>1, <1>2

LEMMA DeleteTagStep ==
  ASSUME TypeOK, NEW r \in Request, NEW t, DeleteTag(r, t)
  PROVE  /\ req[r].pc = "idle" /\ tags[t] = "live" /\ tags' = [tags EXCEPT ![t] = "deleted"]
         /\ Began(r, "untag", "tag", req[r].user, req[r].torrent, {}, {t}, {})
         /\ UNCHANGED <<torrent, spent, videos, links, history>>
BY DEF DeleteTag, Began, Others, TypeOK, RequestState
-----------------------------------------------------------------------------
(***************************************************************************)
(* What requests hold between two commands.                                *)
(***************************************************************************)

\* What TypeOK says of the variables the invariants are about.
LEMMA Types ==
  ASSUME TypeOK
  PROVE  /\ spent \subseteq Torrent /\ NoTorrent \notin spent
         /\ torrent \in Torrent \cup {NoTorrent}
         /\ links \subseteq Video \X Tag /\ tags \in [Tag -> {"unused", "live", "deleted"}]
         /\ saved \in [Video -> SUBSET Tag] /\ LiveTags \subseteq Tag
         /\ stale \subseteq Video \X Tag /\ mixed \subseteq Video /\ loose \subseteq Video
         /\ \A r \in Request : /\ req[r].videos \subseteq Video /\ req[r].tags \subseteq Tag
                               /\ req[r].torrent \in Torrent \cup {NoTorrent}
BY OneRequest, CatalogAssumption DEF TypeOK, LiveTags

\* Torrent ids in use were given.
SpentInv ==
    /\ torrent # NoTorrent => torrent \in spent
    /\ \A v \in Video : Known(v) => videos[v].torrent \in spent

\* A request that will store a video, or delete, has a torrent in hand.
CreateInv ==
    \A r \in Request :
        /\ req[r].pc \in {"make", "check", "store"} => req[r].op = "create"
        /\ \/ req[r].pc \in {"check", "store", "list", "drop"}
           \/ req[r].pc = "resolve" /\ req[r].op = "create"
           => req[r].torrent \in spent

\* A request that edits has at most one video, and past the check of its owner it is one
\* of its user's.
EditInv ==
    \A r \in Request : \A v \in req[r].videos :
        /\ \/ req[r].pc \in {"edit", "clear", "link"}
           \/ req[r].pc = "resolve" /\ req[r].op # "create"
           => Known(v) /\ \A x \in req[r].videos : x = v
        /\ req[r].pc \in {"clear", "link"} => videos[v].user = req[r].user

\* A request that deletes has videos of its torrent, which are gone once it says so.
DropInv ==
    \A r \in Request :
        /\ req[r].pc = "list" => req[r].op = "cascade"
        /\ req[r].pc = "drop" =>
              /\ req[r].op \in {"delete", "orphan", "cascade"}
              /\ req[r].op = "delete" => "torrent" \notin req[r].left
              /\ \A v \in req[r].videos :
                    /\ Known(v) /\ videos[v].torrent = req[r].torrent
                    /\ "videos" \in req[r].left \/ ~Live(v)

\* Tags that are mentioned anywhere were created.
TagInv ==
    /\ \A l \in links : Known(l[1]) /\ tags[l[2]] # "unused"
    /\ \A v \in Video : \A t \in saved[v] : Known(v) /\ tags[t] # "unused"
    /\ \A r \in Request : req[r].pc # "idle" => \A t \in req[r].tags :
          /\ tags[t] # "unused"
          /\ req[r].pc = "untag" => tags[t] = "deleted" /\ \A x \in req[r].tags : x = t
    /\ \A r \in Request : req[r].pc = "link" => req[r].left \subseteq req[r].tags

\* Ids stay given: a video is stored under a torrent somebody found or made.
LEMMA SpentStep ==
  ASSUME TypeOK, SpentInv, CreateInv, [Next]_vars PROVE SpentInv'
<1> USE DEF SpentInv, CreateInv, Known, Live
<1>1. ASSUME NEW r \in Request, NEW u \in User, NEW S \in SUBSET LiveTags, CreateReads(r, u, S)
      PROVE SpentInv'
  BY <1>1, Types, CreateReadsStep DEF state, history, Began
<1>2. ASSUME NEW r \in Request, NEW t \in Torrent, MakeTorrent(r, t) PROVE SpentInv'
  BY <1>2, Types, MakeTorrentStep DEF history, Began, Moved
<1>3. ASSUME NEW r \in Request, CheckVideo(r) PROVE SpentInv'
  BY <1>3, Types, GoesStep DEF CheckVideo, state, history, Moved
<1>4. ASSUME NEW r \in Request, ResolveTags(r) PROVE SpentInv'
  BY <1>4, Types, GoesStep DEF ResolveTags, state, Ends, Moved
<1>5. ASSUME NEW r \in Request, NEW v \in Video, StoreVideo(r, v) PROVE SpentInv'
  BY <1>5, Types, StoreStep DEF Began, Moved
<1>6. ASSUME NEW r \in Request, NEW v \in Video, EditVideo(r, v) PROVE SpentInv'
  BY <1>6, Types, GoesStep DEF EditVideo, state, history, Owns, Moved
<1>7. ASSUME NEW r \in Request, NEW v \in Video, ClearTags(r, v) PROVE SpentInv'
  BY <1>7, Types, ClearStep DEF Unlink, LinksOf, Worked
<1>8. ASSUME NEW r \in Request, NEW u \in User, NEW v \in Video, NEW S \in SUBSET LiveTags,
             UpdateStarts(r, u, v, S)
      PROVE SpentInv'
  BY <1>8, Types, UpdateStep DEF state, history, Began
<1>9. ASSUME NEW r \in Request, NEW v \in Video, NEW t \in Tag, LinkTag(r, v, t)
      PROVE SpentInv'
  BY <1>9, Types, LinkStep DEF Worked
<1>10. ASSUME NEW r \in Request, NEW u \in User, NEW v \in Video, DeleteReads(r, u, v)
      PROVE SpentInv'
  BY <1>10, Types, DeleteReadsStep DEF state, history, Owns, Began
<1>11. ASSUME NEW r \in Request, DeleteTorrentReads(r) PROVE SpentInv'
  BY <1>11, Types, DeleteTorrentReadsStep DEF state, history, Began
<1>12. ASSUME NEW r \in Request, ListVideos(r) PROVE SpentInv'
  BY <1>12, Types, ListStep DEF state, history, Parts, Began
<1>13. ASSUME NEW r \in Request, DropLinks(r) PROVE SpentInv'
  BY <1>13, Types, DroppedStep DEF DropLinks, Dropping, Unlink, LinksOf, Worked
<1>14. ASSUME NEW r \in Request, DropVideos(r) PROVE SpentInv'
  BY <1>14, Types, DropVideosStep DEF history, Worked
<1>15. ASSUME NEW r \in Request, DropTorrent(r) PROVE SpentInv'
  BY <1>15, Types, DroppedStep DEF DropTorrent, Dropping, history, Worked
<1>16. ASSUME NEW r \in Request, DropsDone(r) PROVE SpentInv'
  BY <1>16, Types, DoneStep DEF state, history, Began, Moved
<1>17. ASSUME NEW r \in Request, NEW t \in Tag, DeleteTag(r, t) PROVE SpentInv'
  BY <1>17, Types, DeleteTagStep DEF history, Began
<1>18. ASSUME NEW r \in Request, NEW t \in Tag, UnlinkTag(r, t) PROVE SpentInv'
  BY <1>18, Types, GoesStep DEF UnlinkTag, Ends, Unlink, Tagged, Moved
<1>19. ASSUME NEW r \in Request, RequestBreaks(r) PROVE SpentInv'
  BY <1>19, Types, GoesStep DEF RequestBreaks, state, Ends, LinksOf, Moved
<1>20. ASSUME NEW t \in Tag, CreateTag(t) PROVE SpentInv'
  BY <1>20, Types DEF CreateTag, history
<1>21. CASE UNCHANGED vars
  BY <1>21 DEF vars
<1>22. ASSUME NEW r \in Request, NEW v \in Video, NEW t \in Tag, LinkRefused(r, v, t)
      PROVE SpentInv'
  BY <1>22, Types, RefusedStep DEF state, history, Worked
<1> HIDE DEF SpentInv
<1> QED
  BY <1>1, <1>2, <1>3, <1>4, <1>5, <1>6, <1>7, <1>8, <1>9, <1>10, <1>11, <1>12, <1>13,
     <1>14, <1>15, <1>16, <1>17, <1>18, <1>19, <1>20, <1>21, <1>22 DEF Next, RequestStep

\* A request has a torrent from the check of the video on.
LEMMA CreateStep ==
  ASSUME TypeOK, SpentInv, CreateInv, DropInv, [Next]_vars PROVE CreateInv'
<1> USE DEF CreateInv, SpentInv, Known, Live, VideosOf, Others
<1>1. ASSUME NEW r \in Request, NEW u \in User, NEW S \in SUBSET LiveTags, CreateReads(r, u, S)
      PROVE CreateInv'
  BY <1>1, Types, CreateReadsStep DEF state, history, Began
<1>2. ASSUME NEW r \in Request, NEW t \in Torrent, MakeTorrent(r, t) PROVE CreateInv'
  BY <1>2, Types, MakeTorrentStep DEF history, Began, Moved
<1>3. ASSUME NEW r \in Request, CheckVideo(r) PROVE CreateInv'
  BY <1>3, Types, GoesStep DEF CheckVideo, state, history, Moved
<1>4. ASSUME NEW r \in Request, ResolveTags(r) PROVE CreateInv'
  BY <1>4, Types, GoesStep DEF ResolveTags, state, Ends, Moved
<1>5. ASSUME NEW r \in Request, NEW v \in Video, StoreVideo(r, v) PROVE CreateInv'
  BY <1>5, Types, StoreStep DEF Began, Moved
<1>6. ASSUME NEW r \in Request, NEW v \in Video, EditVideo(r, v) PROVE CreateInv'
  BY <1>6, Types, GoesStep DEF EditVideo, state, history, Owns, Moved
<1>7. ASSUME NEW r \in Request, NEW v \in Video, ClearTags(r, v) PROVE CreateInv'
  BY <1>7, Types, ClearStep DEF Unlink, LinksOf, Worked
<1>8. ASSUME NEW r \in Request, NEW u \in User, NEW v \in Video, NEW S \in SUBSET LiveTags,
             UpdateStarts(r, u, v, S)
      PROVE CreateInv'
  BY <1>8, Types, UpdateStep DEF state, history, Began
<1>9. ASSUME NEW r \in Request, NEW v \in Video, NEW t \in Tag, LinkTag(r, v, t)
      PROVE CreateInv'
  BY <1>9, Types, LinkStep DEF Worked
<1>10. ASSUME NEW r \in Request, NEW u \in User, NEW v \in Video, DeleteReads(r, u, v)
      PROVE CreateInv'
  BY <1>10, Types, DeleteReadsStep DEF state, history, Owns, Began
<1>11. ASSUME NEW r \in Request, DeleteTorrentReads(r) PROVE CreateInv'
  BY <1>11, Types, DeleteTorrentReadsStep DEF state, history, Began
<1>12. ASSUME NEW r \in Request, ListVideos(r) PROVE CreateInv'
  BY <1>12, Types, ListStep DEF state, history, Parts, Began
<1>13. ASSUME NEW r \in Request, DropLinks(r) PROVE CreateInv'
  BY <1>13, Types, DroppedStep DEF DropLinks, Dropping, Unlink, LinksOf, Worked
<1>14. ASSUME NEW r \in Request, DropVideos(r) PROVE CreateInv'
  BY <1>14, Types, DropVideosStep DEF history, Worked
<1>15. ASSUME NEW r \in Request, DropTorrent(r) PROVE CreateInv'
  BY <1>15, Types, DroppedStep DEF DropTorrent, Dropping, history, Worked
<1>16. ASSUME NEW r \in Request, DropsDone(r) PROVE CreateInv'
  BY <1>16, Types, DoneStep DEF state, history, Began, Moved
<1>17. ASSUME NEW r \in Request, NEW t \in Tag, DeleteTag(r, t) PROVE CreateInv'
  BY <1>17, Types, DeleteTagStep DEF history, Began
<1>18. ASSUME NEW r \in Request, NEW t \in Tag, UnlinkTag(r, t) PROVE CreateInv'
  BY <1>18, Types, GoesStep DEF UnlinkTag, Ends, Unlink, Tagged, Moved
<1>19. ASSUME NEW r \in Request, RequestBreaks(r) PROVE CreateInv'
  BY <1>19, Types, GoesStep DEF RequestBreaks, state, Ends, LinksOf, Moved
<1>20. ASSUME NEW t \in Tag, CreateTag(t) PROVE CreateInv'
  BY <1>20, Types DEF CreateTag, history
<1>21. CASE UNCHANGED vars
  BY <1>21 DEF vars
<1>22. ASSUME NEW r \in Request, NEW v \in Video, NEW t \in Tag, LinkRefused(r, v, t)
      PROVE CreateInv'
  BY <1>22, Types, RefusedStep DEF state, history, Worked
<1> HIDE DEF CreateInv
<1> QED
  BY <1>1, <1>2, <1>3, <1>4, <1>5, <1>6, <1>7, <1>8, <1>9, <1>10, <1>11, <1>12, <1>13,
     <1>14, <1>15, <1>16, <1>17, <1>18, <1>19, <1>20, <1>21, <1>22 DEF Next, RequestStep

\* A request's video does not change its owner while it is edited.
LEMMA EditStep ==
  ASSUME TypeOK, CreateInv, EditInv, [Next]_vars PROVE EditInv'
<1> USE DEF EditInv, CreateInv, Known, Live, Others
<1>1. ASSUME NEW r \in Request, NEW u \in User, NEW S \in SUBSET LiveTags, CreateReads(r, u, S)
      PROVE EditInv'
  BY <1>1, Types, CreateReadsStep DEF state, history, Began
<1>2. ASSUME NEW r \in Request, NEW t \in Torrent, MakeTorrent(r, t) PROVE EditInv'
  BY <1>2, Types, MakeTorrentStep DEF history, Began, Moved
<1>3. ASSUME NEW r \in Request, CheckVideo(r) PROVE EditInv'
  BY <1>3, Types, GoesStep DEF CheckVideo, state, history, Moved
<1>4. ASSUME NEW r \in Request, ResolveTags(r) PROVE EditInv'
  BY <1>4, Types, GoesStep DEF ResolveTags, state, Ends, Moved
<1>5. ASSUME NEW r \in Request, NEW v \in Video, StoreVideo(r, v) PROVE EditInv'
  BY <1>5, Types, StoreStep DEF Began, Moved
<1>6. ASSUME NEW r \in Request, NEW v \in Video, EditVideo(r, v) PROVE EditInv'
  BY <1>6, Types, GoesStep DEF EditVideo, state, history, Owns, Moved
<1>7. ASSUME NEW r \in Request, NEW v \in Video, ClearTags(r, v) PROVE EditInv'
  BY <1>7, Types, ClearStep DEF Unlink, LinksOf, Worked
<1>8. ASSUME NEW r \in Request, NEW u \in User, NEW v \in Video, NEW S \in SUBSET LiveTags,
             UpdateStarts(r, u, v, S)
      PROVE EditInv'
  BY <1>8, Types, UpdateStep DEF state, history, Began
<1>9. ASSUME NEW r \in Request, NEW v \in Video, NEW t \in Tag, LinkTag(r, v, t) PROVE EditInv'
  BY <1>9, Types, LinkStep DEF Worked
<1>10. ASSUME NEW r \in Request, NEW u \in User, NEW v \in Video, DeleteReads(r, u, v)
      PROVE EditInv'
  BY <1>10, Types, DeleteReadsStep DEF state, history, Owns, Began
<1>11. ASSUME NEW r \in Request, DeleteTorrentReads(r) PROVE EditInv'
  BY <1>11, Types, DeleteTorrentReadsStep DEF state, history, Began
<1>12. ASSUME NEW r \in Request, ListVideos(r) PROVE EditInv'
  BY <1>12, Types, ListStep DEF state, history, Parts, Began
<1>13. ASSUME NEW r \in Request, DropLinks(r) PROVE EditInv'
  BY <1>13, Types, DroppedStep DEF DropLinks, Dropping, Unlink, LinksOf, Worked
<1>14. ASSUME NEW r \in Request, DropVideos(r) PROVE EditInv'
  BY <1>14, Types, DropVideosStep DEF history, Worked
<1>15. ASSUME NEW r \in Request, DropTorrent(r) PROVE EditInv'
  BY <1>15, Types, DroppedStep DEF DropTorrent, Dropping, history, Worked
<1>16. ASSUME NEW r \in Request, DropsDone(r) PROVE EditInv'
  BY <1>16, Types, DoneStep DEF state, history, Began, Moved
<1>17. ASSUME NEW r \in Request, NEW t \in Tag, DeleteTag(r, t) PROVE EditInv'
  BY <1>17, Types, DeleteTagStep DEF history, Began
<1>18. ASSUME NEW r \in Request, NEW t \in Tag, UnlinkTag(r, t) PROVE EditInv'
  BY <1>18, Types, GoesStep DEF UnlinkTag, Ends, Unlink, Tagged, Moved
<1>19. ASSUME NEW r \in Request, RequestBreaks(r) PROVE EditInv'
  BY <1>19, Types, GoesStep DEF RequestBreaks, state, Ends, LinksOf, Moved
<1>20. ASSUME NEW t \in Tag, CreateTag(t) PROVE EditInv'
  BY <1>20, Types DEF CreateTag, history
<1>21. CASE UNCHANGED vars
  BY <1>21 DEF vars
<1>22. ASSUME NEW r \in Request, NEW v \in Video, NEW t \in Tag, LinkRefused(r, v, t)
      PROVE EditInv'
  BY <1>22, Types, RefusedStep DEF state, history, Worked
<1> HIDE DEF EditInv
<1> QED
  BY <1>1, <1>2, <1>3, <1>4, <1>5, <1>6, <1>7, <1>8, <1>9, <1>10, <1>11, <1>12, <1>13,
     <1>14, <1>15, <1>16, <1>17, <1>18, <1>19, <1>20, <1>21, <1>22 DEF Next, RequestStep

\* A request deletes what it listed, and that stays deleted.
LEMMA DropStep ==
  ASSUME TypeOK, SpentInv, DropInv, [Next]_vars PROVE DropInv'
<1> USE DEF DropInv, Known, Live, VideosOf, Others
<1>1. ASSUME NEW r \in Request, NEW u \in User, NEW S \in SUBSET LiveTags, CreateReads(r, u, S)
      PROVE DropInv'
  BY <1>1, Types, CreateReadsStep DEF state, history, Began
<1>2. ASSUME NEW r \in Request, NEW t \in Torrent, MakeTorrent(r, t) PROVE DropInv'
  BY <1>2, Types, MakeTorrentStep DEF history, Began, Moved
<1>3. ASSUME NEW r \in Request, CheckVideo(r) PROVE DropInv'
  BY <1>3, Types, GoesStep DEF CheckVideo, state, history, Moved
<1>4. ASSUME NEW r \in Request, ResolveTags(r) PROVE DropInv'
  BY <1>4, Types, GoesStep DEF ResolveTags, state, Ends, Moved
<1>5. ASSUME NEW r \in Request, NEW v \in Video, StoreVideo(r, v) PROVE DropInv'
  BY <1>5, Types, StoreStep DEF Began, Moved
<1>6. ASSUME NEW r \in Request, NEW v \in Video, EditVideo(r, v) PROVE DropInv'
  BY <1>6, Types, GoesStep DEF EditVideo, state, history, Owns, Moved
<1>7. ASSUME NEW r \in Request, NEW v \in Video, ClearTags(r, v) PROVE DropInv'
  BY <1>7, Types, ClearStep DEF Unlink, LinksOf, Worked
<1>8. ASSUME NEW r \in Request, NEW u \in User, NEW v \in Video, NEW S \in SUBSET LiveTags,
             UpdateStarts(r, u, v, S)
      PROVE DropInv'
  BY <1>8, Types, UpdateStep DEF state, history, Began
<1>9. ASSUME NEW r \in Request, NEW v \in Video, NEW t \in Tag, LinkTag(r, v, t) PROVE DropInv'
  BY <1>9, Types, LinkStep DEF Worked
<1>10. ASSUME NEW r \in Request, NEW u \in User, NEW v \in Video, DeleteReads(r, u, v)
      PROVE DropInv'
  BY <1>10, Types, DeleteReadsStep DEF state, history, Owns, Began
<1>11. ASSUME NEW r \in Request, DeleteTorrentReads(r) PROVE DropInv'
  BY <1>11, Types, DeleteTorrentReadsStep DEF state, history, Began
<1>12. ASSUME NEW r \in Request, ListVideos(r) PROVE DropInv'
  BY <1>12, Types, ListStep DEF state, history, Parts, Began
<1>13. ASSUME NEW r \in Request, DropLinks(r) PROVE DropInv'
  BY <1>13, Types, DroppedStep DEF DropLinks, Dropping, Unlink, LinksOf, Worked
<1>14. ASSUME NEW r \in Request, DropVideos(r) PROVE DropInv'
  BY <1>14, Types, DropVideosStep DEF history, Worked
<1>15. ASSUME NEW r \in Request, DropTorrent(r) PROVE DropInv'
  BY <1>15, Types, DroppedStep DEF DropTorrent, Dropping, history, Worked
<1>16. ASSUME NEW r \in Request, DropsDone(r) PROVE DropInv'
  BY <1>16, Types, DoneStep DEF state, history, Began, Moved
<1>17. ASSUME NEW r \in Request, NEW t \in Tag, DeleteTag(r, t) PROVE DropInv'
  BY <1>17, Types, DeleteTagStep DEF history, Began
<1>18. ASSUME NEW r \in Request, NEW t \in Tag, UnlinkTag(r, t) PROVE DropInv'
  BY <1>18, Types, GoesStep DEF UnlinkTag, Ends, Unlink, Tagged, Moved
<1>19. ASSUME NEW r \in Request, RequestBreaks(r) PROVE DropInv'
  BY <1>19, Types, GoesStep DEF RequestBreaks, state, Ends, LinksOf, Moved
<1>20. ASSUME NEW t \in Tag, CreateTag(t) PROVE DropInv'
  BY <1>20, Types DEF CreateTag, history
<1>21. CASE UNCHANGED vars
  BY <1>21 DEF vars
<1>22. ASSUME NEW r \in Request, NEW v \in Video, NEW t \in Tag, LinkRefused(r, v, t)
      PROVE DropInv'
  BY <1>22, Types, RefusedStep DEF state, history, Worked
<1> HIDE DEF DropInv
<1> QED
  BY <1>1, <1>2, <1>3, <1>4, <1>5, <1>6, <1>7, <1>8, <1>9, <1>10, <1>11, <1>12, <1>13,
     <1>14, <1>15, <1>16, <1>17, <1>18, <1>19, <1>20, <1>21, <1>22 DEF Next, RequestStep

\* Tags and videos that are linked, selected or deleted were created.
LEMMA TagStep ==
  ASSUME TypeOK, TagInv, EditInv, [Next]_vars PROVE TagInv'
<1> USE DEF TagInv, EditInv, Known, LiveTags, Others
<1>1. ASSUME NEW r \in Request, NEW u \in User, NEW S \in SUBSET LiveTags, CreateReads(r, u, S)
      PROVE TagInv'
  BY <1>1, Types, CreateReadsStep DEF state, history, Began
<1>2. ASSUME NEW r \in Request, NEW t \in Torrent, MakeTorrent(r, t) PROVE TagInv'
  BY <1>2, Types, MakeTorrentStep DEF history, Began, Moved
<1>3. ASSUME NEW r \in Request, CheckVideo(r) PROVE TagInv'
  BY <1>3, Types, GoesStep DEF CheckVideo, state, history, Moved
<1>4. ASSUME NEW r \in Request, ResolveTags(r) PROVE TagInv'
  BY <1>4, Types, GoesStep DEF ResolveTags, state, Ends, Moved
<1>5. ASSUME NEW r \in Request, NEW v \in Video, StoreVideo(r, v) PROVE TagInv'
  BY <1>5, Types, StoreStep DEF Began, Moved
<1>6. ASSUME NEW r \in Request, NEW v \in Video, EditVideo(r, v) PROVE TagInv'
  BY <1>6, Types, GoesStep DEF EditVideo, state, history, Owns, Moved
<1>7. ASSUME NEW r \in Request, NEW v \in Video, ClearTags(r, v) PROVE TagInv'
  BY <1>7, Types, ClearStep DEF Unlink, LinksOf, Worked
<1>8. ASSUME NEW r \in Request, NEW u \in User, NEW v \in Video, NEW S \in SUBSET LiveTags,
             UpdateStarts(r, u, v, S)
      PROVE TagInv'
  BY <1>8, Types, UpdateStep DEF state, history, Began
<1>9. ASSUME NEW r \in Request, NEW v \in Video, NEW t \in Tag, LinkTag(r, v, t) PROVE TagInv'
  BY <1>9, Types, LinkStep DEF Worked
<1>10. ASSUME NEW r \in Request, NEW u \in User, NEW v \in Video, DeleteReads(r, u, v)
      PROVE TagInv'
  BY <1>10, Types, DeleteReadsStep DEF state, history, Owns, Began
<1>11. ASSUME NEW r \in Request, DeleteTorrentReads(r) PROVE TagInv'
  BY <1>11, Types, DeleteTorrentReadsStep DEF state, history, Began
<1>12. ASSUME NEW r \in Request, ListVideos(r) PROVE TagInv'
  BY <1>12, Types, ListStep DEF state, history, Parts, Began
<1>13. ASSUME NEW r \in Request, DropLinks(r) PROVE TagInv'
  BY <1>13, Types, DroppedStep DEF DropLinks, Dropping, Unlink, LinksOf, Worked
<1>14. ASSUME NEW r \in Request, DropVideos(r) PROVE TagInv'
  BY <1>14, Types, DropVideosStep DEF history, Worked
<1>15. ASSUME NEW r \in Request, DropTorrent(r) PROVE TagInv'
  BY <1>15, Types, DroppedStep DEF DropTorrent, Dropping, history, Worked
<1>16. ASSUME NEW r \in Request, DropsDone(r) PROVE TagInv'
  BY <1>16, Types, DoneStep DEF state, history, Began, Moved
<1>17. ASSUME NEW r \in Request, NEW t \in Tag, DeleteTag(r, t) PROVE TagInv'
  BY <1>17, Types, DeleteTagStep DEF history, Began
<1>18. ASSUME NEW r \in Request, NEW t \in Tag, UnlinkTag(r, t) PROVE TagInv'
  BY <1>18, Types, GoesStep DEF UnlinkTag, Ends, Unlink, Tagged, Moved
<1>19. ASSUME NEW r \in Request, RequestBreaks(r) PROVE TagInv'
  BY <1>19, Types, GoesStep DEF RequestBreaks, state, Ends, LinksOf, Moved
<1>20. ASSUME NEW t \in Tag, CreateTag(t) PROVE TagInv'
  BY <1>20, Types DEF CreateTag, history
<1>21. CASE UNCHANGED vars
  BY <1>21 DEF vars
<1>22. ASSUME NEW r \in Request, NEW v \in Video, NEW t \in Tag, LinkRefused(r, v, t)
      PROVE TagInv'
  BY <1>22, Types, RefusedStep DEF state, history, Worked
<1> HIDE DEF TagInv
<1> QED
  BY <1>1, <1>2, <1>3, <1>4, <1>5, <1>6, <1>7, <1>8, <1>9, <1>10, <1>11, <1>12, <1>13,
     <1>14, <1>15, <1>16, <1>17, <1>18, <1>19, <1>20, <1>21, <1>22 DEF Next, RequestStep

-----------------------------------------------------------------------------
(***************************************************************************)
(* Videos and their torrent.                                               *)
(***************************************************************************)

\* Once a request has decided to delete a torrent, its videos are those it is about to
\* delete and those stored since; once it has, another torrent is there or none.
DecidedInv ==
    \A r \in Request :
        req[r].pc = "drop" /\ req[r].op \in {"orphan", "cascade"} =>
            IF "torrent" \in req[r].left
            THEN \A v \in Video : Live(v) /\ videos[v].torrent = req[r].torrent =>
                    v \in loose \/ (v \in req[r].videos /\ "videos" \in req[r].left)
            ELSE torrent # req[r].torrent

\* A video stored after the decision is loose; one before it was listed.
LEMMA DecidedStep ==
  ASSUME TypeOK, SpentInv, CreateInv, DropInv, DecidedInv, [Next]_vars PROVE DecidedInv'
<1> USE DEF DecidedInv, SpentInv, CreateInv, DropInv, Known, Live, VideosOf, BeingDeleted,
            Others
<1>1. ASSUME NEW r \in Request, NEW u \in User, NEW S \in SUBSET LiveTags, CreateReads(r, u, S)
      PROVE DecidedInv'
  BY <1>1, Types, CreateReadsStep DEF state, history, Began
<1>2. ASSUME NEW r \in Request, NEW t \in Torrent, MakeTorrent(r, t) PROVE DecidedInv'
  BY <1>2, Types, MakeTorrentStep DEF history, Began, Moved
<1>3. ASSUME NEW r \in Request, CheckVideo(r) PROVE DecidedInv'
  BY <1>3, Types, GoesStep DEF CheckVideo, state, history, Moved
<1>4. ASSUME NEW r \in Request, ResolveTags(r) PROVE DecidedInv'
  BY <1>4, Types, GoesStep DEF ResolveTags, state, Ends, Moved
<1>5. ASSUME NEW r \in Request, NEW v \in Video, StoreVideo(r, v) PROVE DecidedInv'
  BY <1>5, Types, StoreStep DEF Began, Moved
<1>6. ASSUME NEW r \in Request, NEW v \in Video, EditVideo(r, v) PROVE DecidedInv'
  BY <1>6, Types, GoesStep DEF EditVideo, state, history, Owns, Moved
<1>7. ASSUME NEW r \in Request, NEW v \in Video, ClearTags(r, v) PROVE DecidedInv'
  BY <1>7, Types, ClearStep DEF Unlink, LinksOf, Worked
<1>8. ASSUME NEW r \in Request, NEW u \in User, NEW v \in Video, NEW S \in SUBSET LiveTags,
             UpdateStarts(r, u, v, S)
      PROVE DecidedInv'
  BY <1>8, Types, UpdateStep DEF state, history, Began
<1>9. ASSUME NEW r \in Request, NEW v \in Video, NEW t \in Tag, LinkTag(r, v, t)
      PROVE DecidedInv'
  BY <1>9, Types, LinkStep DEF Worked
<1>10. ASSUME NEW r \in Request, NEW u \in User, NEW v \in Video, DeleteReads(r, u, v)
      PROVE DecidedInv'
  BY <1>10, Types, DeleteReadsStep DEF state, history, Owns, Began
<1>11. ASSUME NEW r \in Request, DeleteTorrentReads(r) PROVE DecidedInv'
  BY <1>11, Types, DeleteTorrentReadsStep DEF state, history, Began
<1>12. ASSUME NEW r \in Request, ListVideos(r) PROVE DecidedInv'
  BY <1>12, Types, ListStep DEF state, history, Parts, Began
<1>13. ASSUME NEW r \in Request, DropLinks(r) PROVE DecidedInv'
  BY <1>13, Types, DroppedStep DEF DropLinks, Dropping, Unlink, LinksOf, Worked
<1>14. ASSUME NEW r \in Request, DropVideos(r) PROVE DecidedInv'
  BY <1>14, Types, DropVideosStep DEF history, Worked
<1>15. ASSUME NEW r \in Request, DropTorrent(r) PROVE DecidedInv'
  BY <1>15, Types, DroppedStep DEF DropTorrent, Dropping, history, Worked
<1>16. ASSUME NEW r \in Request, DropsDone(r) PROVE DecidedInv'
  BY <1>16, Types, DoneStep DEF state, history, Began, Moved
<1>17. ASSUME NEW r \in Request, NEW t \in Tag, DeleteTag(r, t) PROVE DecidedInv'
  BY <1>17, Types, DeleteTagStep DEF history, Began
<1>18. ASSUME NEW r \in Request, NEW t \in Tag, UnlinkTag(r, t) PROVE DecidedInv'
  BY <1>18, Types, GoesStep DEF UnlinkTag, Ends, Unlink, Tagged, Moved
<1>19. ASSUME NEW r \in Request, RequestBreaks(r) PROVE DecidedInv'
  BY <1>19, Types, GoesStep DEF RequestBreaks, state, Ends, LinksOf, Moved
<1>20. ASSUME NEW t \in Tag, CreateTag(t) PROVE DecidedInv'
  BY <1>20, Types DEF CreateTag, history
<1>21. CASE UNCHANGED vars
  BY <1>21 DEF vars
<1>22. ASSUME NEW r \in Request, NEW v \in Video, NEW t \in Tag, LinkRefused(r, v, t)
      PROVE DecidedInv'
  BY <1>22, Types, RefusedStep DEF state, history, Worked
<1> HIDE DEF DecidedInv
<1> QED
  BY <1>1, <1>2, <1>3, <1>4, <1>5, <1>6, <1>7, <1>8, <1>9, <1>10, <1>11, <1>12, <1>13,
     <1>14, <1>15, <1>16, <1>17, <1>18, <1>19, <1>20, <1>21, <1>22 DEF Next, RequestStep

\* The step that matters is DropTorrent, by DecidedInv.
LEMMA HasTorrentStep ==
  ASSUME TypeOK, SpentInv, CreateInv, DropInv, DecidedInv, VideoHasTorrent, [Next]_vars
  PROVE  VideoHasTorrent'
<1> USE DEF VideoHasTorrent, SpentInv, CreateInv, DropInv, DecidedInv, Drops, Known, Live,
            VideosOf, BeingDeleted, Others
<1>1. ASSUME NEW r \in Request, NEW u \in User, NEW S \in SUBSET LiveTags, CreateReads(r, u, S)
      PROVE VideoHasTorrent'
  BY <1>1, Types, CreateReadsStep DEF state, history, Began
<1>2. ASSUME NEW r \in Request, NEW t \in Torrent, MakeTorrent(r, t) PROVE VideoHasTorrent'
  BY <1>2, Types, MakeTorrentStep DEF history, Began, Moved
<1>3. ASSUME NEW r \in Request, CheckVideo(r) PROVE VideoHasTorrent'
  BY <1>3, Types, GoesStep DEF CheckVideo, state, history, Moved
<1>4. ASSUME NEW r \in Request, ResolveTags(r) PROVE VideoHasTorrent'
  BY <1>4, Types, GoesStep DEF ResolveTags, state, Ends, Moved
<1>5. ASSUME NEW r \in Request, NEW v \in Video, StoreVideo(r, v) PROVE VideoHasTorrent'
  BY <1>5, Types, StoreStep DEF Began, Moved
<1>6. ASSUME NEW r \in Request, NEW v \in Video, EditVideo(r, v) PROVE VideoHasTorrent'
  BY <1>6, Types, GoesStep DEF EditVideo, state, history, Owns, Moved
<1>7. ASSUME NEW r \in Request, NEW v \in Video, ClearTags(r, v) PROVE VideoHasTorrent'
  BY <1>7, Types, ClearStep DEF Unlink, LinksOf, Worked
<1>8. ASSUME NEW r \in Request, NEW u \in User, NEW v \in Video, NEW S \in SUBSET LiveTags,
             UpdateStarts(r, u, v, S)
      PROVE VideoHasTorrent'
  BY <1>8, Types, UpdateStep DEF state, history, Began
<1>9. ASSUME NEW r \in Request, NEW v \in Video, NEW t \in Tag, LinkTag(r, v, t)
      PROVE VideoHasTorrent'
  BY <1>9, Types, LinkStep DEF Worked
<1>10. ASSUME NEW r \in Request, NEW u \in User, NEW v \in Video, DeleteReads(r, u, v)
      PROVE VideoHasTorrent'
  BY <1>10, Types, DeleteReadsStep DEF state, history, Owns, Began
<1>11. ASSUME NEW r \in Request, DeleteTorrentReads(r) PROVE VideoHasTorrent'
  BY <1>11, Types, DeleteTorrentReadsStep DEF state, history, Began
<1>12. ASSUME NEW r \in Request, ListVideos(r) PROVE VideoHasTorrent'
  BY <1>12, Types, ListStep DEF state, history, Parts, Began
<1>13. ASSUME NEW r \in Request, DropLinks(r) PROVE VideoHasTorrent'
  BY <1>13, Types, DroppedStep DEF DropLinks, Dropping, Unlink, LinksOf, Worked
<1>14. ASSUME NEW r \in Request, DropVideos(r) PROVE VideoHasTorrent'
  BY <1>14, Types, DropVideosStep DEF history, Worked
<1>15. ASSUME NEW r \in Request, DropTorrent(r) PROVE VideoHasTorrent'
  BY <1>15, Types, DroppedStep DEF DropTorrent, Dropping, history, Worked
<1>16. ASSUME NEW r \in Request, DropsDone(r) PROVE VideoHasTorrent'
  BY <1>16, Types, DoneStep DEF state, history, Began, Moved
<1>17. ASSUME NEW r \in Request, NEW t \in Tag, DeleteTag(r, t) PROVE VideoHasTorrent'
  BY <1>17, Types, DeleteTagStep DEF history, Began
<1>18. ASSUME NEW r \in Request, NEW t \in Tag, UnlinkTag(r, t) PROVE VideoHasTorrent'
  BY <1>18, Types, GoesStep DEF UnlinkTag, Ends, Unlink, Tagged, Moved
<1>19. ASSUME NEW r \in Request, RequestBreaks(r) PROVE VideoHasTorrent'
  BY <1>19, Types, GoesStep DEF RequestBreaks, state, Ends, LinksOf, Moved
<1>20. ASSUME NEW t \in Tag, CreateTag(t) PROVE VideoHasTorrent'
  BY <1>20, Types DEF CreateTag, history
<1>21. CASE UNCHANGED vars
  BY <1>21 DEF vars
<1>22. ASSUME NEW r \in Request, NEW v \in Video, NEW t \in Tag, LinkRefused(r, v, t)
      PROVE VideoHasTorrent'
  BY <1>22, Types, RefusedStep DEF state, history, Worked
<1> HIDE DEF VideoHasTorrent
<1> QED
  BY <1>1, <1>2, <1>3, <1>4, <1>5, <1>6, <1>7, <1>8, <1>9, <1>10, <1>11, <1>12, <1>13,
     <1>14, <1>15, <1>16, <1>17, <1>18, <1>19, <1>20, <1>21, <1>22 DEF Next, RequestStep

\* The last video goes by DropVideos, whose request then counts; a request that ends
\* has found a video, forsaken the torrent or deleted it.
LEMMA OrphanStep ==
  ASSUME TypeOK, SpentInv, CreateInv, DropInv, DecidedInv, NoOrphanTorrent, [Next]_vars
  PROVE  NoOrphanTorrent'
<1> USE DEF NoOrphanTorrent, SpentInv, CreateInv, DropInv, DecidedInv, Known, Live, VideosOf,
            Forsakes, Has, Others
<1>1. ASSUME NEW r \in Request, NEW u \in User, NEW S \in SUBSET LiveTags, CreateReads(r, u, S)
      PROVE NoOrphanTorrent'
  BY <1>1, Types, CreateReadsStep DEF state, history, Began
<1>2. ASSUME NEW r \in Request, NEW t \in Torrent, MakeTorrent(r, t) PROVE NoOrphanTorrent'
  BY <1>2, Types, MakeTorrentStep DEF history, Began, Moved
<1>3. ASSUME NEW r \in Request, CheckVideo(r) PROVE NoOrphanTorrent'
  BY <1>3, Types, GoesStep DEF CheckVideo, state, history, Moved
<1>4. ASSUME NEW r \in Request, ResolveTags(r) PROVE NoOrphanTorrent'
  BY <1>4, Types, GoesStep DEF ResolveTags, state, Ends, Moved
<1>5. ASSUME NEW r \in Request, NEW v \in Video, StoreVideo(r, v) PROVE NoOrphanTorrent'
  BY <1>5, Types, StoreStep DEF Began, Moved
<1>6. ASSUME NEW r \in Request, NEW v \in Video, EditVideo(r, v) PROVE NoOrphanTorrent'
  BY <1>6, Types, GoesStep DEF EditVideo, state, history, Owns, Moved
<1>7. ASSUME NEW r \in Request, NEW v \in Video, ClearTags(r, v) PROVE NoOrphanTorrent'
  BY <1>7, Types, ClearStep DEF Unlink, LinksOf, Worked
<1>8. ASSUME NEW r \in Request, NEW u \in User, NEW v \in Video, NEW S \in SUBSET LiveTags,
             UpdateStarts(r, u, v, S)
      PROVE NoOrphanTorrent'
  BY <1>8, Types, UpdateStep DEF state, history, Began
<1>9. ASSUME NEW r \in Request, NEW v \in Video, NEW t \in Tag, LinkTag(r, v, t)
      PROVE NoOrphanTorrent'
  BY <1>9, Types, LinkStep DEF Worked
<1>10. ASSUME NEW r \in Request, NEW u \in User, NEW v \in Video, DeleteReads(r, u, v)
      PROVE NoOrphanTorrent'
  BY <1>10, Types, DeleteReadsStep DEF state, history, Owns, Began
<1>11. ASSUME NEW r \in Request, DeleteTorrentReads(r) PROVE NoOrphanTorrent'
  BY <1>11, Types, DeleteTorrentReadsStep DEF state, history, Began
<1>12. ASSUME NEW r \in Request, ListVideos(r) PROVE NoOrphanTorrent'
  BY <1>12, Types, ListStep DEF state, history, Parts, Began
<1>13. ASSUME NEW r \in Request, DropLinks(r) PROVE NoOrphanTorrent'
  BY <1>13, Types, DroppedStep DEF DropLinks, Dropping, Unlink, LinksOf, Worked
<1>14. ASSUME NEW r \in Request, DropVideos(r) PROVE NoOrphanTorrent'
  BY <1>14, Types, DropVideosStep DEF history, Worked
<1>15. ASSUME NEW r \in Request, DropTorrent(r) PROVE NoOrphanTorrent'
  BY <1>15, Types, DroppedStep DEF DropTorrent, Dropping, history, Worked
<1>16. ASSUME NEW r \in Request, DropsDone(r) PROVE NoOrphanTorrent'
  BY <1>16, Types, DoneStep DEF state, history, Began, Moved
<1>17. ASSUME NEW r \in Request, NEW t \in Tag, DeleteTag(r, t) PROVE NoOrphanTorrent'
  BY <1>17, Types, DeleteTagStep DEF history, Began
<1>18. ASSUME NEW r \in Request, NEW t \in Tag, UnlinkTag(r, t) PROVE NoOrphanTorrent'
  BY <1>18, Types, GoesStep DEF UnlinkTag, Ends, Unlink, Tagged, Moved
<1>19. ASSUME NEW r \in Request, RequestBreaks(r) PROVE NoOrphanTorrent'
  BY <1>19, Types, GoesStep DEF RequestBreaks, state, Ends, LinksOf, Moved
<1>20. ASSUME NEW t \in Tag, CreateTag(t) PROVE NoOrphanTorrent'
  BY <1>20, Types DEF CreateTag, history
<1>21. CASE UNCHANGED vars
  BY <1>21 DEF vars
<1>22. ASSUME NEW r \in Request, NEW v \in Video, NEW t \in Tag, LinkRefused(r, v, t)
      PROVE NoOrphanTorrent'
  BY <1>22, Types, RefusedStep DEF state, history, Worked
<1> HIDE DEF NoOrphanTorrent
<1> QED
  BY <1>1, <1>2, <1>3, <1>4, <1>5, <1>6, <1>7, <1>8, <1>9, <1>10, <1>11, <1>12, <1>13,
     <1>14, <1>15, <1>16, <1>17, <1>18, <1>19, <1>20, <1>21, <1>22 DEF Next, RequestStep

-----------------------------------------------------------------------------
(***************************************************************************)
(* Links.                                                                  *)
(***************************************************************************)

\* A request that has deleted the links of its videos has left only stale ones.
UnlinkedInv ==
    \A r \in Request, l \in links \ stale :
        req[r].pc = "drop" /\ l[1] \in req[r].videos => "links" \in req[r].left

\* A link that comes after is stale.
LEMMA UnlinkedStep ==
  ASSUME TypeOK, DropInv, TagInv, UnlinkedInv, [Next]_vars PROVE UnlinkedInv'
<1> USE DEF UnlinkedInv, TagInv, DropInv, Known, Live, Unlinked, Others
<1>1. ASSUME NEW r \in Request, NEW u \in User, NEW S \in SUBSET LiveTags, CreateReads(r, u, S)
      PROVE UnlinkedInv'
  BY <1>1, Types, CreateReadsStep DEF state, history, Began
<1>2. ASSUME NEW r \in Request, NEW t \in Torrent, MakeTorrent(r, t) PROVE UnlinkedInv'
  BY <1>2, Types, MakeTorrentStep DEF history, Began, Moved
<1>3. ASSUME NEW r \in Request, CheckVideo(r) PROVE UnlinkedInv'
  BY <1>3, Types, GoesStep DEF CheckVideo, state, history, Moved
<1>4. ASSUME NEW r \in Request, ResolveTags(r) PROVE UnlinkedInv'
  BY <1>4, Types, GoesStep DEF ResolveTags, state, Ends, Moved
<1>5. ASSUME NEW r \in Request, NEW v \in Video, StoreVideo(r, v) PROVE UnlinkedInv'
  BY <1>5, Types, StoreStep DEF Began, Moved
<1>6. ASSUME NEW r \in Request, NEW v \in Video, EditVideo(r, v) PROVE UnlinkedInv'
  BY <1>6, Types, GoesStep DEF EditVideo, state, history, Owns, Moved
<1>7. ASSUME NEW r \in Request, NEW v \in Video, ClearTags(r, v) PROVE UnlinkedInv'
  BY <1>7, Types, ClearStep DEF Unlink, LinksOf, Worked
<1>8. ASSUME NEW r \in Request, NEW u \in User, NEW v \in Video, NEW S \in SUBSET LiveTags,
             UpdateStarts(r, u, v, S)
      PROVE UnlinkedInv'
  BY <1>8, Types, UpdateStep DEF state, history, Began
<1>9. ASSUME NEW r \in Request, NEW v \in Video, NEW t \in Tag, LinkTag(r, v, t)
      PROVE UnlinkedInv'
  BY <1>9, Types, LinkStep DEF Worked
<1>10. ASSUME NEW r \in Request, NEW u \in User, NEW v \in Video, DeleteReads(r, u, v)
      PROVE UnlinkedInv'
  BY <1>10, Types, DeleteReadsStep DEF state, history, Owns, Began
<1>11. ASSUME NEW r \in Request, DeleteTorrentReads(r) PROVE UnlinkedInv'
  BY <1>11, Types, DeleteTorrentReadsStep DEF state, history, Began
<1>12. ASSUME NEW r \in Request, ListVideos(r) PROVE UnlinkedInv'
  BY <1>12, Types, ListStep DEF state, history, Parts, Began
<1>13. ASSUME NEW r \in Request, DropLinks(r) PROVE UnlinkedInv'
  BY <1>13, Types, DroppedStep DEF DropLinks, Dropping, Unlink, LinksOf, Worked
<1>14. ASSUME NEW r \in Request, DropVideos(r) PROVE UnlinkedInv'
  BY <1>14, Types, DropVideosStep DEF history, Worked
<1>15. ASSUME NEW r \in Request, DropTorrent(r) PROVE UnlinkedInv'
  BY <1>15, Types, DroppedStep DEF DropTorrent, Dropping, history, Worked
<1>16. ASSUME NEW r \in Request, DropsDone(r) PROVE UnlinkedInv'
  BY <1>16, Types, DoneStep DEF state, history, Began, Moved
<1>17. ASSUME NEW r \in Request, NEW t \in Tag, DeleteTag(r, t) PROVE UnlinkedInv'
  BY <1>17, Types, DeleteTagStep DEF history, Began
<1>18. ASSUME NEW r \in Request, NEW t \in Tag, UnlinkTag(r, t) PROVE UnlinkedInv'
  BY <1>18, Types, GoesStep DEF UnlinkTag, Ends, Unlink, Tagged, Moved
<1>19. ASSUME NEW r \in Request, RequestBreaks(r) PROVE UnlinkedInv'
  BY <1>19, Types, GoesStep DEF RequestBreaks, state, Ends, LinksOf, Moved
<1>20. ASSUME NEW t \in Tag, CreateTag(t) PROVE UnlinkedInv'
  BY <1>20, Types DEF CreateTag, history
<1>21. CASE UNCHANGED vars
  BY <1>21 DEF vars
<1>22. ASSUME NEW r \in Request, NEW v \in Video, NEW t \in Tag, LinkRefused(r, v, t)
      PROVE UnlinkedInv'
  BY <1>22, Types, RefusedStep DEF state, history, Worked
<1> HIDE DEF UnlinkedInv
<1> QED
  BY <1>1, <1>2, <1>3, <1>4, <1>5, <1>6, <1>7, <1>8, <1>9, <1>10, <1>11, <1>12, <1>13,
     <1>14, <1>15, <1>16, <1>17, <1>18, <1>19, <1>20, <1>21, <1>22 DEF Next, RequestStep

\* A video is deleted after its links or before; a tag always before.
LEMMA LinksStep ==
  ASSUME TypeOK, DropInv, TagInv, UnlinkedInv, LinksResolve, [Next]_vars PROVE LinksResolve'
<1> USE DEF LinksResolve, TagInv, DropInv, UnlinkedInv, Drops, Known, Live, Unlinked, Others
<1>1. ASSUME NEW r \in Request, NEW u \in User, NEW S \in SUBSET LiveTags, CreateReads(r, u, S)
      PROVE LinksResolve'
  BY <1>1, Types, CreateReadsStep DEF state, history, Began
<1>2. ASSUME NEW r \in Request, NEW t \in Torrent, MakeTorrent(r, t) PROVE LinksResolve'
  BY <1>2, Types, MakeTorrentStep DEF history, Began, Moved
<1>3. ASSUME NEW r \in Request, CheckVideo(r) PROVE LinksResolve'
  BY <1>3, Types, GoesStep DEF CheckVideo, state, history, Moved
<1>4. ASSUME NEW r \in Request, ResolveTags(r) PROVE LinksResolve'
  BY <1>4, Types, GoesStep DEF ResolveTags, state, Ends, Moved
<1>5. ASSUME NEW r \in Request, NEW v \in Video, StoreVideo(r, v) PROVE LinksResolve'
  BY <1>5, Types, StoreStep DEF Began, Moved
<1>6. ASSUME NEW r \in Request, NEW v \in Video, EditVideo(r, v) PROVE LinksResolve'
  BY <1>6, Types, GoesStep DEF EditVideo, state, history, Owns, Moved
<1>7. ASSUME NEW r \in Request, NEW v \in Video, ClearTags(r, v) PROVE LinksResolve'
  BY <1>7, Types, ClearStep DEF Unlink, LinksOf, Worked
<1>8. ASSUME NEW r \in Request, NEW u \in User, NEW v \in Video, NEW S \in SUBSET LiveTags,
             UpdateStarts(r, u, v, S)
      PROVE LinksResolve'
  BY <1>8, Types, UpdateStep DEF state, history, Began
<1>9. ASSUME NEW r \in Request, NEW v \in Video, NEW t \in Tag, LinkTag(r, v, t)
      PROVE LinksResolve'
  BY <1>9, Types, LinkStep DEF Worked
<1>10. ASSUME NEW r \in Request, NEW u \in User, NEW v \in Video, DeleteReads(r, u, v)
      PROVE LinksResolve'
  BY <1>10, Types, DeleteReadsStep DEF state, history, Owns, Began
<1>11. ASSUME NEW r \in Request, DeleteTorrentReads(r) PROVE LinksResolve'
  BY <1>11, Types, DeleteTorrentReadsStep DEF state, history, Began
<1>12. ASSUME NEW r \in Request, ListVideos(r) PROVE LinksResolve'
  BY <1>12, Types, ListStep DEF state, history, Parts, Began
<1>13. ASSUME NEW r \in Request, DropLinks(r) PROVE LinksResolve'
  BY <1>13, Types, DroppedStep DEF DropLinks, Dropping, Unlink, LinksOf, Worked
<1>14. ASSUME NEW r \in Request, DropVideos(r) PROVE LinksResolve'
  BY <1>14, Types, DropVideosStep DEF history, Worked
<1>15. ASSUME NEW r \in Request, DropTorrent(r) PROVE LinksResolve'
  BY <1>15, Types, DroppedStep DEF DropTorrent, Dropping, history, Worked
<1>16. ASSUME NEW r \in Request, DropsDone(r) PROVE LinksResolve'
  BY <1>16, Types, DoneStep DEF state, history, Began, Moved
<1>17. ASSUME NEW r \in Request, NEW t \in Tag, DeleteTag(r, t) PROVE LinksResolve'
  BY <1>17, Types, DeleteTagStep DEF history, Began
<1>18. ASSUME NEW r \in Request, NEW t \in Tag, UnlinkTag(r, t) PROVE LinksResolve'
  BY <1>18, Types, GoesStep DEF UnlinkTag, Ends, Unlink, Tagged, Moved
<1>19. ASSUME NEW r \in Request, RequestBreaks(r) PROVE LinksResolve'
  BY <1>19, Types, GoesStep DEF RequestBreaks, state, Ends, LinksOf, Moved
<1>20. ASSUME NEW t \in Tag, CreateTag(t) PROVE LinksResolve'
  BY <1>20, Types DEF CreateTag, history
<1>21. CASE UNCHANGED vars
  BY <1>21 DEF vars
<1>22. ASSUME NEW r \in Request, NEW v \in Video, NEW t \in Tag, LinkRefused(r, v, t)
      PROVE LinksResolve'
  BY <1>22, Types, RefusedStep DEF state, history, Worked
<1> HIDE DEF LinksResolve
<1> QED
  BY <1>1, <1>2, <1>3, <1>4, <1>5, <1>6, <1>7, <1>8, <1>9, <1>10, <1>11, <1>12, <1>13,
     <1>14, <1>15, <1>16, <1>17, <1>18, <1>19, <1>20, <1>21, <1>22 DEF Next, RequestStep

-----------------------------------------------------------------------------
(***************************************************************************)
(* The selection.                                                          *)
(***************************************************************************)

Deleting(v) == \E r \in Request : req[r].pc = "drop" /\ v \in req[r].videos

Expected(v, t) == <<v, t>> \in links \/ \E r \in Request : Linking(r, v) /\ t \in req[r].left

\* A video is linked by one request at a time, and has or is about to get the tags last
\* selected, and no others; what it has yet to link is not linked.
SelectInv ==
    \A v \in Video \ mixed : Live(v) =>
        /\ \A r, s \in Request : Linking(r, v) /\ Linking(s, v) => s = r
        /\ \A r \in Request : Linking(r, v) =>
              /\ req[r].tags = saved[v]
              /\ \A t \in req[r].left : <<v, t>> \notin links
        /\ Deleting(v) \/ \A t \in Tag : tags[t] = "live" => (t \in saved[v] <=> Expected(v, t))

\* A second ClearTags, and nothing else, can interfere with a selection.
LEMMA SelectStep ==
  ASSUME TypeOK, EditInv, DropInv, TagInv, SelectInv, [Next]_vars PROVE SelectInv'
<1> USE DEF SelectInv, EditInv, TagInv, DropInv, Known, Live, LiveTags, Linking, Deleting,
            Expected, Others
<1>1. ASSUME NEW r \in Request, NEW u \in User, NEW S \in SUBSET LiveTags, CreateReads(r, u, S)
      PROVE SelectInv'
  BY <1>1, Types, CreateReadsStep DEF state, history, Began
<1>2. ASSUME NEW r \in Request, NEW t \in Torrent, MakeTorrent(r, t) PROVE SelectInv'
  BY <1>2, Types, MakeTorrentStep DEF history, Began, Moved
<1>3. ASSUME NEW r \in Request, CheckVideo(r) PROVE SelectInv'
  BY <1>3, Types, GoesStep DEF CheckVideo, state, history, Moved
<1>4. ASSUME NEW r \in Request, ResolveTags(r) PROVE SelectInv'
  BY <1>4, Types, GoesStep DEF ResolveTags, state, Ends, Moved
<1>5. ASSUME NEW r \in Request, NEW v \in Video, StoreVideo(r, v) PROVE SelectInv'
  BY <1>5, Types, StoreStep DEF Began, Moved
<1>6. ASSUME NEW r \in Request, NEW v \in Video, EditVideo(r, v) PROVE SelectInv'
  BY <1>6, Types, GoesStep DEF EditVideo, state, history, Owns, Moved
<1>7. ASSUME NEW r \in Request, NEW v \in Video, ClearTags(r, v) PROVE SelectInv'
  <2>1. /\ req[r].pc = "clear" /\ v \in req[r].videos /\ v \in Video
        /\ Worked(r, IF req[r].tags = {} THEN "idle" ELSE "link", req[r].tags)
        /\ links' = links \ LinksOf({v}) /\ saved' = [saved EXCEPT ![v] = req[r].tags]
        /\ mixed' = IF \E q \in Request : Linking(q, v) THEN mixed \cup {v} ELSE mixed
        /\ UNCHANGED <<videos, tags>>
    BY <1>7, ClearStep DEF Unlink
  <2>2. \A x \in req[r].videos : x = v
    BY <2>1 DEF EditInv
  <2>3. ASSUME NEW x \in Video, x # v
        PROVE  /\ x \in mixed' <=> x \in mixed
               /\ saved'[x] = saved[x] /\ (Live(x)' <=> Live(x)) /\ (Deleting(x)' <=> Deleting(x))
               /\ \A t \in Tag : Expected(x, t)' <=> Expected(x, t)
               /\ \A s \in Request : /\ Linking(s, x)' <=> Linking(s, x)
                                     /\ Linking(s, x) =>
                                          /\ req'[s].tags = req[s].tags
                                          /\ req'[s].left = req[s].left
               /\ \A t : <<x, t>> \in links' <=> <<x, t>> \in links
    BY Types, <2>1, <2>2, <2>3 DEF LinksOf, Worked, Others, Linking, Live, Deleting, Expected
  <2>4. ASSUME v \notin mixed'
        PROVE  /\ saved'[v] = req[r].tags
               /\ \A s \in Request : Linking(s, v)' => s = r /\ req'[s].tags = req[r].tags
               /\ \A t : <<v, t>> \notin links'
               /\ \A t \in Tag : t \in req[r].tags <=> Expected(v, t)'
    BY Types, <2>1, <2>4 DEF LinksOf, Worked, Others, Linking, Expected
  <2>5. SUFFICES ASSUME NEW x \in Video \ mixed', Live(x)'
        PROVE  /\ \A p, s \in Request : Linking(p, x)' /\ Linking(s, x)' => s = p
               /\ \A p \in Request : Linking(p, x)' =>
                     /\ req'[p].tags = saved'[x]
                     /\ \A t \in req'[p].left : <<x, t>> \notin links'
               /\ \/ Deleting(x)'
                  \/ \A t \in Tag : tags'[t] = "live" => (t \in saved'[x] <=> Expected(x, t)')
    BY DEF SelectInv
  <2>6. CASE x = v
    BY <2>4, <2>5, <2>6
  <2>7. CASE x # v
    <3>1. x \in Video /\ x \notin mixed' /\ Live(x)' /\ tags' = tags
      BY <2>1, <2>5
    <3> HIDE DEF Linking, Deleting, Expected, Live, SelectInv
    <3>2. /\ x \in Video \ mixed /\ Live(x) /\ saved'[x] = saved[x]
          /\ Deleting(x)' <=> Deleting(x)
          /\ \A t \in Tag : Expected(x, t)' <=> Expected(x, t)
          /\ \A s \in Request : /\ Linking(s, x)' <=> Linking(s, x)
                                /\ Linking(s, x) => /\ req'[s].tags = req[s].tags
                                                     /\ req'[s].left = req[s].left
          /\ \A t : <<x, t>> \in links' <=> <<x, t>> \in links
      BY <2>3, <2>7, <3>1
    <3> QED BY <3>1, <3>2 DEF SelectInv
  <2> QED BY <2>6, <2>7
<1>8. ASSUME NEW r \in Request, NEW u \in User, NEW v \in Video, NEW S \in SUBSET LiveTags,
             UpdateStarts(r, u, v, S)
      PROVE SelectInv'
  BY <1>8, Types, UpdateStep DEF state, history, Began
<1>9. ASSUME NEW r \in Request, NEW v \in Video, NEW t \in Tag, LinkTag(r, v, t)
      PROVE SelectInv'
  BY <1>9, Types, LinkStep DEF Worked
<1>10. ASSUME NEW r \in Request, NEW u \in User, NEW v \in Video, DeleteReads(r, u, v)
      PROVE SelectInv'
  BY <1>10, Types, DeleteReadsStep DEF state, history, Owns, Began
<1>11. ASSUME NEW r \in Request, DeleteTorrentReads(r) PROVE SelectInv'
  BY <1>11, Types, DeleteTorrentReadsStep DEF state, history, Began
<1>12. ASSUME NEW r \in Request, ListVideos(r) PROVE SelectInv'
  BY <1>12, Types, ListStep DEF state, history, Parts, Began
<1>13. ASSUME NEW r \in Request, DropLinks(r) PROVE SelectInv'
  BY <1>13, Types, DroppedStep DEF DropLinks, Dropping, Unlink, LinksOf, Worked
<1>14. ASSUME NEW r \in Request, DropVideos(r) PROVE SelectInv'
  BY <1>14, Types, DropVideosStep DEF history, Worked
<1>15. ASSUME NEW r \in Request, DropTorrent(r) PROVE SelectInv'
  BY <1>15, Types, DroppedStep DEF DropTorrent, Dropping, history, Worked
<1>16. ASSUME NEW r \in Request, DropsDone(r) PROVE SelectInv'
  BY <1>16, Types, DoneStep DEF state, history, Began, Moved
<1>17. ASSUME NEW r \in Request, NEW t \in Tag, DeleteTag(r, t) PROVE SelectInv'
  BY <1>17, Types, DeleteTagStep DEF history, Began
<1>18. ASSUME NEW r \in Request, NEW t \in Tag, UnlinkTag(r, t) PROVE SelectInv'
  BY <1>18, Types, GoesStep DEF UnlinkTag, Ends, Unlink, Tagged, Moved
<1>19. ASSUME NEW r \in Request, RequestBreaks(r) PROVE SelectInv'
  BY <1>19, Types, GoesStep DEF RequestBreaks, state, Ends, LinksOf, Moved
<1>20. ASSUME NEW t \in Tag, CreateTag(t) PROVE SelectInv'
  BY <1>20, Types DEF CreateTag, history
<1>21. CASE UNCHANGED vars
  BY <1>21 DEF vars
<1>22. ASSUME NEW r \in Request, NEW v \in Video, NEW t \in Tag, LinkRefused(r, v, t)
      PROVE SelectInv'
  <2>1. /\ Linking(r, v) /\ t \in req[r].left /\ <<v, t>> \in links
        /\ \A x \in req[r].videos : x = v
    BY <1>22 DEF LinkRefused, Answered
  <2>2. v \in mixed \/ ~Live(v)
    BY <2>1
  <2>3. ASSUME NEW x \in Video, x # v
        PROVE  /\ Deleting(x)' <=> Deleting(x)
               /\ \A s \in Request : /\ Linking(s, x)' <=> Linking(s, x)
                                     /\ Linking(s, x) => /\ req'[s].tags = req[s].tags
                                                          /\ req'[s].left = req[s].left
               /\ \A g \in Tag : Expected(x, g)' <=> Expected(x, g)
    BY <1>22, <2>1, <2>3, RefusedStep DEF state, Worked
  <2>4. UNCHANGED <<links, videos, tags, saved, mixed>>
    BY <1>22 DEF LinkRefused, state, history
  <2>5. \A x \in Video \ mixed' : Live(x)' => x # v /\ Live(x) /\ x \notin mixed
    BY <2>2, <2>4
  <2> HIDE DEF Linking, Deleting, Expected, Live
  <2> QED BY <2>3, <2>4, <2>5
<1> HIDE DEF SelectInv
<1> QED
  BY <1>1, <1>2, <1>3, <1>4, <1>5, <1>6, <1>7, <1>8, <1>9, <1>10, <1>11, <1>12, <1>13,
     <1>14, <1>15, <1>16, <1>17, <1>18, <1>19, <1>20, <1>21, <1>22 DEF Next, RequestStep

-----------------------------------------------------------------------------
(***************************************************************************)
(* The invariant and the theorems.                                         *)
(***************************************************************************)

IInv ==
    /\ TypeOK
    /\ SpentInv /\ CreateInv /\ EditInv /\ DropInv /\ TagInv
    /\ DecidedInv /\ VideoHasTorrent /\ NoOrphanTorrent
    /\ UnlinkedInv /\ LinksResolve /\ SelectInv

\* Nothing is selected, stored or under way at first.
LEMMA InitInv == Init => IInv
<1> SUFFICES ASSUME Init PROVE IInv
  OBVIOUS
<1>1. TypeOK
  BY InitType
<1>2. /\ \A v \in Video : videos[v].state = "unused" /\ saved[v] = {}
      /\ \A r \in Request : req[r].pc = "idle"
  BY DEF Init
<1>3. torrent = NoTorrent /\ links = {}
  BY DEF Init
<1> QED
  BY <1>1, <1>2, <1>3
  DEF IInv, SpentInv, CreateInv, EditInv, DropInv, TagInv, DecidedInv, VideoHasTorrent,
      NoOrphanTorrent, UnlinkedInv, LinksResolve, SelectInv, Known, Live

LEMMA NextInv == IInv /\ [Next]_vars => IInv'
<1> SUFFICES ASSUME IInv, [Next]_vars PROVE IInv'
  OBVIOUS
<1> USE DEF IInv
<1>1. TypeOK'
  BY NextType
<1>2. SpentInv' /\ CreateInv' /\ EditInv' /\ DropInv' /\ TagInv'
  BY SpentStep, CreateStep, EditStep, DropStep, TagStep
<1>3. DecidedInv' /\ VideoHasTorrent' /\ NoOrphanTorrent'
  BY DecidedStep, HasTorrentStep, OrphanStep
<1>4. UnlinkedInv' /\ LinksResolve' /\ SelectInv'
  BY UnlinkedStep, LinksStep, SelectStep
<1> QED BY <1>1, <1>2, <1>3, <1>4

\* The invariant that all the following rest on.
THEOREM Inductive == Spec => []IInv
BY InitInv, NextInv, PTL DEF Spec

\* A video has its torrent, but for those an overlapping or broken deletion left.
THEOREM TorrentExists == Spec => []VideoHasTorrent
<1>1. IInv => VideoHasTorrent
  BY DEF IInv
<1> QED BY <1>1, Inductive, PTL

\* A torrent without videos is on its way out, whatever deletions overlap.
THEOREM OrphansGo == Spec => []NoOrphanTorrent
<1>1. IInv => NoOrphanTorrent
  BY DEF IInv
<1> QED BY <1>1, Inductive, PTL

\* Links join a video and a tag that exist, but for those stored after a deletion.
THEOREM LinksAreSound == Spec => []LinksResolve
<1>1. IInv => LinksResolve
  BY DEF IInv
<1> QED BY <1>1, Inductive, PTL

\* What is linked is what was selected last, once edits that did not overlap are done.
THEOREM SelectionStands == Spec => []TagsAreTheSelection
<1>1. IInv => TagsAreTheSelection
  <2>0. IInv => \A v \in Video \ mixed : Live(v) =>
          \A r \in Request : Linking(r, v) => \A t \in req[r].left : <<v, t>> \notin links
    BY DEF IInv, SelectInv
  <2> SUFFICES ASSUME IInv, NEW v \in Video \ mixed, Live(v),
                      \A r \in Request : ~Linking(r, v), ~Deleting(v)
               PROVE  {l[2] : l \in LinksOf({v})} \cap LiveTags = saved[v] \cap LiveTags
    BY <2>0 DEF TagsAreTheSelection, Deleting
  <2>1. \A t \in Tag : tags[t] = "live" => (t \in saved[v] <=> <<v, t>> \in links)
    BY DEF IInv, SelectInv, Expected
  <2>2. \A l \in links : l \in Video \X Tag
    BY DEF IInv, TypeOK
  <2>3. \A t \in Tag : t \in {l[2] : l \in LinksOf({v})} <=> <<v, t>> \in links
    BY <2>2 DEF LinksOf
  <2> QED BY <2>1, <2>3 DEF LiveTags
<1> QED BY <1>1, Inductive, PTL

\* No step links a tag to another user's video.
THEOREM UsersIsolated == Spec => OnlyOwnersLink
<1> DEFINE Isolated ==
      \A l \in links' \ links : \E r \in Request :
        Linking(r, l[1]) /\ req[r].user = videos[l[1]].user
<1>1. ASSUME IInv, [Next]_vars PROVE Isolated
  <2>1. ASSUME NEW r \in Request, NEW v \in Video, NEW t \in Tag, LinkTag(r, v, t)
        PROVE  Isolated
    <3>1. req[r].pc = "link" /\ v \in req[r].videos /\ links' = links \cup {<<v, t>>}
      BY <2>1 DEF LinkTag, Answered
    <3>2. videos[v].user = req[r].user
      BY <1>1, <3>1 DEF IInv, EditInv
    <3>3. \A l \in links' \ links : l[1] = v
      BY <3>1
    <3> QED BY <3>1, <3>2, <3>3 DEF Linking
  <2>2. CASE links' \subseteq links
    BY <2>2
  <2>3. ASSUME NEW r \in Request, RequestStep(r)
        PROVE  links' \subseteq links \/ \E v \in Video, t \in Tag : LinkTag(r, v, t)
    <3>1. CASE \E u \in User, S \in SUBSET LiveTags : CreateReads(r, u, S)
      BY <3>1 DEF CreateReads, state
    <3>2. CASE \E t \in Torrent : MakeTorrent(r, t)
      BY <3>2 DEF MakeTorrent
    <3>3. CASE CheckVideo(r) \/ ResolveTags(r)
      BY <3>3 DEF CheckVideo, ResolveTags, state
    <3>4. CASE \E v \in Video : StoreVideo(r, v) \/ EditVideo(r, v)
      BY <3>4 DEF StoreVideo, EditVideo, state
    <3>5. CASE \E v \in Video : ClearTags(r, v)
      BY <3>5 DEF ClearTags, Unlink
    <3>6. CASE \E u \in User, v \in Video, S \in SUBSET LiveTags : UpdateStarts(r, u, v, S)
      BY <3>6 DEF UpdateStarts, state
    <3>7. CASE (\E u \in User, v \in Video : DeleteReads(r, u, v)) \/ DeleteTorrentReads(r)
      BY <3>7 DEF DeleteReads, DeleteTorrentReads, state
    <3>8. CASE ListVideos(r)
      BY <3>8 DEF ListVideos, state
    <3>9. CASE DropLinks(r)
      BY <3>9 DEF DropLinks, Unlink
    <3>10. CASE DropVideos(r) \/ DropTorrent(r) \/ DropsDone(r)
      BY <3>10 DEF DropVideos, DropTorrent, DropsDone, state
    <3>11. CASE \E t \in Tag : DeleteTag(r, t)
      BY <3>11 DEF DeleteTag
    <3>12. CASE \E t \in Tag : UnlinkTag(r, t)
      BY <3>12 DEF UnlinkTag, Unlink
    <3>13. CASE RequestBreaks(r)
      BY <3>13 DEF RequestBreaks, state
    <3>14. CASE \E v \in Video, t \in Tag : LinkRefused(r, v, t)
      BY <3>14 DEF LinkRefused, state
    <3> QED
      BY <2>3, <3>1, <3>2, <3>3, <3>4, <3>5, <3>6, <3>7, <3>8, <3>9, <3>10, <3>11, <3>12, <3>13,
         <3>14 DEF RequestStep
  <2>4. ASSUME NEW t \in Tag, CreateTag(t) PROVE links' \subseteq links
    BY <2>4 DEF CreateTag
  <2>5. UNCHANGED vars => links' \subseteq links
    BY DEF vars
  <2> HIDE DEF Isolated
  <2> QED BY <1>1, <2>1, <2>2, <2>3, <2>4, <2>5 DEF Next
<1>2. IInv /\ [Next]_vars => [Isolated]_vars
  BY <1>1
<1> QED BY <1>2, Inductive, PTL DEF Spec, OnlyOwnersLink
=============================================================================
