--------------------------- MODULE MCVideoCatalog ---------------------------
(***************************************************************************)
(* VideoCatalog for TLC.  Ids are interchangeable, and so are the slots of *)
(* concurrent requests.                                                    *)
(***************************************************************************)
EXTENDS VideoCatalog, TLC

Symmetry == Permutations(Request) \cup Permutations(Video)
            \cup Permutations(Torrent) \cup Permutations(Tag) \cup Permutations(User)

Alive == {v \in Video : Live(v)}

\* A request breaks off before a video was deleted or anything else went wrong.
MCNext ==
    /\ Next
    /\ \/ /\ torrent \notin forsaken /\ Alive \cap (loose \cup mixed) = {} /\ stale = {}
          /\ \A v \in Video : videos[v].state # "deleted"
       \/ \A r \in Request : ~RequestBreaks(r)

MCSpec == Init /\ [][MCNext]_vars

\* What a request needs no more, and what history says of documents that are
\* gone for good, is never read again.
InHand(q) ==
    CASE q.pc = "idle" -> <<>>
      [] q.pc \in {"clear", "link"} -> <<q.pc, q.user, q.videos, q.tags, q.left>>
      [] q.pc \in {"drop", "list"} -> <<q.pc, q.op, q.torrent, q.videos, q.left>>
      [] q.pc = "untag" -> <<q.pc, q.tags>>
      [] OTHER -> <<q.pc, q.op, q.user, q.torrent, q.videos, q.tags>>

View ==
    <<torrent, spent, tags, links,
      [v \in Video |-> IF v \in Alive THEN videos[v] ELSE videos[v].state],
      [r \in Request |-> InHand(req[r])],
      [v \in Alive |-> saved[v] \cap LiveTags], loose \cap Alive, mixed \cap Alive,
      forsaken \cap {torrent}, stale>>
=============================================================================
