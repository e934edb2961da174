--------------------------- MODULE MCActorCatalog ---------------------------
(***************************************************************************)
(* ActorCatalog on small instances.                                        *)
(***************************************************************************)
EXTENDS ActorCatalog, TLC

MCNext ==
    \/ \E t \in Torrent : LoadActors(t)
    \/ \E a \in Actor : UploadProfile(a)
    \/ \E a \in Actor : UpdateEvidence(a)
    \/ InsertActor
    \/ InsertRaises
    \/ UploadImprovement
    \/ SwapProfile
    \/ CleanProfile
    \/ \E discarded \in BOOLEAN : Assign(discarded)
    \/ WorkerBreaks
    \/ \E r \in Request, a \in Actor : CreateUploads(r, a)
    \/ \E r \in Request, a \in Actor : CreateActor(r, a)
    \/ \E r \in Request, a \in Actor : CreateConflicts(r, a)
    \/ \E r \in Request, a \in Actor : UpdateReads(r, a)
    \/ \E r \in Request, a \in Actor : UpdateUploads(r, a)
    \/ \E r \in Request, a \in Actor, conflict \in BOOLEAN : UpdateActor(r, a, conflict)
    \/ \E r \in Request, a \in Actor : DeleteReads(r, a)
    \/ \E r \in Request, a \in Actor : DeleteRecord(r, a)
    \/ \E r \in Request, a \in Actor : DeleteImage(r, a)
    \/ \E r \in Request, a \in Actor, t \in Torrent : PullFrom(r, a, t)
    \/ \E r \in Request : RecordGone(r)
    \/ \E r \in Request, t \in Torrent : ResolveActors(r, t)
    \/ \E r \in Request : AttributeActors(r)
    \/ \E r \in Request : RequestBreaks(r)

MCSpec == Init /\ [][MCNext]_vars

\* What the worker had in hand is never read again once it is idle.
View == <<actors, system, user, blobs, uploads, IF w.pc = "idle" THEN {} ELSE {w}, req, disturbed>>

Requests == Permutations(Request)
=============================================================================
