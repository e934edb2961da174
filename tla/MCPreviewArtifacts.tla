------------------------ MODULE MCPreviewArtifacts ------------------------
(***************************************************************************)
(* PreviewArtifacts on small instances.  Once two writers of the same keys *)
(* have been alive at once nothing is promised any more, and nothing more  *)
(* is explored.                                                            *)
(***************************************************************************)
EXTENDS PreviewArtifacts, TLC

MCNext ==
    /\ ~overlapped
    /\ \/ \E s \in Slot : Claim(s)
       \/ \E s \in Slot : PutRaw(s)
       \/ \E s \in Slot : StoreRaw(s)
       \/ \E s \in Slot : AttemptEnds(s)
       \/ \E s \in Slot : PutFrame(s)
       \/ \E s \in Slot : StoreResult(s)
       \/ \E s \in Slot : DeleteObsolete(s)
       \/ \E s \in Slot : CleanupDone(s)
       \/ \E s \in Slot : Continue(s)
       \/ \E s \in Slot : Release(s)
       \/ WorkerDies
       \/ Repair
       \/ QueueAgain
       \/ Cancel
       \/ Add
       \/ \E d \in Request : DeletionReads(d)
       \/ \E d \in Request : DeleteRecord(d)
       \/ \E d \in Request : DeleteBlob(d)
       \/ \E d \in Request : DeletionEnds(d)
       \/ \E d \in Request : DeletionBreaks(d)

MCSpec == Init /\ [][MCNext]_vars

Actors == Permutations(Slot) \cup Permutations(Request)
=============================================================================
