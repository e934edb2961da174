------------------------ MODULE MCTorrentScheduler ------------------------
(***************************************************************************)
(* TorrentScheduler on small instances.  Disturbances (web requests for t1,*)
(* a lease of t1 that lapses under its session, a blob that cannot be      *)
(* deleted, a stopped or killed worker, an upgrade of it) are bounded by   *)
(* budget; what the worker and the clock do by themselves, and what a      *)
(* disturbance leads to, is not.                                           *)
(*                                                                         *)
(* A run starts either with both torrents in the queue (Wide disturbances) *)
(* or with t2 out of it (Narrow disturbances).                             *)
(***************************************************************************)
EXTENDS TorrentScheduler, TLC

CONSTANTS
    t1, t2,
    Wide,       \* disturbances when both torrents are queued
    Narrow,     \* disturbances when t1 is alone
    Kinds2      \* what the attempts of t2 may end in

ByName == {<<t1, t2>>}

VARIABLE budget

mcvars == <<vars, budget>>

Spend == budget > 0 /\ budget' = budget - 1

Free == UNCHANGED budget

MCInit ==
    /\ Init
    /\ doc[t1].state = "queued"
    /\ budget = IF \A t \in Torrent : doc[t].state = "queued" THEN Wide ELSE Narrow

MCNext ==
    \/ AdminQueuesAgain(t1) /\ Spend
    \/ AdminCancels(t1) /\ Spend
    \/ EnsureReads(t1) /\ Spend
    \/ EnsureWrites(t1) /\ Free
    \/ HasSession(t1) /\ LeaseLapses(t1) /\ Spend
    \/ \E t \in Torrent : ~HasSession(t) /\ LeaseLapses(t) /\ Free
    \/ \E t \in Torrent : CooldownElapses(t) /\ Free
    \/ WorkerStops /\ Spend
    \/ worker = "up" /\ WorkerExits /\ Spend
    \/ worker = "stopping" /\ WorkerExits /\ Free
    \/ WorkerStarts(FALSE) /\ Free
    \/ WorkerStarts(TRUE) /\ Spend
    \/ RepairStaleRunning /\ Free
    \/ QueueStaleArtifacts /\ Free
    \/ \E s \in Slot : Claim(s) /\ Free
    \/ \E s \in Slot : MetadataResolved(s) /\ Free
    \/ \E s \in Slot : MetadataInvalid(s) /\ Free
    \/ \E s \in Slot : MetadataUnavailable(s) /\ Free
    \/ \E s \in Slot : StartAttempt(s) /\ Free
    \/ \E s \in Slot : StopSession(s) /\ Free
    \/ \E s \in Slot : AttemptEnds(s) /\ Free
                      /\ (sess[s].torrent = t2 => sess'[s].kind \in Kinds2)
    \/ \E s \in Slot : AttemptWaits(s) /\ Free
    \/ \E s \in Slot : WaitRaises(s) /\ Free
    \/ \E s \in Slot : AttemptRaises(s) /\ Free
    \/ \E s \in Slot : CleanupRaises(s) /\ Spend
    \/ \E s \in Slot : Settle(s) /\ Free
    \/ \E s \in Slot : Continue(s) /\ Free
    \/ \E s \in Slot : GiveWay(s) /\ Free
    \/ \E s \in Slot : Yield(s) /\ Free

MCSpec == MCInit /\ [][MCNext]_mcvars

MCFairSpec == MCSpec /\ Fairness

Slots == Permutations(Slot)
=============================================================================
