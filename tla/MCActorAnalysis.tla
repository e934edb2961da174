-------------------------- MODULE MCActorAnalysis --------------------------
(***************************************************************************)
(* ActorAnalysis on small instances.  The administrator's resets of t1 and *)
(* the worker's exits are bounded by budget, the processing writes of t1   *)
(* by MaxUpdates and those of t2, which competes with it, by Updates2.     *)
(***************************************************************************)
EXTENDS ActorAnalysis, TLC

CONSTANTS t1, t2, Disturbances, Updates2

VARIABLE budget

mcvars == <<vars, budget>>

Spend == budget > 0 /\ budget' = budget - 1

Free == UNCHANGED budget

MayMove(t) == t = t1 \/ rec[t].updated < Updates2

MCInit == Init /\ budget = Disturbances

MCNext ==
    \/ RepairStaleProcessing /\ Free
    \/ \E t \in Torrent : Claim(t) /\ Free
    \/ NextPlan /\ Free
    \/ AnalyseFrames /\ Free
    \/ StoreAssignment /\ Free
    \/ Fail /\ Free
    \/ WorkerExits /\ Spend
    \/ \E r \in Recipe : WorkerStarts(r) /\ Free
    \/ \E t \in Torrent : LeaseLapses(t) /\ Free
    \/ \E t \in Torrent : MayMove(t) /\ LeavesComplete(t) /\ Free
    \/ \E t \in Torrent, frames \in BOOLEAN, stamp \in Stamp :
          (t = t1 \/ frames) /\ MayMove(t) /\ ReplaceFrames(t, frames, stamp) /\ Free
    \/ \E t \in Torrent, stamp \in Stamp : MayMove(t) /\ KeepFrames(t, stamp) /\ Free
    \/ \E t \in Torrent : MayMove(t) /\ Completes(t) /\ Free
    \/ ResetActorAnalysis(t1) /\ Spend

MCSpec == MCInit /\ [][MCNext]_mcvars

MCFairSpec == MCSpec /\ Fairness
=============================================================================
