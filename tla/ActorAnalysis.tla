--------------------------- MODULE ActorAnalysis ---------------------------
(***************************************************************************)
(* The actor analysis queue: the actorAnalysis* fields of the torrent      *)
(* records, the one sequential worker that claims them (actor/worker.py),  *)
(* and what moves a torrent under it: the preview scheduler                *)
(* (preview_pipeline.py) and the administrator (videos.ts).                *)
(*                                                                         *)
(* A step is one MongoDB command, or the analysis of the frames.  Of the   *)
(* preview scheduler only its writes to the fields used here are modelled  *)
(* (TorrentScheduler has their order); what the analysis does to the       *)
(* actors is left out.  processingUpdatedAt is a counter of the processing *)
(* writes, and a set of stored frames is named by the write that stored    *)
(* it.  An operator named ..._Fault is a seeded fault and not part of the  *)
(* model.                                                                  *)
(***************************************************************************)
EXTENDS Naturals

CONSTANTS
    Torrent,
    NoTorrent,      \* the torrent of an idle worker
    Recipe,         \* what _build_fingerprint_prefix digests
    Stamp,          \* previewDiagnostics.artifactFingerprint
    NoFingerprint,
    MaxAttempts,    \* actor analysis max_attempts
    MaxUpdates      \* bound: the processing writes to a torrent

ASSUME AnalysisAssumption ==
    /\ NoTorrent \notin Torrent
    /\ NoFingerprint \notin Recipe \X Stamp
    /\ MaxAttempts \in Nat \ {0}
    /\ MaxUpdates \in Nat

VARIABLES
    rec,        \* the torrent records
    w,          \* the worker, with the torrent it claimed as it was then
    recipe,     \* the recipe of the running worker
    intact      \* history: nobody has moved the claimed torrent since

vars == <<rec, w, recipe, intact>>

Mixed == MaxUpdates + 1     \* frames of more than one attempt

(***************************************************************************)
(* fp is the stored fingerprint.  shown is what systemActorIds were        *)
(* computed from: the frames, and the recipe.                              *)
(***************************************************************************)
Record == [complete : BOOLEAN,              \* processingState = "complete"
           updated  : 0 .. MaxUpdates,      \* processingUpdatedAt
           frames   : BOOLEAN,              \* previewFrames is not empty
           art      : 0 .. MaxUpdates,      \* the stored frames
           stamp    : Stamp,
           status   : {"pending", "processing", "succeeded", "failed"},
           attempts : 0 .. MaxAttempts,
           lease    : {"none", "live", "lapsed"},
           fp       : (Recipe \X Stamp) \cup {NoFingerprint},
           shown    : (0 .. Mixed) \X Recipe]

Plans == <<"pending", "succeeded", "failed">>

Worker == [pc      : {"down", "repair", "claim", "analyse", "store"},
           plan    : 1 .. 3,
           torrent : Torrent \cup {NoTorrent},
           updated : 0 .. MaxUpdates,
           stamp   : Stamp,
           images  : 0 .. Mixed]

TypeOK ==
    /\ rec \in [Torrent -> Record]
    /\ w \in Worker
    /\ recipe \in Recipe
    /\ intact \in BOOLEAN

\* A torrent as createVideo inserts it, and a worker that has just started.
NewRecord(stamp, r) ==
    [complete |-> FALSE, updated |-> 0, frames |-> FALSE, art |-> 0, stamp |-> stamp,
     status |-> "pending", attempts |-> 0, lease |-> "none", fp |-> NoFingerprint,
     shown |-> <<0, r>>]

Starting(stamp) == [pc |-> "repair", plan |-> 1, torrent |-> NoTorrent, updated |-> 0,
                    stamp |-> stamp, images |-> 0]

Init ==
    \E stamp \in Stamp, r \in Recipe :
        /\ rec = [t \in Torrent |-> NewRecord(stamp, r)]
        /\ w = Starting(stamp)
        /\ recipe = r
        /\ intact = FALSE

Holds(t) == w.torrent = t

\* Somebody writes to t: the worker's claim of it is no longer what it was.
Moves(t) == intact' = (intact /\ ~Holds(t))
-----------------------------------------------------------------------------
(***************************************************************************)
(* The worker.                                                             *)
(***************************************************************************)

Repaired(d) == [d EXCEPT !.status = "pending", !.lease = "none"]

LeaseLost_Fault(d) == d.status = "processing" /\ d.lease = "none"

LeaseLost(d) == d.status = "processing" /\ d.lease # "live"

RepairStaleProcessing ==
    /\ w.pc = "repair"
    /\ rec' = [t \in Torrent |-> IF LeaseLost(rec[t]) THEN Repaired(rec[t]) ELSE rec[t]]
    /\ w' = [w EXCEPT !.pc = "claim", !.plan = 1]
    /\ UNCHANGED <<recipe, intact>>

Eligible(d) == d.complete /\ d.frames

Fingerprint(stamp) == <<recipe, stamp>>

AttemptLeft_Fault(d) == d.attempts <= MaxAttempts

AttemptLeft(d) == d.attempts < MaxAttempts

\* A succeeded torrent is claimed when its fingerprint is stale, the others
\* while they have attempts left.
Matches(d, plan) ==
    /\ Eligible(d)
    /\ d.lease # "live"
    /\ d.status = Plans[plan]
    /\ IF d.status = "succeeded" THEN d.fp # Fingerprint(d.stamp) ELSE AttemptLeft(d)

\* The sort by actorAnalysisUpdatedAt is abstracted away: any match.
Claim(t) ==
    /\ w.pc = "claim"
    /\ Matches(rec[t], w.plan)
    /\ rec' = [rec EXCEPT ![t].status = "processing",
                          ![t].lease = "live",
                          ![t].attempts = IF rec[t].status = "succeeded" THEN 1 ELSE @ + 1]
    /\ w' = [w EXCEPT !.pc = "analyse", !.torrent = t, !.updated = rec[t].updated,
                      !.stamp = rec[t].stamp]
    /\ intact' = TRUE
    /\ UNCHANGED recipe

\* No torrent matches the plan: the next one, or the poll interval.
NextPlan ==
    /\ w.pc = "claim"
    /\ \A t \in Torrent : ~Matches(rec[t], w.plan)
    /\ w' = IF w.plan < 3 THEN [w EXCEPT !.plan = @ + 1] ELSE [w EXCEPT !.pc = "repair"]
    /\ UNCHANGED <<rec, recipe, intact>>

(***************************************************************************)
(* _analyze_frames reads the blobs the claimed record named, in a thread.  *)
(* Their keys do not change from attempt to attempt: once the torrent has  *)
(* been queued again they may hold other frames.                           *)
(***************************************************************************)
AnalyseFrames ==
    /\ w.pc = "analyse"
    /\ \E images \in {rec[w.torrent].art, Mixed} :
        /\ rec[w.torrent].complete => images = rec[w.torrent].art
        /\ w' = [w EXCEPT !.pc = "store", !.images = images]
    /\ UNCHANGED <<rec, recipe, intact>>

Resumed == [w EXCEPT !.pc = "repair", !.torrent = NoTorrent]

Current_Fault(d) == d.status = "processing"

\* The filter of _process.
Current(d) == d.status = "processing" /\ d.updated = w.updated

\* The update at the end of _process; a stale result is discarded.
StoreAssignment ==
    /\ w.pc = "store"
    /\ rec' = [rec EXCEPT ![w.torrent] =
                 IF Current(@)
                 THEN [@ EXCEPT !.status = "succeeded", !.lease = "none",
                                !.fp = Fingerprint(w.stamp),
                                !.shown = <<w.images, recipe>>]
                 ELSE @]
    /\ w' = Resumed
    /\ UNCHANGED <<recipe, intact>>

\* _fail, whatever raised.
Fail ==
    /\ w.pc \in {"analyse", "store"}
    /\ rec' = [rec EXCEPT ![w.torrent] =
                 IF @.status = "processing"
                 THEN [@ EXCEPT !.status = "failed", !.lease = "none"]
                 ELSE @]
    /\ w' = Resumed
    /\ UNCHANGED <<recipe, intact>>

WorkerExits ==
    /\ w.pc # "down"
    /\ w' = [w EXCEPT !.pc = "down", !.torrent = NoTorrent]
    /\ UNCHANGED <<rec, recipe, intact>>

\* Possibly a new release, with another recipe.
WorkerStarts(r) ==
    /\ w.pc = "down"
    /\ w' = [w EXCEPT !.pc = "repair"]
    /\ recipe' = r
    /\ UNCHANGED <<rec, intact>>

LeaseLapses(t) ==
    /\ rec[t].lease = "live"
    /\ rec' = [rec EXCEPT ![t].lease = "lapsed"]
    /\ UNCHANGED <<w, recipe, intact>>
-----------------------------------------------------------------------------
(***************************************************************************)
(* The preview scheduler and the administrator.                            *)
(***************************************************************************)

Touched(d) == [d EXCEPT !.updated = @ + 1]

\* Queued again, cancelled, or its recipe is out of date.
LeavesComplete(t) ==
    /\ rec[t].updated < MaxUpdates
    /\ rec' = [rec EXCEPT ![t] = [Touched(@) EXCEPT !.complete = FALSE]]
    /\ Moves(t)
    /\ UNCHANGED <<w, recipe>>

Reset_Fault(d) == [d EXCEPT !.attempts = 0, !.lease = "none"]

Reset(d) == [d EXCEPT !.status = "pending", !.attempts = 0, !.lease = "none"]

\* complete() replaces the frames, by none after a failure ...
ReplaceFrames(t, frames, stamp) ==
    /\ ~rec[t].complete
    /\ rec[t].updated < MaxUpdates
    /\ rec' = [rec EXCEPT ![t] =
                 [Reset(Touched(@)) EXCEPT !.frames = frames, !.stamp = stamp,
                                           !.art = rec[t].updated + 1]]
    /\ Moves(t)
    /\ UNCHANGED <<w, recipe>>

\* ... or keeps them, and stamps them all the same.
KeepFrames(t, stamp) ==
    /\ ~rec[t].complete
    /\ rec[t].updated < MaxUpdates
    /\ rec' = [rec EXCEPT ![t] = [Touched(@) EXCEPT !.stamp = stamp]]
    /\ Moves(t)
    /\ UNCHANGED <<w, recipe>>

\* _finish
Completes(t) ==
    /\ ~rec[t].complete
    /\ rec[t].updated < MaxUpdates
    /\ rec' = [rec EXCEPT ![t] = [Touched(@) EXCEPT !.complete = TRUE]]
    /\ Moves(t)
    /\ UNCHANGED <<w, recipe>>

ResetActorAnalysis(t) ==
    /\ rec' = [rec EXCEPT ![t] = [Reset(@) EXCEPT !.fp = NoFingerprint]]
    /\ Moves(t)
    /\ UNCHANGED <<w, recipe>>
-----------------------------------------------------------------------------
WorkerStep ==
    \/ RepairStaleProcessing
    \/ \E t \in Torrent : Claim(t)
    \/ NextPlan
    \/ AnalyseFrames
    \/ StoreAssignment
    \/ Fail

PreviewStep(t) ==
    \/ LeavesComplete(t)
    \/ \E frames \in BOOLEAN, stamp \in Stamp : ReplaceFrames(t, frames, stamp)
    \/ \E stamp \in Stamp : KeepFrames(t, stamp)
    \/ Completes(t)

Next ==
    \/ WorkerStep
    \/ WorkerExits
    \/ \E r \in Recipe : WorkerStarts(r)
    \/ \E t \in Torrent : LeaseLapses(t) \/ PreviewStep(t) \/ ResetActorAnalysis(t)

Spec == Init /\ [][Next]_vars
-----------------------------------------------------------------------------
(***************************************************************************)
(* Properties.                                                             *)
(***************************************************************************)

\* The actors of a succeeded torrent were found on the frames it shows, never
\* on those of an earlier preview nor on blobs that a preview session was
\* overwriting (the processingUpdatedAt filter of _process, and the reset by
\* complete(), are two halves of this).
AssignedFromShownFrames ==
    \A t \in Torrent :
        rec[t].status = "succeeded" => rec[t].shown[1] = rec[t].art

\* ADR 001: "Preview replacement, lease repair, or an admin reset invalidates
\* stale in-flight completion": no result is stored for a torrent that anybody
\* has written to since its claim, however often it was reset or claimed since.
StaleResultsDiscarded ==
    [][\A t \in Torrent :
          rec[t].status # "succeeded" /\ rec'[t].status = "succeeded" => intact]_vars

\* What the two properties need to be inductive: a claimed torrent that has had
\* no processing write since is complete and the analysed images are its frames;
\* if it is still processing nobody has written to it at all.
ClaimStands ==
    w.pc \in {"analyse", "store"} =>
        LET d == rec[w.torrent] IN
        /\ w.torrent \in Torrent
        /\ w.updated <= d.updated
        /\ w.updated = d.updated =>
              /\ d.complete
              /\ w.pc = "store" => w.images = d.art
              /\ d.status = "processing" => intact

IInv ==
    /\ TypeOK
    /\ w.pc \in {"down", "repair", "claim"} => w.torrent = NoTorrent
    /\ ClaimStands
    /\ AssignedFromShownFrames

(***************************************************************************)
(* Liveness: the worker polls and is restarted, time passes; the analysis  *)
(* may fail every time and nobody is obliged to write anything.            *)
(***************************************************************************)
Fairness ==
    /\ WF_vars(WorkerStep)
    /\ WF_vars(\E r \in Recipe : WorkerStarts(r))
    /\ \A t \in Torrent : WF_vars(LeaseLapses(t))

Analysed(d) == d.status = "succeeded" /\ d.fp = Fingerprint(d.stamp)

OutOfAttempts(d) == d.status # "succeeded" /\ d.attempts = MaxAttempts

\* Every complete preview is analysed with the running recipe, unless it has
\* used up its attempts: also after a crash in the middle, a discarded result,
\* a new recipe or an administrator's reset.
EveryPreviewIsAnalysed ==
    \A t \in Torrent :
        Eligible(rec[t]) ~> Analysed(rec[t]) \/ OutOfAttempts(rec[t]) \/ ~Eligible(rec[t])
=============================================================================
