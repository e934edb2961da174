-------------------------- MODULE TorrentScheduler --------------------------
(***************************************************************************)
(* The FIFO torrent scheduler of the VM worker (preview_pipeline.py)       *)
(* together with the queue operations of the web application (videos.ts)   *)
(* that write the same torrent documents.                                  *)
(*                                                                         *)
(* A step is what happens between two awaits that matter: one MongoDB      *)
(* command, or the end of one preview attempt.  The worker's sessions are  *)
(* asyncio tasks that interleave at those points with each other, with the *)
(* scheduler loop, with the administrator and with the clock.              *)
(*                                                                         *)
(* Time is abstracted to what the code derives from it: whether a cooldown *)
(* is still running, whether a lease has lapsed, and, as a choice between  *)
(* Continue and GiveWay, whether a session has outlived its fairness       *)
(* budget.  processingQueuedAt is abstracted to the order it induces.      *)
(*                                                                         *)
(* An operator named ..._Fault is not part of the model: it is a seeded    *)
(* fault, the mistake a property of this module is there to notice (see    *)
(* the README).                                                            *)
(***************************************************************************)
EXTENDS Naturals, FiniteSets

CONSTANTS
    Torrent,        \* the torrent documents
    Slot,           \* the concurrent sessions: preview_worker_max_concurrency
    NoTorrent,      \* the torrent of an idle slot
    IdOrder,        \* the order of _id, the tie-break of the FIFO sort
    Target,         \* TARGET_FRAMES: anchors a complete preview covers
    FailureLimit,   \* preview_failure_limit
    LeaseCovers     \* the lease is longer than any one preview attempt

IsStrictOrder(R, S) ==
    /\ R \subseteq S \X S
    /\ \A a \in S : <<a, a>> \notin R
    /\ \A a, b, c \in S : <<a, b>> \in R /\ <<b, c>> \in R => <<a, c>> \in R
    /\ \A a, b \in S : a # b => <<a, b>> \in R \/ <<b, a>> \in R

ASSUME SchedulerAssumption ==
    /\ NoTorrent \notin Torrent
    /\ IsStrictOrder(IdOrder, Torrent)
    /\ Target \in Nat \ {0}
    /\ FailureLimit \in Nat \ {0}
    /\ LeaseCovers \in BOOLEAN

VARIABLES
    doc,        \* the torrents collection: the fields the scheduler uses
    before,     \* <<t, u>>: t.processingQueuedAt sorts before u.processingQueuedAt
    sess,       \* what runs in each slot, with the torrent snapshot it holds
    worker,     \* the worker process
    ensuring,   \* ensureTorrentProcessingQueued has read, and not yet written
    contested   \* history: see Contest

vars == <<doc, before, sess, worker, ensuring, contested>>

States == {"queued", "running", "partial", "complete", "exhausted", "cancelled"}

(***************************************************************************)
(* stamped: previewDiagnostics carries the running recipe's version and    *)
(* fingerprint.  fresh: the stored frames were made by that recipe.        *)
(***************************************************************************)
Doc == [state    : States,
        lease    : {"none", "live", "lapsed"},
        cooling  : BOOLEAN,              \* processingAvailableAt > now
        failures : 0 .. FailureLimit,    \* processingFailureCount
        frames   : 0 .. Target,          \* Len(previewFrames)
        stamped  : BOOLEAN,
        fresh    : BOOLEAN,
        raw      : BOOLEAN]              \* rawBlobKey is set

(***************************************************************************)
(* What one preview attempt can end in.  A failure is permanent (no video  *)
(* file, no bytes), external (decode or selection raised), or sparse:      *)
(* anything else, which the scheduler keeps trying.                        *)
(***************************************************************************)
Result == [kind : {"succeeded"}, frames : {Target}]
     \cup [kind : {"partial"}, frames : 1 .. Target - 1]
     \cup [kind : {"sparse", "permanent", "external"}, frames : {0}]

Failed(r) == r.kind \in {"sparse", "permanent", "external"}

Session == [pc       : {"idle", "metadata", "loop", "attempt", "waiting",
                        "decide", "yield"},
            torrent  : Torrent \cup {NoTorrent},
            frames   : 0 .. Target,          \* of the claimed snapshot
            failures : 0 .. FailureLimit,    \* of the claimed snapshot
            kind     : {"none", "succeeded", "partial", "sparse",
                        "permanent", "external"},
            decoded  : BOOLEAN]              \* last_decode_complete_piece_count

Idle == [pc |-> "idle", torrent |-> NoTorrent, frames |-> 0, failures |-> 0,
         kind |-> "none", decoded |-> FALSE]

TypeOK ==
    /\ doc \in [Torrent -> Doc]
    /\ before \subseteq Torrent \X Torrent
    /\ sess \in [Slot -> Session]
    /\ worker \in {"up", "stopping", "down"}
    /\ ensuring \subseteq Torrent
    /\ contested \subseteq Torrent

\* A torrent as createVideo inserts it.
NewDoc == [state |-> "queued", lease |-> "none", cooling |-> FALSE, failures |-> 0,
           frames |-> 0, stamped |-> FALSE, fresh |-> FALSE, raw |-> FALSE]

\* The web application may have run without a worker and cancelled some.
Init ==
    /\ doc \in [Torrent -> {NewDoc, [NewDoc EXCEPT !.state = "cancelled"]}]
    /\ before = IdOrder
    /\ sess = [s \in Slot |-> Idle]
    /\ worker = "up"
    /\ ensuring = {}
    /\ contested = {}
-----------------------------------------------------------------------------
(***************************************************************************)
(* The queue.                                                              *)
(***************************************************************************)

MoveToTail_Fault(S) == UNCHANGED before

\* S receives one new processingQueuedAt, later than every other.
MoveToTail(S) ==
    before' = {p \in before : p[1] \notin S /\ p[2] \notin S}
              \cup ((Torrent \ S) \X S)
              \cup (IdOrder \cap (S \X S))

Claimable_Fault(t) == doc[t].state \in {"queued", "partial", "running"} /\ ~doc[t].cooling

Claimable(t) == doc[t].state \in {"queued", "partial"} /\ ~doc[t].cooling

\* A session of t is alive, whatever the document says.
HasSession(t) == \E s \in Slot : sess[s].torrent = t

(***************************************************************************)
(* A torrent is contested when its document was requeued or cancelled      *)
(* under a live session.  The code has no owner token: every session write *)
(* is filtered on processingState alone.  A claim ends the contest unless  *)
(* an older session is still alive.                                        *)
(***************************************************************************)
Contest(S) == contested' = contested \cup {t \in S : HasSession(t)}

Queued(d) == [d EXCEPT !.state = "queued", !.lease = "none", !.cooling = FALSE]

Reset_Fault(d) == Queued(d)

Reset(d) == [Queued(d) EXCEPT !.failures = 0]

Claimed(d) == [d EXCEPT !.state = "running", !.lease = "live", !.cooling = FALSE]

Claim(s) ==
    /\ worker = "up"
    /\ sess[s].pc = "idle"
    /\ \E t \in Torrent :
        /\ Claimable(t)
        /\ \A u \in Torrent : Claimable(u) => <<u, t>> \notin before
        /\ doc' = [doc EXCEPT ![t] = Claimed(@)]
        /\ sess' = [sess EXCEPT ![s] =
                        [Idle EXCEPT !.pc = IF doc[t].raw THEN "loop" ELSE "metadata",
                                     !.torrent = t,
                                     !.frames = doc[t].frames,
                                     !.failures = doc[t].failures]]
        /\ contested' = IF HasSession(t) THEN contested ELSE contested \ {t}
    /\ UNCHANGED <<before, worker, ensuring>>

LeaseLost_Fault == {t \in Torrent : doc[t].state = "running" /\ doc[t].lease = "none"}

LeaseLost == {t \in Torrent : doc[t].state = "running" /\ doc[t].lease # "live"}

RepairStaleRunning ==
    /\ worker # "down"
    /\ LeaseLost # {}
    /\ doc' = [t \in Torrent |-> IF t \in LeaseLost THEN Queued(doc[t]) ELSE doc[t]]
    /\ MoveToTail(LeaseLost)
    /\ Contest(LeaseLost)
    /\ UNCHANGED <<sess, worker, ensuring>>

Outdated == {t \in Torrent : doc[t].state = "complete" /\ ~doc[t].stamped}

QueueStaleArtifacts ==
    /\ worker # "down"
    /\ Outdated # {}
    /\ doc' = [t \in Torrent |-> IF t \in Outdated THEN Queued(doc[t]) ELSE doc[t]]
    /\ MoveToTail(Outdated)
    /\ Contest(Outdated)
    /\ UNCHANGED <<sess, worker, ensuring>>
-----------------------------------------------------------------------------
(***************************************************************************)
(* One session.  Every write is an update_one filtered on _id and          *)
(* processingState = "running": on any other state it changes nothing.     *)
(***************************************************************************)

IsRunning_Fault(s) == sess[s].torrent \in Torrent

IsRunning(s) == doc[sess[s].torrent].state = "running"

EndSession_Fault(s) == sess' = [sess EXCEPT ![s].pc = "loop"]

EndSession(s) == sess' = [sess EXCEPT ![s] = Idle]

Released(d, state, failures) ==
    [d EXCEPT !.state = state, !.lease = "none", !.cooling = FALSE, !.failures = failures]

\* _finish
Finish(s, state, failures) ==
    LET t == sess[s].torrent IN
    /\ IF IsRunning(s)
       THEN doc' = [doc EXCEPT ![t] = Released(@, state, failures)]
       ELSE UNCHANGED doc
    /\ EndSession(s)
    /\ UNCHANGED <<before, worker, ensuring, contested>>

\* _requeue
Requeue(s, state, failures, cooling) ==
    LET t == sess[s].torrent IN
    /\ IF IsRunning(s)
       THEN /\ doc' = [doc EXCEPT ![t] =
                           [Released(@, state, failures) EXCEPT !.cooling = cooling]]
            /\ MoveToTail({t})
       ELSE UNCHANGED <<doc, before>>
    /\ EndSession(s)
    /\ UNCHANGED <<worker, ensuring, contested>>

\* _finish and _requeue leave processingFailureCount alone unless given one.
Stored_Fault(s) == 0

Stored(s) == doc[sess[s].torrent].failures

SpendsBudget_Fault(n) == n > FailureLimit

SpendsBudget(n) == n >= FailureLimit

FailOrRequeue(s) ==
    LET n == sess[s].failures + 1 IN
    IF SpendsBudget(n) THEN Finish(s, "exhausted", n)
                       ELSE Requeue(s, "queued", n, TRUE)

MetadataResolved(s) ==
    LET t == sess[s].torrent IN
    /\ sess[s].pc = "metadata"
    /\ doc' = [doc EXCEPT ![t].raw = @ \/ IsRunning(s)]
    /\ sess' = [sess EXCEPT ![s].pc = "loop"]
    /\ UNCHANGED <<before, worker, ensuring, contested>>

MetadataInvalid(s) ==
    sess[s].pc = "metadata" /\ Finish(s, "exhausted", Stored(s))

MetadataUnavailable(s) ==
    sess[s].pc = "metadata" /\ FailOrRequeue(s)

StartAttempt(s) ==
    LET t == sess[s].torrent IN
    /\ sess[s].pc = "loop"
    /\ worker = "up"
    /\ doc' = IF IsRunning(s) THEN [doc EXCEPT ![t].lease = "live"] ELSE doc
    /\ sess' = [sess EXCEPT ![s].pc = "attempt"]
    /\ UNCHANGED <<before, worker, ensuring, contested>>

StopSession(s) ==
    /\ sess[s].pc = "loop"
    /\ worker = "stopping"
    /\ Requeue(s, "queued", Stored(s), FALSE)

(***************************************************************************)
(* _should_replace_preview_artifacts, decided on the claimed snapshot.  On *)
(* equal frame counts the anchors of the stored diagnostics decide, which  *)
(* are abstracted away: either.                                            *)
(***************************************************************************)
Replaces_Fault(s, r, replace) == replace <=> Failed(r) \/ r.frames > sess[s].frames

Replaces(s, r, replace) ==
    IF r.kind = "partial"
    THEN r.frames # sess[s].frames => (replace <=> r.frames > sess[s].frames)
    ELSE replace

\* _success_update
Stamped(d, r, replace) ==
    [d EXCEPT !.stamped = TRUE,
              !.frames = IF replace THEN r.frames ELSE @,
              !.fresh = replace \/ @]

\* The attempt returns and MongoPreviewJobLease.complete stores its result.
AttemptEnds(s) ==
    LET t == sess[s].torrent IN
    /\ sess[s].pc = "attempt"
    /\ \E r \in Result, replace, known \in BOOLEAN :
        /\ Replaces(s, r, replace)
        /\ Failed(r) \/ known
        /\ doc' = IF IsRunning(s)
                  THEN [doc EXCEPT ![t] = Stamped(@, r, replace)]
                  ELSE doc
        /\ sess' = [sess EXCEPT ![s].pc = "decide", ![s].kind = r.kind,
                                ![s].decoded = known]
    /\ UNCHANGED <<before, worker, ensuring, contested>>

\* No piece has completed since the decode checkpoint.  The engine builds a
\* "partial" PreviewResult without frames, which its constructor rejects.
AttemptWaits(s) ==
    /\ sess[s].pc = "attempt"
    /\ sess[s].decoded
    /\ sess' = [sess EXCEPT ![s].pc = "waiting"]
    /\ UNCHANGED <<doc, before, worker, ensuring, contested>>

WaitRaises(s) == sess[s].pc = "waiting" /\ FailOrRequeue(s)

AttemptRaises(s) == sess[s].pc = "attempt" /\ FailOrRequeue(s)

\* complete() has stored the result and raises while it deletes the old blobs.
CleanupRaises(s) == sess[s].pc = "decide" /\ FailOrRequeue(s)

QueuePressure_Fault(t) == \E u \in Torrent \ {t} : doc[u].state = "queued" /\ ~doc[u].cooling

\* _has_queued_work(exclude_id = t)
QueuePressure(t) == \E u \in Torrent \ {t} : Claimable(u)

Settle(s) ==
    /\ sess[s].pc = "decide"
    /\ \/ sess[s].kind = "succeeded" /\ Finish(s, "complete", Stored(s))
       \/ sess[s].kind = "permanent" /\ Finish(s, "exhausted", Stored(s))
       \/ sess[s].kind = "external" /\ FailOrRequeue(s)

Retryable(s) == sess[s].pc = "decide" /\ sess[s].kind \in {"partial", "sparse"}

\* Without queue pressure, or with useful progress inside the fairness limit.
Continue(s) ==
    /\ Retryable(s)
    /\ sess' = [sess EXCEPT ![s].pc = "loop", ![s].kind = "none"]
    /\ UNCHANGED <<doc, before, worker, ensuring, contested>>

\* Under pressure, past the fairness limit or without useful progress.
GiveWay(s) ==
    /\ Retryable(s)
    /\ QueuePressure(sess[s].torrent)
    /\ sess' = [sess EXCEPT ![s].pc = "yield"]
    /\ UNCHANGED <<doc, before, worker, ensuring, contested>>

\* _yield: the state is chosen from the last result and the claimed snapshot.
Yield(s) ==
    /\ sess[s].pc = "yield"
    /\ Requeue(s,
               IF sess[s].kind = "partial" \/ sess[s].frames > 0 THEN "partial" ELSE "queued",
               Stored(s), FALSE)

SessionStep(s) ==
    \/ MetadataResolved(s) \/ MetadataInvalid(s) \/ MetadataUnavailable(s)
    \/ StartAttempt(s) \/ StopSession(s)
    \/ AttemptEnds(s) \/ AttemptWaits(s) \/ WaitRaises(s) \/ AttemptRaises(s)
    \/ CleanupRaises(s)
    \/ Settle(s) \/ Continue(s) \/ GiveWay(s) \/ Yield(s)
-----------------------------------------------------------------------------
(***************************************************************************)
(* The clock.                                                              *)
(***************************************************************************)

CooldownElapses(t) ==
    /\ doc[t].cooling
    /\ doc' = [doc EXCEPT ![t].cooling = FALSE]
    /\ UNCHANGED <<before, sess, worker, ensuring, contested>>

LeaseLapses(t) ==
    /\ doc[t].lease = "live"
    /\ LeaseCovers => ~HasSession(t)
    /\ doc' = [doc EXCEPT ![t].lease = "lapsed"]
    /\ UNCHANGED <<before, sess, worker, ensuring, contested>>

-----------------------------------------------------------------------------
(***************************************************************************)
(* The worker process.                                                     *)
(***************************************************************************)

WorkerStops ==
    /\ worker = "up"
    /\ worker' = "stopping"
    /\ UNCHANGED <<doc, before, sess, ensuring, contested>>

\* Killed, or its tasks cancelled: no session writes anything on its way out.
WorkerExits ==
    /\ worker # "down"
    /\ worker' = "down"
    /\ sess' = [s \in Slot |-> Idle]
    /\ UNCHANGED <<doc, before, ensuring, contested>>

\* A new process, possibly of a release with another recipe.
WorkerStarts(upgrade) ==
    /\ worker = "down"
    /\ worker' = "up"
    /\ doc' = [t \in Torrent |->
                 IF upgrade THEN [doc[t] EXCEPT !.stamped = FALSE, !.fresh = FALSE]
                            ELSE doc[t]]
    /\ UNCHANGED <<before, sess, ensuring, contested>>
-----------------------------------------------------------------------------
(***************************************************************************)
(* The web application.  None of these writes looks at the state it finds. *)
(***************************************************************************)

\* queueTorrentProcessing, which resetTorrentPreview calls too.
QueueAgain(t) ==
    /\ doc' = [doc EXCEPT ![t] = Reset(@)]
    /\ MoveToTail({t})
    /\ Contest({t})
    /\ UNCHANGED <<sess, worker>>

AdminQueuesAgain(t) == QueueAgain(t) /\ UNCHANGED ensuring

Cancelled(d) == [d EXCEPT !.state = "cancelled", !.lease = "none"]

\* cancelTorrentProcessing: cooldown, failure count and rank stay.
AdminCancels(t) ==
    /\ doc' = [doc EXCEPT ![t] = Cancelled(@)]
    /\ Contest({t})
    /\ UNCHANGED <<before, sess, worker, ensuring>>

\* ensureTorrentProcessingQueued, when a user adds a video: read, then write.
EnsureReads(t) ==
    /\ doc[t].state \notin {"complete", "running"}
    /\ ensuring' = ensuring \cup {t}
    /\ UNCHANGED <<doc, before, sess, worker, contested>>

EnsureWrites(t) ==
    /\ t \in ensuring
    /\ QueueAgain(t)
    /\ ensuring' = ensuring \ {t}
-----------------------------------------------------------------------------
SchedulerStep ==
    \/ \E s \in Slot : Claim(s)
    \/ RepairStaleRunning
    \/ QueueStaleArtifacts
    \/ \E s \in Slot : SessionStep(s)

ClockStep == \E t \in Torrent : CooldownElapses(t) \/ LeaseLapses(t)

ProcessStep ==
    \/ WorkerStops
    \/ WorkerExits
    \/ \E upgrade \in BOOLEAN : WorkerStarts(upgrade)

WebStep ==
    \E t \in Torrent :
        \/ AdminQueuesAgain(t)
        \/ AdminCancels(t)
        \/ EnsureReads(t)
        \/ EnsureWrites(t)

Next == SchedulerStep \/ ClockStep \/ ProcessStep \/ WebStep

Spec == Init /\ [][Next]_vars
-----------------------------------------------------------------------------
(***************************************************************************)
(* Safety.                                                                 *)
(***************************************************************************)

\* Unless its document was requeued or cancelled under a session, a torrent
\* has one session at most: one slot, one libtorrent handle, one writer
\* (_claim_one and the "running" filters are all that guards it).
SoleSession ==
    \A s, r \in Slot :
        /\ sess[s].torrent = sess[r].torrent
        /\ sess[s].torrent \in Torrent \ contested
        => s = r

\* Such a session still owns the claim it made: the document is running and
\* the failure count it will add to is the stored one (_fail_or_requeue counts
\* on the claimed snapshot).
SessionOwnsClaim ==
    \A s \in Slot :
        sess[s].torrent \in Torrent \ contested =>
            /\ doc[sess[s].torrent].state = "running"
            /\ doc[sess[s].torrent].failures = sess[s].failures

Full(d) == d.frames = Target /\ (d.stamped => d.fresh)

\* A complete torrent shows one frame per anchor, and if its diagnostics carry
\* the running recipe (so that _queue_stale_artifacts leaves it alone) that
\* recipe made the frames: complete() and _finish are two writes, and
\* complete() stamps the recipe even when it keeps the old frames.
CompleteIsFull ==
    \A t \in Torrent \ contested : doc[t].state = "complete" => Full(doc[t])

\* A torrent that used up its failure budget is out of the queue until an
\* administrator resets the count, whatever sessions and web requests raced.
FailureBudget ==
    \A t \in Torrent :
        doc[t].failures = FailureLimit => doc[t].state \in {"exhausted", "cancelled"}

\* What the invariants above need to be inductive: a slot is idle exactly when
\* it has no torrent, no session was claimed with a spent failure budget, and a
\* session about to report success has just stored a full artifact.
SlotsConsistent ==
    \A s \in Slot :
        /\ sess[s].pc = "idle" <=> sess[s].torrent = NoTorrent
        /\ sess[s].failures < FailureLimit

SuccessIsStored ==
    \A s \in Slot :
        /\ sess[s].torrent \in Torrent \ contested
        /\ sess[s].pc = "decide"
        /\ sess[s].kind = "succeeded"
        => Full(doc[sess[s].torrent])

IInv ==
    /\ TypeOK
    /\ SlotsConsistent
    /\ FailureBudget
    /\ SoleSession
    /\ SessionOwnsClaim
    /\ CompleteIsFull
    /\ SuccessIsStored

\* A torrent that is not running is out of every session's reach: a session
\* that outlived its claim changes no artifact, and nothing but a claim makes
\* the document run, nothing but a session of it completes or exhausts it.
DropsLateWrites(t) ==
    doc[t].state # "running" =>
        /\ doc'[t].frames = doc[t].frames
        /\ doc'[t].raw = doc[t].raw
        /\ doc'[t].state \in {"complete", "exhausted"} => doc'[t].state = doc[t].state
        /\ doc'[t].state = "running" => Claimable(t)

LateWritesAreDropped == [][\A t \in Torrent : DropsLateWrites(t)]_vars

\* While a torrent has a session and nobody contests it, its failures are
\* counted one by one and never forgotten: a yield keeps the count, a retry is
\* not counted twice.
CountsOnce(t) ==
    HasSession(t) /\ t \notin contested' =>
        doc'[t].failures \in {doc[t].failures, doc[t].failures + 1}

FailuresCountOnce == [][\A t \in Torrent : CountsOnce(t)]_vars

\* The documents, leases and sessions implement one first-come-first-served
\* line: only the first torrent that is out of its cooldown is ever claimed,
\* and yielding, failing, crashing or being requeued costs a torrent its place
\* and nobody else theirs (docs/worker.md: "FIFO order", "FIFO tail").
Phase(state) ==
    CASE state \in {"queued", "partial"} -> "waiting"
      [] state = "running" -> "active"
      [] OTHER -> "settled"

Queue == INSTANCE FifoQueue WITH
    Item <- Torrent,
    Tie <- IdOrder,
    phase <- [t \in Torrent |-> Phase(doc[t].state)],
    open <- [t \in Torrent |-> ~doc[t].cooling],
    ahead <- before

ImplementsQueue == Queue!Spec
-----------------------------------------------------------------------------
(***************************************************************************)
(* Liveness.  The loop polls for as long as the process runs and the       *)
(* process is restarted; every attempt is bounded (max_time_seconds); time *)
(* passes.  GiveWay is strongly fair because elapsed time only grows: a    *)
(* session that keeps reaching its checkpoint under pressure is past the   *)
(* limit at one of them.  The web application is not fair.                 *)
(***************************************************************************)
Fairness ==
    /\ WF_vars(\E s \in Slot : Claim(s))
    /\ WF_vars(RepairStaleRunning)
    /\ WF_vars(QueueStaleArtifacts)
    /\ \A s \in Slot : WF_vars(SessionStep(s)) /\ SF_vars(GiveWay(s))
    /\ \A t \in Torrent : WF_vars(CooldownElapses(t)) /\ WF_vars(LeaseLapses(t))
    /\ WF_vars(worker = "stopping" /\ WorkerExits)
    /\ WF_vars(\E upgrade \in BOOLEAN : WorkerStarts(upgrade))

\* No torrent waits for ever: sessions give way under queue pressure, and
\* those that rejoin do so behind it.  Except a torrent that waits for its own
\* session: requeued under it, it is no pressure on that session
\* (_has_queued_work excludes the id), which keeps its slot for as long as it
\* has no other torrent to give way to.
Waiting(t) == doc[t].state \in {"queued", "partial"}

EveryTorrentIsServed ==
    \A t \in Torrent : Waiting(t) /\ ~HasSession(t) ~> ~Waiting(t)

\* A torrent whose session died with its worker, or was cancelled with it,
\* is found again through its lease.
OrphansAreRepaired ==
    \A t \in Torrent :
        doc[t].state = "running" /\ ~HasSession(t)
            ~> (doc[t].state # "running" \/ HasSession(t))
-----------------------------------------------------------------------------
(***************************************************************************)
(* A statement of the documentation that the code violates.                *)
(***************************************************************************)

\* docs/worker.md: a sparse swarm "may retain its slot" and "The engine skips
\* FFmpeg and OpenAI when no new completed pieces are available": waiting for
\* pieces is not counted as a failure of the torrent.
WaitingIsNoFailure ==
    [][\A s \in Slot : sess[s].pc = "waiting" =>
          doc'[sess[s].torrent].failures = doc[sess[s].torrent].failures]_vars
=============================================================================
