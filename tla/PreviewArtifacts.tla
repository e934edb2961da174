-------------------------- MODULE PreviewArtifacts --------------------------
(***************************************************************************)
(* The blobs of one info hash and the torrent record that refers to them:  *)
(* MongoPreviewJobLease (preview_pipeline.py) puts frames, writes the      *)
(* record and deletes what it replaced; the web application (videos.ts)    *)
(* deletes the record and the blobs it last saw, and may add the torrent   *)
(* again under a new _id.  There is no transaction over the two stores,    *)
(* and blob keys are derived from the info hash: frame k of every attempt, *)
(* session and _id is the same blob.                                       *)
(*                                                                         *)
(* A step is one MongoDB command or one blob command.  The contact sheet   *)
(* is stored, referred to and deleted with the first frame and is not      *)
(* modelled apart.  The queue is reduced to what decides who may write:    *)
(* TorrentScheduler models it.  An operator named ..._Fault is a seeded    *)
(* fault and not part of the model.                                        *)
(***************************************************************************)
EXTENDS Naturals, FiniteSets

CONSTANTS
    Slot,       \* sessions of the worker
    Request,    \* concurrent delete requests of the web application
    Target,     \* frames of a complete preview
    MaxId       \* bound: how often the torrent is added

ASSUME ArtifactAssumption == Target \in Nat \ {0} /\ MaxId \in Nat \ {0}

VARIABLES
    doc,        \* the torrent record; _id 0 when there is none
    nextId,     \* the _id createVideo gives to the next record
    blobs,      \* the keys that exist: Raw and the numbers of frames
    described,  \* frames whose blob is the image the record describes
    sess,       \* the sessions
    del,        \* the delete requests
    overlapped, \* history: two writers of the same keys were alive at once
    torn        \* history: an attempt overwrote frames and stored no result

vars == <<doc, nextId, blobs, described, sess, del, overlapped, torn>>

Raw == 0

Frames(n) == 1 .. n

Record == [id     : 0 .. MaxId,
           state  : {"queued", "running", "settled"},
           frames : 0 .. Target,
           raw    : BOOLEAN]

NoRecord == [id |-> 0, state |-> "settled", frames |-> 0, raw |-> FALSE]

NewRecord(id) == [id |-> id, state |-> "queued", frames |-> 0, raw |-> FALSE]

(***************************************************************************)
(* old is the snapshot: _old_keys and the count that a partial result must *)
(* beat.  new frames are to be stored, put of them are, and those in mine  *)
(* have not been overwritten since.                                        *)
(***************************************************************************)
Session == [pc      : {"idle", "metadata", "saved", "loop", "storing", "deleting", "stored"},
            id      : 0 .. MaxId,
            old     : 0 .. Target,
            new     : 0 .. Target,
            put     : 0 .. Target,
            mine    : SUBSET Frames(Target),
            replace : BOOLEAN,
            todo    : SUBSET Frames(Target)]

Idle == [pc |-> "idle", id |-> 0, old |-> 0, new |-> 0, put |-> 0, mine |-> {},
         replace |-> FALSE, todo |-> {}]

Deletion == [pc   : {"idle", "read", "deleting"},
             id   : 0 .. MaxId,
             todo : SUBSET (Frames(Target) \cup {Raw})]

NoDeletion == [pc |-> "idle", id |-> 0, todo |-> {}]

TypeOK ==
    /\ doc \in Record
    /\ nextId \in 1 .. MaxId + 1
    /\ blobs \subseteq Frames(Target) \cup {Raw}
    /\ described \subseteq Frames(Target)
    /\ sess \in [Slot -> Session]
    /\ del \in [Request -> Deletion]
    /\ overlapped \in BOOLEAN
    /\ torn \in BOOLEAN

Init ==
    /\ doc = NewRecord(1)
    /\ nextId = 2
    /\ blobs = {}
    /\ described = {}
    /\ sess = [s \in Slot |-> Idle]
    /\ del = [d \in Request |-> NoDeletion]
    /\ overlapped = FALSE
    /\ torn = FALSE

Alive(s) == sess[s].pc # "idle"
-----------------------------------------------------------------------------
(***************************************************************************)
(* The sessions.  Every write is filtered on _id and "running".            *)
(***************************************************************************)

Matches(s) == doc.id = sess[s].id /\ doc.state = "running"

Claim(s) ==
    /\ ~Alive(s)
    /\ doc.id # 0
    /\ doc.state = "queued"
    /\ doc' = [doc EXCEPT !.state = "running"]
    /\ sess' = [sess EXCEPT ![s] = [Idle EXCEPT !.pc = IF doc.raw THEN "loop" ELSE "metadata",
                                                !.id = doc.id,
                                                !.old = doc.frames]]
    /\ overlapped' = (overlapped \/ \E r \in Slot : Alive(r))
    /\ UNCHANGED <<nextId, blobs, described, del, torn>>

\* _ensure_metadata: the payload first, then the reference to it.
PutRaw(s) ==
    /\ sess[s].pc = "metadata"
    /\ blobs' = blobs \cup {Raw}
    /\ sess' = [sess EXCEPT ![s].pc = "saved"]
    /\ UNCHANGED <<doc, nextId, described, del, overlapped, torn>>

StoreRaw(s) ==
    /\ sess[s].pc = "saved"
    /\ doc' = IF Matches(s) THEN [doc EXCEPT !.raw = TRUE] ELSE doc
    /\ sess' = [sess EXCEPT ![s].pc = "loop"]
    /\ UNCHANGED <<nextId, blobs, described, del, overlapped, torn>>

\* _should_replace_preview_artifacts, or a failed attempt (no frames).
Replaces(s, n) ==
    IF n \in {0, Target} \/ n > sess[s].old THEN {TRUE}
    ELSE IF n < sess[s].old THEN {FALSE} ELSE BOOLEAN

ToStore_Fault(n, replace) == n

ToStore(n, replace) == IF replace THEN n ELSE 0

\* The payload is read and the attempt returns n frames.
AttemptEnds(s) ==
    /\ sess[s].pc = "loop"
    /\ Raw \in blobs
    /\ \E n \in 0 .. Target : \E replace \in Replaces(s, n) :
          sess' = [sess EXCEPT ![s].pc = "storing",
                               ![s].new = ToStore(n, replace),
                               ![s].replace = replace,
                               ![s].put = 0,
                               ![s].mine = {}]
    /\ UNCHANGED <<doc, nextId, blobs, described, del, overlapped, torn>>

MoreToPut_Fault(s) == sess[s].put <= sess[s].new

MoreToPut(s) == sess[s].put < sess[s].new

PutFrame(s) ==
    LET k == sess[s].put + 1 IN
    /\ sess[s].pc = "storing"
    /\ MoreToPut(s)
    /\ blobs' = blobs \cup {k}
    /\ described' = described \ {k}
    /\ sess' = [r \in Slot |->
                  IF r = s THEN [sess[r] EXCEPT !.put = k, !.mine = @ \cup {k}]
                           ELSE [sess[r] EXCEPT !.mine = @ \ {k}]]
    /\ UNCHANGED <<doc, nextId, del, overlapped, torn>>

Obsolete_Fault(s) == IF sess[s].replace THEN Frames(sess[s].old) \ Frames(sess[s].new) ELSE {}

\* _delete_old_keys, only when the record was replaced.
Obsolete(s) ==
    IF sess[s].replace /\ Matches(s) THEN Frames(sess[s].old) \ Frames(sess[s].new) ELSE {}

StoreResult(s) ==
    /\ sess[s].pc = "storing"
    /\ ~MoreToPut(s)
    /\ IF sess[s].replace /\ Matches(s)
       THEN /\ doc' = [doc EXCEPT !.frames = sess[s].new]
            /\ described' = sess[s].mine
            /\ torn' = FALSE
       ELSE /\ UNCHANGED <<doc, described>>
            /\ torn' = (torn \/ (~Matches(s) /\ sess[s].put > 0))
    /\ sess' = [sess EXCEPT ![s].pc = "deleting", ![s].todo = Obsolete(s)]
    /\ UNCHANGED <<nextId, blobs, del, overlapped>>

Remove(k) ==
    /\ blobs' = blobs \ {k}
    /\ described' = described \ {k}

DeleteObsolete(s) ==
    /\ sess[s].pc = "deleting"
    /\ \E k \in sess[s].todo :
        /\ Remove(k)
        /\ sess' = [r \in Slot |-> [sess[r] EXCEPT !.mine = @ \ {k},
                                                   !.todo = IF r = s THEN @ \ {k} ELSE @]]
    /\ UNCHANGED <<doc, nextId, del, overlapped, torn>>

CleanupDone(s) ==
    /\ sess[s].pc = "deleting"
    /\ sess[s].todo = {}
    /\ sess' = [sess EXCEPT ![s].pc = "stored"]
    /\ UNCHANGED <<doc, nextId, blobs, described, del, overlapped, torn>>

Continue(s) ==
    /\ sess[s].pc = "stored"
    /\ sess' = [sess EXCEPT ![s].pc = "loop"]
    /\ UNCHANGED <<doc, nextId, blobs, described, del, overlapped, torn>>

Tears(s) == sess[s].pc = "storing" /\ sess[s].put > 0

\* _finish or _requeue: after a result, at a stop, or because a call raised.
Release(s) ==
    /\ Alive(s)
    /\ \E state \in {"queued", "settled"} :
          doc' = IF Matches(s) THEN [doc EXCEPT !.state = state] ELSE doc
    /\ sess' = [sess EXCEPT ![s] = Idle]
    /\ torn' = (torn \/ Tears(s))
    /\ UNCHANGED <<nextId, blobs, described, del, overlapped>>

\* The worker is killed, or its tasks are cancelled.
WorkerDies ==
    /\ \E s \in Slot : Alive(s)
    /\ sess' = [s \in Slot |-> Idle]
    /\ torn' = (torn \/ \E s \in Slot : Tears(s))
    /\ UNCHANGED <<doc, nextId, blobs, described, del, overlapped>>

\* A lease runs out, of a dead session or of one that is still at work.
Repair ==
    /\ doc.state = "running"
    /\ doc' = [doc EXCEPT !.state = "queued"]
    /\ UNCHANGED <<nextId, blobs, described, sess, del, overlapped, torn>>
-----------------------------------------------------------------------------
(***************************************************************************)
(* The web application.                                                    *)
(***************************************************************************)

QueueAgain ==
    /\ doc.id # 0
    /\ doc' = [doc EXCEPT !.state = "queued"]
    /\ UNCHANGED <<nextId, blobs, described, sess, del, overlapped, torn>>

Cancel ==
    /\ doc.id # 0
    /\ doc' = [doc EXCEPT !.state = "settled"]
    /\ UNCHANGED <<nextId, blobs, described, sess, del, overlapped, torn>>

\* createVideo, when no torrent has the info hash.
Add ==
    /\ doc.id = 0
    /\ nextId <= MaxId
    /\ doc' = NewRecord(nextId)
    /\ nextId' = nextId + 1
    /\ described' = {}
    /\ torn' = FALSE
    /\ overlapped' = (overlapped \/ (\E s \in Slot : Alive(s))
                                 \/ (\E d \in Request : del[d].pc # "idle"))
    /\ UNCHANGED <<blobs, sess, del>>

Referenced(r) == Frames(r.frames) \cup (IF r.raw THEN {Raw} ELSE {})

\* deleteTorrent and deleteVideo read the record that they are to delete.
DeletionReads(d) ==
    /\ del[d].pc = "idle"
    /\ doc.id # 0
    /\ del' = [del EXCEPT ![d] = [pc |-> "read", id |-> doc.id, todo |-> Referenced(doc)]]
    /\ UNCHANGED <<doc, nextId, blobs, described, sess, overlapped, torn>>

\* deleteTorrentRecord: the record first ...
DeleteRecord(d) ==
    /\ del[d].pc = "read"
    /\ doc' = IF doc.id = del[d].id THEN NoRecord ELSE doc
    /\ del' = [del EXCEPT ![d].pc = "deleting"]
    /\ UNCHANGED <<nextId, blobs, described, sess, overlapped, torn>>

\* ... then the blobs that it referred to when it was read, in any order.
DeleteBlob(d) ==
    /\ del[d].pc = "deleting"
    /\ \E k \in del[d].todo :
        /\ Remove(k)
        /\ del' = [del EXCEPT ![d].todo = @ \ {k}]
        /\ sess' = [r \in Slot |-> [sess[r] EXCEPT !.mine = @ \ {k}]]
    /\ UNCHANGED <<doc, nextId, overlapped, torn>>

DeletionEnds(d) ==
    /\ del[d].pc = "deleting"
    /\ del[d].todo = {}
    /\ del' = [del EXCEPT ![d] = NoDeletion]
    /\ UNCHANGED <<doc, nextId, blobs, described, sess, overlapped, torn>>

\* The request is cut off, or one of its deletes raises.
DeletionBreaks(d) ==
    /\ del[d].pc # "idle"
    /\ del' = [del EXCEPT ![d] = NoDeletion]
    /\ UNCHANGED <<doc, nextId, blobs, described, sess, overlapped, torn>>
-----------------------------------------------------------------------------
SessionStep(s) ==
    \/ Claim(s) \/ PutRaw(s) \/ StoreRaw(s) \/ AttemptEnds(s) \/ PutFrame(s)
    \/ StoreResult(s) \/ DeleteObsolete(s) \/ CleanupDone(s) \/ Continue(s) \/ Release(s)

DeletionStep(d) ==
    \/ DeletionReads(d) \/ DeleteRecord(d) \/ DeleteBlob(d) \/ DeletionEnds(d)
    \/ DeletionBreaks(d)

Next ==
    \/ \E s \in Slot : SessionStep(s)
    \/ WorkerDies
    \/ Repair
    \/ QueueAgain \/ Cancel \/ Add
    \/ \E d \in Request : DeletionStep(d)

Spec == Init /\ [][Next]_vars
-----------------------------------------------------------------------------
(***************************************************************************)
(* Properties.                                                             *)
(***************************************************************************)

\* Whatever crashes, raises, is cancelled, requeued or deleted between two
\* commands, the record refers to blobs that exist: complete() and
\* _ensure_metadata put before they write and delete after they have written,
\* if the write found its record; deleteTorrentRecord deletes blobs last.  Two
\* writers of the same keys at once are outside what the code guards.
NoDanglingReference == ~overlapped => Referenced(doc) \subseteq blobs

\* An attempt that ran to its end leaves images that the record describes
\* (their timestamps, the selection in previewDiagnostics), also when its
\* frames were not worth storing: only an attempt that stopped between its
\* first put_file and its update_one leaves others.
FramesMatchRecord ==
    /\ ~overlapped
    /\ ~torn
    /\ \A s \in Slot : sess[s].pc # "storing"
    => Frames(doc.frames) \subseteq described

\* What NoDanglingReference needs to be inductive: without an overlap a record
\* has one session, its own, and no deletion is past the record; and what that
\* session is about to refer to exists, what it is about to delete is no longer
\* referred to.
SoleWriter ==
    /\ \A s, r \in Slot : Alive(s) /\ Alive(r) => s = r
    /\ \A s \in Slot : Alive(s) => sess[s].id = doc.id
    /\ \A d \in Request : del[d].pc = "idle" \/ (del[d].pc = "read" /\ del[d].id = doc.id)

WriterIsSafe(s) ==
    /\ sess[s].pc = "saved" => Raw \in blobs
    /\ sess[s].pc = "storing" => Frames(sess[s].put) \subseteq blobs /\ sess[s].put <= sess[s].new
    /\ sess[s].pc = "deleting" => sess[s].todo \cap Frames(doc.frames) = {}

IInv ==
    /\ TypeOK
    /\ doc.id = 0 => doc = NoRecord
    /\ NoDanglingReference
    /\ ~overlapped /\ doc.id # 0 => SoleWriter /\ \A s \in Slot : WriterIsSafe(s)
=============================================================================
