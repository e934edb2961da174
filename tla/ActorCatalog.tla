---------------------------- MODULE ActorCatalog ----------------------------
(***************************************************************************)
(* The actors, their profile images and their attributions to torrents, as *)
(* three programs change them with nothing between them but single         *)
(* commands: the actor worker (actor/worker.py, from the end of its        *)
(* analysis on), the administrator's requests (actors.ts) and the users'   *)
(* (createVideo and updateVideo, videos.ts).                               *)
(*                                                                         *)
(* A step is one MongoDB command or one blob command.  The worker is       *)
(* sequential and nobody else writes biometric evidence, so its revision   *)
(* check can only fail on an actor that is gone.  Names, scores and the    *)
(* evidence itself are abstracted to what may come of them.  An operator   *)
(* named ..._Fault is a seeded fault and not part of the model.            *)
(***************************************************************************)
EXTENDS Naturals

CONSTANTS
    Actor,      \* actor ids: UUIDs, used once
    Torrent,
    NoTorrent,
    Request,    \* concurrent requests of the web application
    MaxUploads  \* bound: profile images ever uploaded

ASSUME CatalogAssumption == NoTorrent \notin Torrent /\ MaxUploads \in Nat

VARIABLES
    actors,     \* the actors collection
    system,     \* systemActorIds of each torrent
    user,       \* userActorIds of each torrent
    blobs,      \* the profile images that exist
    uploads,    \* how many were ever uploaded
    w,          \* the worker
    req,        \* the requests
    disturbed   \* history: actors on which two operations overlapped, or one broke off

vars == <<actors, system, user, blobs, uploads, w, req, disturbed>>

\* actors/<id>/profile-<uuid>: every upload has a key of its own.
Image(a, n) == <<a, n>>

Images == Actor \X (0 .. MaxUploads)

ImagesOf(a) == {k \in blobs : k[1] = a}

ActorDoc == [state    : {"unused", "reserved", "live", "deleted"},
             image    : 0 .. MaxUploads,     \* profileImageKey
             source   : {"system", "admin"}, \* profileImageSource
             evidence : BOOLEAN]             \* faceExemplars of the running model

Worker == [pc      : {"idle", "next", "insert", "improve", "swap", "clean"},
           torrent : Torrent \cup {NoTorrent},
           seen    : [Actor -> ActorDoc],   \* _load_active_actor_documents
           ids     : SUBSET Actor,          \* assignment.actor_ids
           todo    : SUBSET Actor,          \* those not yet persisted
           actor   : Actor,
           image   : 0 .. MaxUploads]       \* an upload, or what is to be deleted

Steps == {"idle", "create", "upload", "update", "delete", "attribute", "clean"}

RequestState == [pc      : Steps,
                 actors  : SUBSET Actor,
                 torrent : Torrent \cup {NoTorrent},
                 old     : 0 .. MaxUploads,     \* the image of the actor when it was read
                 image   : 0 .. MaxUploads,     \* an upload, or what is to be deleted
                 record  : BOOLEAN,             \* deleteActor: still to be deleted
                 pull    : SUBSET Torrent]      \* deleteActor: still to be pulled from

TypeOK ==
    /\ actors \in [Actor -> ActorDoc]
    /\ system \in [Torrent -> SUBSET Actor]
    /\ user \in [Torrent -> SUBSET Actor]
    /\ blobs \subseteq Images
    /\ uploads \in 0 .. MaxUploads
    /\ w \in Worker
    /\ req \in [Request -> RequestState]
    /\ disturbed \subseteq Actor

Unused == [state |-> "unused", image |-> 0, source |-> "system", evidence |-> FALSE]

NoRequest == [pc |-> "idle", actors |-> {}, torrent |-> NoTorrent, old |-> 0, image |-> 0,
              record |-> FALSE, pull |-> {}]

Init ==
    /\ actors = [a \in Actor |-> Unused]
    /\ system = [t \in Torrent |-> {}]
    /\ user = [t \in Torrent |-> {}]
    /\ blobs = {}
    /\ uploads = 0
    /\ \E a \in Actor :
          w = [pc |-> "idle", torrent |-> NoTorrent, seen |-> actors, ids |-> {},
               todo |-> {}, actor |-> a, image |-> 0]
    /\ req = [r \in Request |-> NoRequest]
    /\ disturbed = {}

Live(a) == actors[a].state = "live"

\* What an operation is about to write on the strength of what it has read.
WorkerHolds == IF w.pc = "idle" THEN {} ELSE w.ids

Held == WorkerHolds \cup UNION {req[r].actors : r \in Request}

\* An operation on the actors S begins, or breaks off.
Begins(S) == disturbed' = disturbed \cup (S \cap Held)

BreaksOff(S) == disturbed' = disturbed \cup S

\* put_bytes under a new key.
Upload(a) ==
    /\ uploads < MaxUploads
    /\ uploads' = uploads + 1
    /\ blobs' = blobs \cup {Image(a, uploads + 1)}
-----------------------------------------------------------------------------
(***************************************************************************)
(* The actor worker, once the frames of a torrent are analysed.            *)
(***************************************************************************)

\* The clusters match some of the actors with evidence; the others are new.
LoadActors(t) ==
    /\ w.pc = "idle"
    /\ \E ids \in SUBSET {a \in Actor : \/ Live(a) /\ actors[a].evidence
                                        \/ actors[a].state = "unused"} :
        /\ w' = [w EXCEPT !.pc = "next", !.torrent = t, !.seen = actors, !.ids = ids,
                          !.todo = ids]
        /\ actors' = [a \in Actor |->
                        IF a \in ids /\ actors[a].state = "unused"
                        THEN [actors[a] EXCEPT !.state = "reserved"] ELSE actors[a]]
        /\ Begins(ids)
    /\ UNCHANGED <<system, user, blobs, uploads, req>>

New(a) == w.seen[a].state = "unused"

\* _persist_identity of a new actor: the image, then the record.
UploadProfile(a) ==
    /\ w.pc = "next"
    /\ a \in w.todo
    /\ New(a)
    /\ Upload(a)
    /\ w' = [w EXCEPT !.pc = "insert", !.actor = a, !.image = uploads + 1]
    /\ UNCHANGED <<actors, system, user, req, disturbed>>

InsertActor ==
    /\ w.pc = "insert"
    /\ actors' = [actors EXCEPT ![w.actor] = [state |-> "live", image |-> w.image,
                                              source |-> "system", evidence |-> TRUE]]
    /\ w' = [w EXCEPT !.pc = "next", !.todo = @ \ {w.actor}]
    /\ UNCHANGED <<system, user, blobs, uploads, req, disturbed>>

\* ... or it raises: the image is deleted and the analysis fails.
InsertRaises ==
    /\ w.pc = "insert"
    /\ blobs' = blobs \ {Image(w.actor, w.image)}
    /\ w' = [w EXCEPT !.pc = "idle"]
    /\ BreaksOff(w.ids)
    /\ UNCHANGED <<actors, system, user, uploads, req>>

\* _persist_identity of a known actor.  Without it the analysis fails.  A
\* system profile may be worth improving; an admin's is not touched.
UpdateEvidence(a) ==
    /\ w.pc = "next"
    /\ a \in w.todo
    /\ ~New(a)
    /\ IF Live(a)
       THEN /\ \/ w' = [w EXCEPT !.todo = @ \ {a}]
               \/ w.seen[a].source = "system" /\ w' = [w EXCEPT !.pc = "improve", !.actor = a]
            /\ UNCHANGED disturbed
       ELSE /\ w' = [w EXCEPT !.pc = "idle"]
            /\ BreaksOff(w.ids)
    /\ UNCHANGED <<actors, system, user, blobs, uploads, req>>

UploadImprovement ==
    /\ w.pc = "improve"
    /\ Upload(w.actor)
    /\ w' = [w EXCEPT !.pc = "swap", !.image = uploads + 1]
    /\ UNCHANGED <<actors, system, user, req, disturbed>>

Unchanged_Fault(d, seen) == TRUE

\* The filter of _improve_system_profile.
Unchanged(d, seen) == d.image = seen.image /\ d.source = "system"

SwapProfile ==
    LET a == w.actor
        matched == Live(a) /\ Unchanged(actors[a], w.seen[a]) IN
    /\ w.pc = "swap"
    /\ actors' = IF matched THEN [actors EXCEPT ![a].image = w.image, ![a].source = "system"]
                            ELSE actors
    /\ w' = [w EXCEPT !.pc = "clean", !.image = IF matched THEN w.seen[a].image ELSE @]
    /\ UNCHANGED <<system, user, blobs, uploads, req, disturbed>>

\* The image that was replaced, or the one that came too late.
CleanProfile ==
    /\ w.pc = "clean"
    /\ blobs' = blobs \ {Image(w.actor, w.image)}
    /\ w' = [w EXCEPT !.pc = "next", !.todo = @ \ {w.actor}]
    /\ UNCHANGED <<actors, system, user, uploads, req, disturbed>>

\* The update at the end of _process, unless it is discarded (ActorAnalysis).
Assign(discarded) ==
    /\ w.pc = "next"
    /\ w.todo = {}
    /\ system' = IF discarded THEN system ELSE [system EXCEPT ![w.torrent] = w.ids]
    /\ w' = [w EXCEPT !.pc = "idle"]
    /\ UNCHANGED <<actors, user, blobs, uploads, req, disturbed>>

\* A command raises, or the worker dies.
WorkerBreaks ==
    /\ w.pc # "idle"
    /\ w' = [w EXCEPT !.pc = "idle"]
    /\ BreaksOff(w.ids)
    /\ UNCHANGED <<actors, system, user, blobs, uploads, req>>
-----------------------------------------------------------------------------
(***************************************************************************)
(* The web application.                                                    *)
(***************************************************************************)

Done(r) == req' = [req EXCEPT ![r] = NoRequest]

Starts(r, pc, S, t, old) ==
    req' = [req EXCEPT ![r] = [NoRequest EXCEPT !.pc = pc, !.actors = S, !.torrent = t,
                                                !.old = old]]

\* createActor: the image, then the record.
CreateUploads(r, a) ==
    /\ req[r].pc = "idle"
    /\ actors[a].state = "unused"
    /\ Upload(a)
    /\ actors' = [actors EXCEPT ![a].state = "reserved"]
    /\ req' = [req EXCEPT ![r] = [NoRequest EXCEPT !.pc = "create", !.actors = {a},
                                                   !.image = uploads + 1]]
    /\ Begins({a})
    /\ UNCHANGED <<system, user, w>>

Created_Fault(n) == [state |-> "live", image |-> n, evidence |-> FALSE]

Created(n) == [state |-> "live", image |-> n, source |-> "admin", evidence |-> FALSE]

CreateActor(r, a) ==
    /\ req[r].pc = "create"
    /\ a \in req[r].actors
    /\ actors' = [actors EXCEPT ![a] = Created(req[r].image)]
    /\ Done(r)
    /\ UNCHANGED <<system, user, blobs, uploads, w, disturbed>>

\* The name is taken.
CreateConflicts(r, a) ==
    /\ req[r].pc = "create"
    /\ a \in req[r].actors
    /\ blobs' = blobs \ {Image(a, req[r].image)}
    /\ Done(r)
    /\ UNCHANGED <<actors, system, user, uploads, w, disturbed>>

\* updateActor with a new image.  Without one it leaves this state alone.
UpdateReads(r, a) ==
    /\ req[r].pc = "idle"
    /\ Live(a)
    /\ Starts(r, "upload", {a}, NoTorrent, actors[a].image)
    /\ Begins({a})
    /\ UNCHANGED <<actors, system, user, blobs, uploads, w>>

UpdateUploads(r, a) ==
    /\ req[r].pc = "upload"
    /\ a \in req[r].actors
    /\ Upload(a)
    /\ req' = [req EXCEPT ![r].pc = "update", ![r].image = uploads + 1]
    /\ UNCHANGED <<actors, system, user, w, disturbed>>

Obsolete_Fault(r, updated) == req[r].old

\* What is left to delete: the old image, or the new one after a failure.
Obsolete(r, updated) == IF updated THEN req[r].old ELSE req[r].image

UpdateActor(r, a, conflict) ==
    LET updated == Live(a) /\ ~conflict IN
    /\ req[r].pc = "update"
    /\ a \in req[r].actors
    /\ actors' = IF updated
                 THEN [actors EXCEPT ![a].image = req[r].image, ![a].source = "admin"]
                 ELSE actors
    /\ req' = [req EXCEPT ![r].pc = "clean", ![r].image = Obsolete(r, updated)]
    /\ UNCHANGED <<system, user, blobs, uploads, w, disturbed>>

\* The last step of updateActor and of deleteActor.
DeleteImage(r, a) ==
    /\ req[r].pc = "clean"
    /\ a \in req[r].actors
    /\ blobs' = blobs \ {Image(a, req[r].image)}
    /\ Done(r)
    /\ UNCHANGED <<actors, system, user, uploads, w, disturbed>>

\* deleteActor
DeleteReads(r, a) ==
    /\ req[r].pc = "idle"
    /\ Live(a)
    /\ req' = [req EXCEPT ![r] = [NoRequest EXCEPT !.pc = "delete", !.actors = {a},
                                                   !.image = actors[a].image,
                                                   !.record = TRUE, !.pull = Torrent]]
    /\ Begins({a})
    /\ UNCHANGED <<actors, system, user, blobs, uploads, w>>

\* deleteOne and updateMany run side by side, the latter torrent by torrent.
DeleteRecord(r, a) ==
    /\ req[r].pc = "delete"
    /\ a \in req[r].actors
    /\ req[r].record
    /\ actors' = [actors EXCEPT ![a].state = "deleted"]
    /\ req' = [req EXCEPT ![r].record = FALSE]
    /\ UNCHANGED <<system, user, blobs, uploads, w, disturbed>>

PullFrom(r, a, t) ==
    /\ req[r].pc = "delete"
    /\ a \in req[r].actors
    /\ t \in req[r].pull
    /\ system' = [system EXCEPT ![t] = @ \ {a}]
    /\ user' = [user EXCEPT ![t] = @ \ {a}]
    /\ req' = [req EXCEPT ![r].pull = @ \ {t}]
    /\ UNCHANGED <<actors, blobs, uploads, w, disturbed>>

Removed_Fault(r) == ~req[r].record

Removed(r) == ~req[r].record /\ req[r].pull = {}

RecordGone(r) ==
    /\ req[r].pc = "delete"
    /\ Removed(r)
    /\ req' = [req EXCEPT ![r].pc = "clean"]
    /\ UNCHANGED <<actors, system, user, blobs, uploads, w, disturbed>>

\* createVideo and updateVideo: resolveActorIds, then the update.
ResolveActors(r, t) ==
    /\ req[r].pc = "idle"
    /\ \E S \in SUBSET {a \in Actor : Live(a)} :
          /\ Starts(r, "attribute", S, t, 0)
          /\ Begins(S)
    /\ UNCHANGED <<actors, system, user, blobs, uploads, w>>

AttributeActors(r) ==
    /\ req[r].pc = "attribute"
    /\ \/ user' = [user EXCEPT ![req[r].torrent] = req[r].actors]
       \/ UNCHANGED user   \* the video is gone, or has these actors
    /\ Done(r)
    /\ UNCHANGED <<actors, system, blobs, uploads, w, disturbed>>

RequestBreaks(r) ==
    /\ req[r].pc # "idle"
    /\ Done(r)
    /\ BreaksOff(req[r].actors)
    /\ UNCHANGED <<actors, system, user, blobs, uploads, w>>
-----------------------------------------------------------------------------
WorkerStep ==
    \/ \E t \in Torrent : LoadActors(t)
    \/ \E a \in Actor : UploadProfile(a) \/ UpdateEvidence(a)
    \/ InsertActor \/ InsertRaises
    \/ UploadImprovement \/ SwapProfile \/ CleanProfile
    \/ \E discarded \in BOOLEAN : Assign(discarded)
    \/ WorkerBreaks

RequestStep(r) ==
    \/ \E a \in Actor :
         \/ CreateUploads(r, a) \/ CreateActor(r, a) \/ CreateConflicts(r, a)
         \/ UpdateReads(r, a) \/ UpdateUploads(r, a)
         \/ \E conflict \in BOOLEAN : UpdateActor(r, a, conflict)
         \/ DeleteReads(r, a) \/ DeleteRecord(r, a) \/ DeleteImage(r, a)
         \/ \E t \in Torrent : PullFrom(r, a, t)
    \/ RecordGone(r)
    \/ \E t \in Torrent : ResolveActors(r, t)
    \/ AttributeActors(r)
    \/ RequestBreaks(r)

Next == WorkerStep \/ \E r \in Request : RequestStep(r)

Spec == Init /\ [][Next]_vars
-----------------------------------------------------------------------------
(***************************************************************************)
(* Properties.                                                             *)
(***************************************************************************)

\* An actor's profile image exists: whoever replaces it uploads first and
\* deletes only what it has replaced or failed to store, also when two
\* administrators and the worker replace the same image at once.
ProfileExists ==
    \A a \in Actor : Live(a) => Image(a, actors[a].image) \in blobs

\* docs/data-model.md: automatic analysis never "replaces an admin-managed
\* profile image", however old the actor is that the worker has loaded.
AdminImageKept ==
    [][\A a \in Actor :
          Live(a) /\ actors[a].source = "admin" /\ UNCHANGED req
             => actors'[a].image = actors[a].image]_vars

\* An actor nobody is at work on, and whose operations came one after another
\* and to an end, has its one image; a deleted one has none and is attributed
\* to no torrent.
NothingLeftBehind ==
    \A a \in Actor \ (disturbed \cup Held) :
        /\ ImagesOf(a) = IF Live(a) THEN {Image(a, actors[a].image)} ELSE {}
        /\ actors[a].state = "deleted" =>
              \A t \in Torrent : a \notin system[t] \cup user[t]

-----------------------------------------------------------------------------
(***************************************************************************)
(* Why ProfileExists and AdminImageKept hold: the inductive invariant.  An *)
(* upload is pending until a record refers to it or its owner deletes it;  *)
(* what anyone has read, or is to delete, is pending nowhere.              *)
(***************************************************************************)

WorkerPending == w.pc \in {"insert", "swap"}

RequestPending(r) == req[r].pc \in {"create", "update"}

Settled(n) ==
    /\ n <= uploads
    /\ WorkerPending => n # w.image
    /\ \A r \in Request : RequestPending(r) => n # req[r].image

ReadIsSettled ==
    /\ \A a \in Actor : Settled(actors[a].image)
    /\ \A a \in Actor : Settled(w.seen[a].image)
    /\ \A r \in Request : Settled(req[r].old)

PendingExists ==
    /\ WorkerPending =>
          /\ w.image \in 1 .. uploads
          /\ Image(w.actor, w.image) \in blobs
          /\ \A r \in Request : RequestPending(r) => req[r].image # w.image
    /\ \A r \in Request : RequestPending(r) =>
          /\ req[r].image \in 1 .. uploads
          /\ \A a \in req[r].actors : Image(a, req[r].image) \in blobs
          /\ \A s \in Request \ {r} : RequestPending(s) => req[s].image # req[r].image

\* The image n of the actor a may be deleted.
Disposable(a, n) == Settled(n) /\ ~(Live(a) /\ actors[a].image = n)

DoomedIsDisposable ==
    /\ w.pc = "clean" => Disposable(w.actor, w.image)
    /\ \A r \in Request : req[r].pc = "delete" => Settled(req[r].image)
    /\ \A r \in Request, a \in Actor :
          (a \in req[r].actors) /\ (req[r].pc = "clean" \/ (req[r].pc = "delete" /\ ~req[r].record))
             => Disposable(a, req[r].image)

\* Only an attribution is about several actors.
OneActor ==
    \A r \in Request : req[r].pc # "attribute" => \A a, b \in req[r].actors : a = b

\* An actor that is being created is live for nobody yet.
CreatedOnce ==
    /\ w.pc # "idle" => \A a \in w.todo : New(a) => actors[a].state = "reserved"
    /\ w.pc = "insert" => w.actor \in w.todo /\ New(w.actor)
    /\ \A r \in Request : req[r].pc = "delete" =>
          \A a \in req[r].actors : actors[a].state \in {"live", "deleted"}
    /\ \A r \in Request : req[r].pc = "create" =>
          \A a \in req[r].actors :
             /\ actors[a].state = "reserved"
             /\ w.pc # "idle" /\ a \in w.todo => ~New(a)
             /\ \A s \in Request \ {r} : req[s].pc = "create" => a \notin req[s].actors

IInv ==
    /\ TypeOK /\ OneActor /\ CreatedOnce
    /\ ProfileExists /\ ReadIsSettled /\ PendingExists /\ DoomedIsDisposable
=============================================================================
