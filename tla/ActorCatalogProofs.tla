------------------------- MODULE ActorCatalogProofs -------------------------
(***************************************************************************)
(* ActorCatalog, for every set of actors, torrents and requests and every  *)
(* number of uploads: a live actor's profile image exists, automatic       *)
(* analysis never replaces an administrator's, and nothing is left behind. *)
(***************************************************************************)
EXTENDS ActorCatalog, TLAPS

\* Image numbers; 0 is the image of an actor that does not exist.
Numbers == 0 .. MaxUploads

\* An upload has a number of its own and its blob the type of one.
LEMMA UploadType ==
  ASSUME TypeOK, NEW a \in Actor, Upload(a)
  PROVE  uploads' \in Numbers /\ uploads + 1 \in Numbers /\ blobs' \subseteq Images
<1>1. uploads + 1 \in Numbers /\ 0 \in Numbers
  BY CatalogAssumption DEF Upload, TypeOK, Numbers
<1>2. Image(a, uploads + 1) \in Images
  BY <1>1 DEF Image, Images, Numbers
<1> QED BY <1>1, <1>2 DEF Upload, TypeOK

\* Changes of an actor's record.
LEMMA DocTypes ==
  ASSUME NEW d \in ActorDoc, NEW n \in Numbers, NEW s \in {"unused", "reserved", "live", "deleted"},
         NEW c \in {"system", "admin"}
  PROVE  /\ d.image \in Numbers
         /\ [d EXCEPT !.state = s] \in ActorDoc
         /\ [d EXCEPT !.image = n, !.source = c] \in ActorDoc
BY DEF ActorDoc, Numbers

\* Changes of the worker's state.
LEMMA WorkerTypes ==
  ASSUME NEW x \in Worker, NEW S \in SUBSET Actor, NEW n \in Numbers, NEW a \in Actor,
         NEW pc \in {"idle", "next", "insert", "improve", "swap", "clean"}
  PROVE  /\ x.image \in Numbers /\ x.ids \in SUBSET Actor /\ x.todo \in SUBSET Actor
         /\ x.actor \in Actor /\ x.seen \in [Actor -> ActorDoc]
         /\ x.torrent \in Torrent \cup {NoTorrent}
         /\ [x EXCEPT !.pc = pc] \in Worker
         /\ [x EXCEPT !.todo = S] \in Worker
         /\ [x EXCEPT !.pc = pc, !.todo = S] \in Worker
         /\ [x EXCEPT !.pc = pc, !.image = n] \in Worker
         /\ [x EXCEPT !.pc = pc, !.actor = a] \in Worker
         /\ [x EXCEPT !.pc = pc, !.actor = a, !.image = n] \in Worker
BY DEF Worker, Numbers

\* The worker's state when it has loaded the actors.
LEMMA LoadedType ==
  ASSUME NEW x \in Worker, NEW S \in SUBSET Actor, NEW t \in Torrent, NEW f \in [Actor -> ActorDoc]
  PROVE  [x EXCEPT !.pc = "next", !.torrent = t, !.seen = f, !.ids = S, !.todo = S] \in Worker
BY DEF Worker

\* Changes of a request.
LEMMA RequestTypes ==
  ASSUME NEW x \in RequestState, NEW n \in Numbers, NEW pc \in Steps, NEW P \in SUBSET Torrent,
         NEW b \in BOOLEAN
  PROVE  /\ x.image \in Numbers /\ x.old \in Numbers /\ x.actors \in SUBSET Actor
         /\ x.pull \in SUBSET Torrent /\ x.torrent \in Torrent \cup {NoTorrent}
         /\ [x EXCEPT !.pc = pc] \in RequestState
         /\ [x EXCEPT !.pc = pc, !.image = n] \in RequestState
         /\ [x EXCEPT !.record = b] \in RequestState
         /\ [x EXCEPT !.pull = P] \in RequestState
BY DEF RequestState, Numbers

\* A request that is not running.
LEMMA NoRequestType == NoRequest \in RequestState
<1>1. 0 \in Numbers
  BY CatalogAssumption DEF Numbers
<1>2. {} \in SUBSET Actor /\ {} \in SUBSET Torrent
  OBVIOUS
<1> QED BY <1>1, <1>2 DEF NoRequest, RequestState, Numbers, Steps

\* A request that begins.
LEMMA StartTypes ==
  ASSUME NEW S \in SUBSET Actor, NEW t \in Torrent \cup {NoTorrent}, NEW n \in Numbers,
         NEW pc \in Steps
  PROVE  /\ [NoRequest EXCEPT !.pc = pc, !.actors = S, !.torrent = t, !.old = n] \in RequestState
         /\ [NoRequest EXCEPT !.pc = pc, !.actors = S, !.image = n] \in RequestState
         /\ [NoRequest EXCEPT !.pc = pc, !.actors = S, !.image = n, !.record = TRUE,
                              !.pull = Torrent] \in RequestState
<1>1. Torrent \in SUBSET Torrent
  OBVIOUS
<1> QED BY <1>1, NoRequestType DEF RequestState, Numbers

\* A record may be replaced by another of its type.
LEMMA Replaced ==
  ASSUME TypeOK
  PROVE  /\ \A a \in Actor, d \in ActorDoc : [actors EXCEPT ![a] = d] \in [Actor -> ActorDoc]
         /\ \A r \in Request, x \in RequestState :
               [req EXCEPT ![r] = x] \in [Request -> RequestState]
         /\ \A a \in Actor : actors[a] \in ActorDoc
         /\ \A r \in Request : req[r] \in RequestState
BY DEF TypeOK

\* Every step of the worker keeps the types.
LEMMA WorkerType ==
  ASSUME TypeOK, WorkerStep PROVE TypeOK'
<1> USE DEF Numbers
<1>0. /\ w \in Worker /\ actors \in [Actor -> ActorDoc] /\ \A a \in Actor : actors[a] \in ActorDoc
      /\ w.image \in Numbers /\ w.ids \in SUBSET Actor /\ w.todo \in SUBSET Actor
      /\ w.actor \in Actor /\ w.seen \in [Actor -> ActorDoc]
      /\ \A a \in Actor : w.seen[a].image \in Numbers
      /\ \A r \in Request : req[r].actors \in SUBSET Actor
  <2>1. w \in Worker /\ actors \in [Actor -> ActorDoc]
    BY DEF TypeOK
  <2>2. w.seen \in [Actor -> ActorDoc]
    BY <2>1 DEF Worker
  <2>3. \A a \in Actor : w.seen[a].image \in Numbers
    BY <2>2 DEF ActorDoc
  <2>4. /\ w.image \in Numbers /\ w.ids \in SUBSET Actor /\ w.todo \in SUBSET Actor
        /\ w.actor \in Actor
    BY <2>1 DEF Worker
  <2>5. \A r \in Request : req[r].actors \in SUBSET Actor
    BY DEF TypeOK, RequestState
  <2> QED BY <2>1, <2>2, <2>3, <2>4, <2>5, Replaced
<1>h. Held \subseteq Actor
  BY <1>0 DEF Held, WorkerHolds
<1>1. ASSUME NEW t \in Torrent, LoadActors(t) PROVE TypeOK'
  <2>1. PICK ids \in SUBSET Actor :
          /\ w' = [w EXCEPT !.pc = "next", !.torrent = t, !.seen = actors, !.ids = ids,
                            !.todo = ids]
          /\ actors' = [a \in Actor |->
                          IF a \in ids /\ actors[a].state = "unused"
                          THEN [actors[a] EXCEPT !.state = "reserved"] ELSE actors[a]]
          /\ Begins(ids)
    BY <1>1 DEF LoadActors
  <2>2. w' \in Worker
    BY <2>1, <1>0, LoadedType
  <2>3. \A a \in Actor : [actors[a] EXCEPT !.state = "reserved"] \in ActorDoc
    BY <1>0, DocTypes, CatalogAssumption
  <2>4. actors' \in [Actor -> ActorDoc]
    BY <2>1, <2>3, <1>0
  <2>5. disturbed' \subseteq Actor
    BY <2>1, <1>h DEF Begins, TypeOK
  <2> QED BY <1>1, <2>2, <2>4, <2>5 DEF LoadActors, TypeOK
<1>2. ASSUME NEW a \in Actor, UploadProfile(a) PROVE TypeOK'
  BY <1>2, <1>0, UploadType, WorkerTypes DEF UploadProfile, TypeOK
<1>3. ASSUME NEW a \in Actor, UpdateEvidence(a) PROVE TypeOK'
  <2>1. w' \in Worker /\ disturbed' \subseteq Actor
    <3>1. \/ w' = [w EXCEPT !.todo = w.todo \ {a}]
          \/ w' = [w EXCEPT !.pc = "improve", !.actor = a]
          \/ w' = [w EXCEPT !.pc = "idle"]
      BY <1>3 DEF UpdateEvidence
    <3>2. w.todo \ {a} \in SUBSET Actor /\ 0 \in Numbers
      BY <1>0, CatalogAssumption
    <3>3. w' \in Worker
      <4>1. [w EXCEPT !.todo = w.todo \ {a}] \in Worker
        BY <1>0, <3>2, WorkerTypes
      <4>2. [w EXCEPT !.pc = "improve", !.actor = a] \in Worker
        BY <1>0, <3>2, WorkerTypes
      <4>3. [w EXCEPT !.pc = "idle"] \in Worker
        BY <1>0, <3>2, WorkerTypes
      <4> QED BY <3>1, <4>1, <4>2, <4>3
    <3>4. disturbed' \subseteq Actor
      BY <1>3, <1>0 DEF UpdateEvidence, BreaksOff, TypeOK
    <3> QED BY <3>3, <3>4
  <2> QED BY <1>3, <2>1 DEF UpdateEvidence, TypeOK
<1>4. ASSUME InsertActor PROVE TypeOK'
  <2>1. w' \in Worker
    BY <1>4, <1>0, WorkerTypes DEF InsertActor
  <2>2. [state |-> "live", image |-> w.image, source |-> "system", evidence |-> TRUE] \in ActorDoc
    BY <1>0 DEF ActorDoc
  <2> QED BY <1>4, <2>1, <2>2, Replaced, <1>0 DEF InsertActor, TypeOK
<1>5. ASSUME InsertRaises PROVE TypeOK'
  BY <1>5, <1>0, WorkerTypes DEF InsertRaises, BreaksOff, TypeOK
<1>6. ASSUME UploadImprovement PROVE TypeOK'
  BY <1>6, <1>0, UploadType, WorkerTypes DEF UploadImprovement, TypeOK
<1>7. ASSUME SwapProfile PROVE TypeOK'
  <2>1. w' \in Worker
    <3>1. \E n \in Numbers : w' = [w EXCEPT !.pc = "clean", !.image = n]
      BY <1>7, <1>0 DEF SwapProfile
    <3>2. \A n \in Numbers : [w EXCEPT !.pc = "clean", !.image = n] \in Worker
      BY <1>0, WorkerTypes
    <3> QED BY <3>1, <3>2
  <2>2. [actors[w.actor] EXCEPT !.image = w.image, !.source = "system"] \in ActorDoc
    BY <1>0, DocTypes
  <2>3. \/ actors' = actors
        \/ actors' = [actors EXCEPT ![w.actor] =
                        [actors[w.actor] EXCEPT !.image = w.image, !.source = "system"]]
    BY <1>7, <1>0 DEF SwapProfile
  <2> QED BY <1>7, <2>1, <2>2, <2>3, Replaced, <1>0 DEF SwapProfile, TypeOK
<1>8. ASSUME CleanProfile PROVE TypeOK'
  BY <1>8, <1>0, WorkerTypes DEF CleanProfile, TypeOK
<1>9. ASSUME NEW d \in BOOLEAN, Assign(d) PROVE TypeOK'
  <2>1. w' \in Worker
    BY <1>9, <1>0, WorkerTypes DEF Assign
  <2> QED BY <1>9, <1>0, <2>1 DEF Assign, TypeOK
<1>10. ASSUME WorkerBreaks PROVE TypeOK'
  BY <1>10, <1>0, WorkerTypes DEF WorkerBreaks, BreaksOff, TypeOK
<1> QED
  BY <1>1, <1>2, <1>3, <1>4, <1>5, <1>6, <1>7, <1>8, <1>9, <1>10 DEF WorkerStep

\* Every step of a request keeps the types.
LEMMA RequestType ==
  ASSUME TypeOK, NEW r \in Request, RequestStep(r) PROVE TypeOK'
<1> USE DEF Numbers
<1>0. /\ req[r] \in RequestState /\ 0 \in Numbers /\ req \in [Request -> RequestState]
      /\ req[r].image \in Numbers /\ req[r].old \in Numbers /\ req[r].actors \in SUBSET Actor
      /\ req[r].pull \in SUBSET Torrent
      /\ \A a \in Actor : actors[a] \in ActorDoc /\ actors[a].image \in Numbers
  <2>1. req[r] \in RequestState /\ \A a \in Actor : actors[a] \in ActorDoc
    BY Replaced
  <2> QED BY <2>1, CatalogAssumption DEF RequestState, ActorDoc, TypeOK
<1>h. Held \subseteq Actor
  <2>1. w.ids \in SUBSET Actor /\ \A s \in Request : req[s].actors \in SUBSET Actor
    BY DEF Worker, RequestState, TypeOK
  <2> QED BY <2>1 DEF Held, WorkerHolds
<1>b. NoRequest \in RequestState
  BY NoRequestType
<1>d. Done(r) => req' \in [Request -> RequestState]
  BY <1>b, Replaced DEF Done
<1>1. ASSUME NEW a \in Actor, CreateUploads(r, a) PROVE TypeOK'
  <2>1. uploads' \in Numbers /\ uploads + 1 \in Numbers /\ blobs' \subseteq Images
    BY <1>1, UploadType DEF CreateUploads
  <2>2. [NoRequest EXCEPT !.pc = "create", !.actors = {a}, !.image = uploads + 1] \in RequestState
    <3>1. {a} \in SUBSET Actor /\ NoTorrent \in Torrent \cup {NoTorrent} /\ "create" \in Steps
      BY DEF Steps
    <3> QED BY <2>1, <3>1, StartTypes
  <2>3. [actors[a] EXCEPT !.state = "reserved"] \in ActorDoc
    BY <1>0, DocTypes
  <2>4. actors' = [actors EXCEPT ![a] = [actors[a] EXCEPT !.state = "reserved"]]
    BY <1>1 DEF CreateUploads
  <2>5. disturbed' \subseteq Actor
    BY <1>1, <1>h DEF CreateUploads, Begins, TypeOK
  <2>6. req' \in [Request -> RequestState] /\ actors' \in [Actor -> ActorDoc]
    BY <1>1, <2>2, <2>3, <2>4, Replaced DEF CreateUploads
  <2> QED BY <1>1, <2>1, <2>5, <2>6 DEF CreateUploads, TypeOK
<1>2. ASSUME NEW a \in Actor, CreateActor(r, a) PROVE TypeOK'
  <2>1. Created(req[r].image) \in ActorDoc
    BY <1>0 DEF Created, ActorDoc
  <2> QED BY <1>2, <1>d, <2>1, Replaced DEF CreateActor, TypeOK
<1>3. ASSUME NEW a \in Actor, CreateConflicts(r, a) PROVE TypeOK'
  BY <1>3, <1>d DEF CreateConflicts, TypeOK
<1>4. ASSUME NEW a \in Actor, UpdateReads(r, a) PROVE TypeOK'
  <2>1. req' \in [Request -> RequestState]
    <3>1. [NoRequest EXCEPT !.pc = "upload", !.actors = {a}, !.torrent = NoTorrent,
                            !.old = actors[a].image] \in RequestState
      <4>1. {a} \in SUBSET Actor /\ NoTorrent \in Torrent \cup {NoTorrent} /\ "upload" \in Steps
        BY DEF Steps
      <4> QED BY <1>0, <4>1, StartTypes
    <3> QED BY <1>4, <3>1, Replaced DEF UpdateReads, Starts
  <2>2. disturbed' \subseteq Actor
    BY <1>4, <1>h DEF UpdateReads, Begins, TypeOK
  <2> QED BY <1>4, <2>1, <2>2 DEF UpdateReads, TypeOK
<1>5. ASSUME NEW a \in Actor, UpdateUploads(r, a) PROVE TypeOK'
  <2>1. uploads' \in Numbers /\ uploads + 1 \in Numbers /\ blobs' \subseteq Images
    BY <1>5, UploadType DEF UpdateUploads
  <2>2. [req[r] EXCEPT !.pc = "update", !.image = uploads + 1] \in RequestState
    BY <1>0, <2>1, RequestTypes DEF Steps
  <2>3. req' = [req EXCEPT ![r] = [req[r] EXCEPT !.pc = "update", !.image = uploads + 1]]
    BY <1>5, <1>0 DEF UpdateUploads
  <2>4. req' \in [Request -> RequestState]
    BY <2>2, <2>3, Replaced
  <2> QED BY <1>5, <2>1, <2>4 DEF UpdateUploads, TypeOK
<1>6. ASSUME NEW a \in Actor, NEW c \in BOOLEAN, UpdateActor(r, a, c) PROVE TypeOK'
  <2>1. \E n \in Numbers : req' = [req EXCEPT ![r] = [req[r] EXCEPT !.pc = "clean", !.image = n]]
    BY <1>6, <1>0 DEF UpdateActor, Obsolete
  <2>2. req' \in [Request -> RequestState]
    <3>1. PICK n \in Numbers :
            req' = [req EXCEPT ![r] = [req[r] EXCEPT !.pc = "clean", !.image = n]]
      BY <2>1
    <3>2. [req[r] EXCEPT !.pc = "clean", !.image = n] \in RequestState
      BY <1>0, RequestTypes DEF Steps
    <3> QED BY <3>1, <3>2, Replaced
  <2>3. [actors[a] EXCEPT !.image = req[r].image, !.source = "admin"] \in ActorDoc
    BY <1>0, DocTypes
  <2>4. \/ actors' = actors
        \/ actors' = [actors EXCEPT ![a] =
                        [actors[a] EXCEPT !.image = req[r].image, !.source = "admin"]]
    BY <1>6 DEF UpdateActor
  <2>5. actors' \in [Actor -> ActorDoc]
    BY <2>3, <2>4, Replaced DEF TypeOK
  <2> QED BY <1>6, <2>2, <2>5 DEF UpdateActor, TypeOK
<1>7. ASSUME NEW a \in Actor, DeleteReads(r, a) PROVE TypeOK'
  <2>1. [NoRequest EXCEPT !.pc = "delete", !.actors = {a}, !.image = actors[a].image,
                          !.record = TRUE, !.pull = Torrent] \in RequestState
    <3>1. {a} \in SUBSET Actor /\ NoTorrent \in Torrent \cup {NoTorrent} /\ "delete" \in Steps
      BY DEF Steps
    <3> QED BY <1>0, <3>1, StartTypes
  <2>2. req' \in [Request -> RequestState]
    BY <1>7, <2>1, Replaced DEF DeleteReads
  <2>3. disturbed' \subseteq Actor
    BY <1>7, <1>h DEF DeleteReads, Begins, TypeOK
  <2> QED BY <1>7, <2>2, <2>3 DEF DeleteReads, TypeOK
<1>8. ASSUME NEW a \in Actor, DeleteRecord(r, a) PROVE TypeOK'
  <2>1. [actors[a] EXCEPT !.state = "deleted"] \in ActorDoc
    BY <1>0, DocTypes
  <2>2. [req[r] EXCEPT !.record = FALSE] \in RequestState
    BY <1>0, RequestTypes DEF Steps
  <2>3. /\ actors' = [actors EXCEPT ![a] = [actors[a] EXCEPT !.state = "deleted"]]
        /\ req' = [req EXCEPT ![r] = [req[r] EXCEPT !.record = FALSE]]
    BY <1>8 DEF DeleteRecord
  <2>4. actors' \in [Actor -> ActorDoc] /\ req' \in [Request -> RequestState]
    BY <2>1, <2>2, <2>3, Replaced
  <2> QED BY <1>8, <2>4 DEF DeleteRecord, TypeOK
<1>9. ASSUME NEW a \in Actor, DeleteImage(r, a) PROVE TypeOK'
  BY <1>9, <1>d DEF DeleteImage, TypeOK
<1>10. ASSUME NEW a \in Actor, NEW t \in Torrent, PullFrom(r, a, t) PROVE TypeOK'
  <2>1. req[r].pull \ {t} \in SUBSET Torrent
    BY <1>0
  <2>2. [req[r] EXCEPT !.pull = req[r].pull \ {t}] \in RequestState
    BY <1>0, <2>1, RequestTypes DEF Steps
  <2>3. req' = [req EXCEPT ![r] = [req[r] EXCEPT !.pull = req[r].pull \ {t}]]
    BY <1>10 DEF PullFrom
  <2>4. req' \in [Request -> RequestState]
    BY <2>2, <2>3, Replaced
  <2>5. system' \in [Torrent -> SUBSET Actor] /\ user' \in [Torrent -> SUBSET Actor]
    BY <1>10 DEF PullFrom, TypeOK
  <2> QED BY <1>10, <2>4, <2>5 DEF PullFrom, TypeOK
<1>11. ASSUME RecordGone(r) PROVE TypeOK'
  <2>1. [req[r] EXCEPT !.pc = "clean"] \in RequestState
    BY <1>0, RequestTypes DEF Steps
  <2>2. req' = [req EXCEPT ![r] = [req[r] EXCEPT !.pc = "clean"]]
    BY <1>11 DEF RecordGone
  <2>3. req' \in [Request -> RequestState]
    BY <2>1, <2>2, Replaced
  <2> QED BY <1>11, <2>3 DEF RecordGone, TypeOK
<1>12. ASSUME NEW t \in Torrent, ResolveActors(r, t) PROVE TypeOK'
  <2>1. PICK S \in SUBSET Actor : Starts(r, "attribute", S, t, 0) /\ Begins(S)
    BY <1>12 DEF ResolveActors
  <2>2. [NoRequest EXCEPT !.pc = "attribute", !.actors = S, !.torrent = t, !.old = 0]
          \in RequestState
    BY <1>0, StartTypes DEF Steps
  <2>3. req' \in [Request -> RequestState]
    BY <2>1, <2>2, Replaced DEF Starts
  <2>4. disturbed' \subseteq Actor
    BY <2>1, <1>h DEF Begins, TypeOK
  <2> QED BY <1>12, <2>3, <2>4 DEF ResolveActors, TypeOK
<1>13. ASSUME AttributeActors(r) PROVE TypeOK'
  BY <1>13, <1>d, <1>0 DEF AttributeActors, TypeOK
<1>14. ASSUME RequestBreaks(r) PROVE TypeOK'
  BY <1>14, <1>d, <1>0 DEF RequestBreaks, BreaksOff, TypeOK
<1> QED
  BY <1>1, <1>2, <1>3, <1>4, <1>5, <1>6, <1>7, <1>8, <1>9, <1>10, <1>11, <1>12, <1>13, <1>14
  DEF RequestStep

-----------------------------------------------------------------------------
(***************************************************************************)
(* The steps, one conjunct of the invariant at a time.                     *)
(***************************************************************************)

Fields ==
    /\ actors \in [Actor -> ActorDoc] /\ w \in Worker /\ req \in [Request -> RequestState]
    /\ uploads \in Nat /\ w.image \in Nat /\ w.actor \in Actor /\ w.todo \subseteq Actor
    /\ \A a \in Actor : actors[a].image \in Nat /\ w.seen[a].image \in Nat
    /\ \A r \in Request :
          req[r].image \in Nat /\ req[r].old \in Nat /\ req[r].actors \subseteq Actor

\* What the steps below need of the types.
LEMMA FieldTypes == ASSUME TypeOK PROVE Fields
<1>1. /\ actors \in [Actor -> ActorDoc] /\ w \in Worker /\ req \in [Request -> RequestState]
      /\ uploads \in Nat
  BY CatalogAssumption DEF TypeOK
<1>2. \A a \in Actor : actors[a].image \in Nat
  BY <1>1, CatalogAssumption DEF ActorDoc
<1>3. /\ w.image \in Nat /\ w.actor \in Actor /\ w.todo \subseteq Actor
      /\ w.seen \in [Actor -> ActorDoc]
  BY <1>1, CatalogAssumption DEF Worker
<1>4. \A a \in Actor : w.seen[a].image \in Nat
  BY <1>3, CatalogAssumption DEF ActorDoc
<1>5. \A r \in Request :
        req[r].image \in Nat /\ req[r].old \in Nat /\ req[r].actors \subseteq Actor
  BY <1>1, CatalogAssumption DEF RequestState
<1> QED BY <1>1, <1>2, <1>3, <1>4, <1>5 DEF Fields

\* Evidence is of no concern to images; its update only moves the worker on.
LEMMA EvidenceStep ==
  ASSUME TypeOK, NEW a \in Actor, UpdateEvidence(a)
  PROVE  /\ w.pc = "next" /\ w'.pc \in {"next", "improve", "idle"}
         /\ w'.seen = w.seen /\ w'.todo \subseteq w.todo
         /\ UNCHANGED <<actors, blobs, uploads, req>>
<1>1. w \in Worker
  BY DEF TypeOK
<1>2. \/ w' = [w EXCEPT !.todo = w.todo \ {a}]
      \/ w' = [w EXCEPT !.pc = "improve", !.actor = a]
      \/ w' = [w EXCEPT !.pc = "idle"]
  BY DEF UpdateEvidence
<1>3. w.pc = "next"
  BY DEF UpdateEvidence
<1>4. w'.todo = w.todo \/ w'.todo = w.todo \ {a}
  BY <1>1, <1>2 DEF Worker
<1>5. w'.todo \subseteq w.todo
  BY <1>4
<1>6. w'.pc \in {"next", "improve", "idle"} /\ w'.seen = w.seen
  BY <1>1, <1>2, <1>3 DEF Worker
<1> QED BY <1>3, <1>5, <1>6 DEF UpdateEvidence

\* Only resolveActorIds is about several actors.
LEMMA OneActorStep ==
  ASSUME TypeOK, OneActor, Next
  PROVE  OneActor'
<1> USE DEF OneActor
<1>0. Fields
  BY FieldTypes
<1>1. ASSUME NEW t \in Torrent, LoadActors(t) PROVE OneActor'
  BY <1>0, <1>1 DEF Fields, LoadActors
<1>2. ASSUME NEW a \in Actor, UploadProfile(a) PROVE OneActor'
  BY <1>0, <1>2 DEF Fields, UploadProfile, Upload
<1>3. ASSUME NEW a \in Actor, UpdateEvidence(a) PROVE OneActor'
  BY <1>0, <1>3, EvidenceStep DEF Fields
<1>4. ASSUME InsertActor PROVE OneActor'
  BY <1>0, <1>4 DEF Fields, InsertActor
<1>5. ASSUME InsertRaises PROVE OneActor'
  BY <1>0, <1>5 DEF Fields, InsertRaises
<1>6. ASSUME UploadImprovement PROVE OneActor'
  BY <1>0, <1>6 DEF Fields, UploadImprovement, Upload
<1>7. ASSUME SwapProfile PROVE OneActor'
  BY <1>0, <1>7 DEF Fields, SwapProfile, Unchanged
<1>8. ASSUME CleanProfile PROVE OneActor'
  BY <1>0, <1>8 DEF Fields, CleanProfile
<1>9. ASSUME NEW d \in BOOLEAN, Assign(d) PROVE OneActor'
  BY <1>0, <1>9 DEF Fields, Assign
<1>10. ASSUME WorkerBreaks PROVE OneActor'
  BY <1>0, <1>10 DEF Fields, WorkerBreaks
<1>11. ASSUME NEW r \in Request, NEW a \in Actor, CreateUploads(r, a) PROVE OneActor'
  BY <1>0, <1>11 DEF Fields, CreateUploads, Upload, NoRequest
<1>12. ASSUME NEW r \in Request, NEW a \in Actor, CreateActor(r, a) PROVE OneActor'
  BY <1>0, <1>12 DEF Fields, CreateActor, Created, Done, NoRequest
<1>13. ASSUME NEW r \in Request, NEW a \in Actor, CreateConflicts(r, a) PROVE OneActor'
  BY <1>0, <1>13 DEF Fields, CreateConflicts, Done, NoRequest
<1>14. ASSUME NEW r \in Request, NEW a \in Actor, UpdateReads(r, a) PROVE OneActor'
  BY <1>0, <1>14 DEF Fields, UpdateReads, Starts, NoRequest
<1>15. ASSUME NEW r \in Request, NEW a \in Actor, UpdateUploads(r, a) PROVE OneActor'
  BY <1>0, <1>15 DEF Fields, UpdateUploads, Upload
<1>16. ASSUME NEW r \in Request, NEW a \in Actor, NEW c \in BOOLEAN, UpdateActor(r, a, c)
       PROVE  OneActor'
  BY <1>0, <1>16 DEF Fields, UpdateActor, Obsolete
<1>17. ASSUME NEW r \in Request, NEW a \in Actor, DeleteReads(r, a) PROVE OneActor'
  BY <1>0, <1>17 DEF Fields, DeleteReads, NoRequest
<1>18. ASSUME NEW r \in Request, NEW a \in Actor, DeleteRecord(r, a) PROVE OneActor'
  BY <1>0, <1>18 DEF Fields, DeleteRecord
<1>19. ASSUME NEW r \in Request, NEW a \in Actor, DeleteImage(r, a) PROVE OneActor'
  BY <1>0, <1>19 DEF Fields, DeleteImage, Done, NoRequest
<1>20. ASSUME NEW r \in Request, NEW a \in Actor, NEW t \in Torrent, PullFrom(r, a, t)
       PROVE  OneActor'
  BY <1>0, <1>20 DEF Fields, PullFrom
<1>21. ASSUME NEW r \in Request, RecordGone(r) PROVE OneActor'
  BY <1>0, <1>21 DEF Fields, RecordGone, Removed
<1>22. ASSUME NEW r \in Request, NEW t \in Torrent, ResolveActors(r, t) PROVE OneActor'
  BY <1>0, <1>22 DEF Fields, ResolveActors, Starts, NoRequest
<1>23. ASSUME NEW r \in Request, AttributeActors(r) PROVE OneActor'
  BY <1>0, <1>23 DEF Fields, AttributeActors, Done, NoRequest
<1>24. ASSUME NEW r \in Request, RequestBreaks(r) PROVE OneActor'
  BY <1>0, <1>24 DEF Fields, RequestBreaks, Done, NoRequest
<1> HIDE DEF OneActor
<1> QED
  BY <1>1, <1>2, <1>3, <1>4, <1>5, <1>6, <1>7, <1>8, <1>9, <1>10, <1>11, <1>12, <1>13,
     <1>14, <1>15, <1>16, <1>17, <1>18, <1>19, <1>20, <1>21, <1>22, <1>23, <1>24
  DEF Next, WorkerStep, RequestStep

\* An id is reserved once, and inserted by the one who reserved it.
LEMMA CreatedOnceStep ==
  ASSUME TypeOK, OneActor, CreatedOnce, Next
  PROVE  CreatedOnce'
<1> USE DEF OneActor, CreatedOnce, New, Live
<1>0. Fields
  BY FieldTypes
<1>1. ASSUME NEW t \in Torrent, LoadActors(t) PROVE CreatedOnce'
  BY <1>0, <1>1 DEF Fields, LoadActors
<1>2. ASSUME NEW a \in Actor, UploadProfile(a) PROVE CreatedOnce'
  BY <1>0, <1>2 DEF Fields, UploadProfile, Upload
<1>3. ASSUME NEW a \in Actor, UpdateEvidence(a) PROVE CreatedOnce'
  BY <1>0, <1>3, EvidenceStep DEF Fields
<1>4. ASSUME InsertActor PROVE CreatedOnce'
  BY <1>0, <1>4 DEF Fields, InsertActor
<1>5. ASSUME InsertRaises PROVE CreatedOnce'
  BY <1>0, <1>5 DEF Fields, InsertRaises
<1>6. ASSUME UploadImprovement PROVE CreatedOnce'
  BY <1>0, <1>6 DEF Fields, UploadImprovement, Upload
<1>7. ASSUME SwapProfile PROVE CreatedOnce'
  <2>1. \A b \in Actor : actors'[b].state = actors[b].state
    BY <1>0, <1>7 DEF Fields, ActorDoc, SwapProfile
  <2>2. w'.pc = "clean" /\ w'.seen = w.seen /\ w'.todo = w.todo /\ w.pc = "swap"
    BY <1>0, <1>7 DEF Fields, Worker, SwapProfile
  <2>3. UNCHANGED req
    BY <1>7 DEF SwapProfile
  <2> QED BY <1>0, <2>1, <2>2, <2>3 DEF Fields
<1>8. ASSUME CleanProfile PROVE CreatedOnce'
  BY <1>0, <1>8 DEF Fields, CleanProfile
<1>9. ASSUME NEW d \in BOOLEAN, Assign(d) PROVE CreatedOnce'
  BY <1>0, <1>9 DEF Fields, Assign
<1>10. ASSUME WorkerBreaks PROVE CreatedOnce'
  BY <1>0, <1>10 DEF Fields, WorkerBreaks
<1>11. ASSUME NEW r \in Request, NEW a \in Actor, CreateUploads(r, a) PROVE CreatedOnce'
  BY <1>0, <1>11 DEF Fields, CreateUploads, Upload, NoRequest
<1>12. ASSUME NEW r \in Request, NEW a \in Actor, CreateActor(r, a) PROVE CreatedOnce'
  BY <1>0, <1>12 DEF Fields, CreateActor, Created, Done, NoRequest
<1>13. ASSUME NEW r \in Request, NEW a \in Actor, CreateConflicts(r, a) PROVE CreatedOnce'
  BY <1>0, <1>13 DEF Fields, CreateConflicts, Done, NoRequest
<1>14. ASSUME NEW r \in Request, NEW a \in Actor, UpdateReads(r, a) PROVE CreatedOnce'
  BY <1>0, <1>14 DEF Fields, UpdateReads, Starts, NoRequest
<1>15. ASSUME NEW r \in Request, NEW a \in Actor, UpdateUploads(r, a) PROVE CreatedOnce'
  BY <1>0, <1>15 DEF Fields, UpdateUploads, Upload
<1>16. ASSUME NEW r \in Request, NEW a \in Actor, NEW c \in BOOLEAN, UpdateActor(r, a, c)
       PROVE  CreatedOnce'
  <2>1. \A b \in Actor : actors'[b].state = actors[b].state
    BY <1>0, <1>16 DEF Fields, ActorDoc, UpdateActor
  <2>2. \A s \in Request :
          req'[s].actors = req[s].actors /\ req'[s].pc \in {req[s].pc, "clean"}
    BY <1>0, <1>16 DEF Fields, RequestState, UpdateActor
  <2>3. UNCHANGED w
    BY <1>16 DEF UpdateActor
  <2> QED BY <1>0, <2>1, <2>2, <2>3 DEF Fields
<1>17. ASSUME NEW r \in Request, NEW a \in Actor, DeleteReads(r, a) PROVE CreatedOnce'
  BY <1>0, <1>17 DEF Fields, DeleteReads, NoRequest
<1>18. ASSUME NEW r \in Request, NEW a \in Actor, DeleteRecord(r, a) PROVE CreatedOnce'
  BY <1>0, <1>18 DEF Fields, DeleteRecord
<1>19. ASSUME NEW r \in Request, NEW a \in Actor, DeleteImage(r, a) PROVE CreatedOnce'
  BY <1>0, <1>19 DEF Fields, DeleteImage, Done, NoRequest
<1>20. ASSUME NEW r \in Request, NEW a \in Actor, NEW t \in Torrent, PullFrom(r, a, t)
       PROVE  CreatedOnce'
  BY <1>0, <1>20 DEF Fields, PullFrom
<1>21. ASSUME NEW r \in Request, RecordGone(r) PROVE CreatedOnce'
  BY <1>0, <1>21 DEF Fields, RecordGone, Removed
<1>22. ASSUME NEW r \in Request, NEW t \in Torrent, ResolveActors(r, t) PROVE CreatedOnce'
  BY <1>0, <1>22 DEF Fields, ResolveActors, Starts, NoRequest
<1>23. ASSUME NEW r \in Request, AttributeActors(r) PROVE CreatedOnce'
  BY <1>0, <1>23 DEF Fields, AttributeActors, Done, NoRequest
<1>24. ASSUME NEW r \in Request, RequestBreaks(r) PROVE CreatedOnce'
  BY <1>0, <1>24 DEF Fields, RequestBreaks, Done, NoRequest
<1> HIDE DEF OneActor, CreatedOnce, New, Live
<1> QED
  BY <1>1, <1>2, <1>3, <1>4, <1>5, <1>6, <1>7, <1>8, <1>9, <1>10, <1>11, <1>12, <1>13,
     <1>14, <1>15, <1>16, <1>17, <1>18, <1>19, <1>20, <1>21, <1>22, <1>23, <1>24
  DEF Next, WorkerStep, RequestStep

\* What a record holds was pending before it was stored, and is not any more.
LEMMA ReadIsSettledStep ==
  ASSUME TypeOK, ReadIsSettled, PendingExists, Next
  PROVE  ReadIsSettled'
<1> USE DEF ReadIsSettled, PendingExists, Settled, WorkerPending, RequestPending
<1>0. Fields
  BY FieldTypes
<1>1. ASSUME NEW t \in Torrent, LoadActors(t) PROVE ReadIsSettled'
  BY <1>0, <1>1 DEF Fields, LoadActors
<1>2. ASSUME NEW a \in Actor, UploadProfile(a) PROVE ReadIsSettled'
  BY <1>0, <1>2 DEF Fields, UploadProfile, Upload
<1>3. ASSUME NEW a \in Actor, UpdateEvidence(a) PROVE ReadIsSettled'
  BY <1>0, <1>3, EvidenceStep DEF Fields
<1>4. ASSUME InsertActor PROVE ReadIsSettled'
  BY <1>0, <1>4 DEF Fields, InsertActor
<1>5. ASSUME InsertRaises PROVE ReadIsSettled'
  BY <1>0, <1>5 DEF Fields, InsertRaises
<1>6. ASSUME UploadImprovement PROVE ReadIsSettled'
  BY <1>0, <1>6 DEF Fields, UploadImprovement, Upload
<1>7. ASSUME SwapProfile PROVE ReadIsSettled'
  BY <1>0, <1>7 DEF Fields, SwapProfile, Unchanged
<1>8. ASSUME CleanProfile PROVE ReadIsSettled'
  BY <1>0, <1>8 DEF Fields, CleanProfile
<1>9. ASSUME NEW d \in BOOLEAN, Assign(d) PROVE ReadIsSettled'
  BY <1>0, <1>9 DEF Fields, Assign
<1>10. ASSUME WorkerBreaks PROVE ReadIsSettled'
  BY <1>0, <1>10 DEF Fields, WorkerBreaks
<1>11. ASSUME NEW r \in Request, NEW a \in Actor, CreateUploads(r, a) PROVE ReadIsSettled'
  BY <1>0, <1>11 DEF Fields, CreateUploads, Upload, NoRequest
<1>12. ASSUME NEW r \in Request, NEW a \in Actor, CreateActor(r, a) PROVE ReadIsSettled'
  BY <1>0, <1>12 DEF Fields, CreateActor, Created, Done, NoRequest
<1>13. ASSUME NEW r \in Request, NEW a \in Actor, CreateConflicts(r, a) PROVE ReadIsSettled'
  BY <1>0, <1>13 DEF Fields, CreateConflicts, Done, NoRequest
<1>14. ASSUME NEW r \in Request, NEW a \in Actor, UpdateReads(r, a) PROVE ReadIsSettled'
  BY <1>0, <1>14 DEF Fields, UpdateReads, Starts, NoRequest
<1>15. ASSUME NEW r \in Request, NEW a \in Actor, UpdateUploads(r, a) PROVE ReadIsSettled'
  BY <1>0, <1>15 DEF Fields, UpdateUploads, Upload
<1>16. ASSUME NEW r \in Request, NEW a \in Actor, NEW c \in BOOLEAN, UpdateActor(r, a, c)
       PROVE  ReadIsSettled'
  BY <1>0, <1>16 DEF Fields, UpdateActor, Obsolete
<1>17. ASSUME NEW r \in Request, NEW a \in Actor, DeleteReads(r, a) PROVE ReadIsSettled'
  BY <1>0, <1>17 DEF Fields, DeleteReads, NoRequest
<1>18. ASSUME NEW r \in Request, NEW a \in Actor, DeleteRecord(r, a) PROVE ReadIsSettled'
  BY <1>0, <1>18 DEF Fields, DeleteRecord
<1>19. ASSUME NEW r \in Request, NEW a \in Actor, DeleteImage(r, a) PROVE ReadIsSettled'
  BY <1>0, <1>19 DEF Fields, DeleteImage, Done, NoRequest
<1>20. ASSUME NEW r \in Request, NEW a \in Actor, NEW t \in Torrent, PullFrom(r, a, t)
       PROVE  ReadIsSettled'
  BY <1>0, <1>20 DEF Fields, PullFrom
<1>21. ASSUME NEW r \in Request, RecordGone(r) PROVE ReadIsSettled'
  BY <1>0, <1>21 DEF Fields, RecordGone, Removed
<1>22. ASSUME NEW r \in Request, NEW t \in Torrent, ResolveActors(r, t) PROVE ReadIsSettled'
  BY <1>0, <1>22 DEF Fields, ResolveActors, Starts, NoRequest
<1>23. ASSUME NEW r \in Request, AttributeActors(r) PROVE ReadIsSettled'
  BY <1>0, <1>23 DEF Fields, AttributeActors, Done, NoRequest
<1>24. ASSUME NEW r \in Request, RequestBreaks(r) PROVE ReadIsSettled'
  BY <1>0, <1>24 DEF Fields, RequestBreaks, Done, NoRequest
<1> HIDE DEF ReadIsSettled, PendingExists, Settled, WorkerPending, RequestPending
<1> QED
  BY <1>1, <1>2, <1>3, <1>4, <1>5, <1>6, <1>7, <1>8, <1>9, <1>10, <1>11, <1>12, <1>13,
     <1>14, <1>15, <1>16, <1>17, <1>18, <1>19, <1>20, <1>21, <1>22, <1>23, <1>24
  DEF Next, WorkerStep, RequestStep

\* Nobody deletes an upload that is pending with somebody else.
LEMMA PendingExistsStep ==
  ASSUME TypeOK, OneActor, ReadIsSettled, PendingExists, DoomedIsDisposable, Next
  PROVE  PendingExists'
<1> USE DEF OneActor, ReadIsSettled, PendingExists, DoomedIsDisposable,
      Disposable, Image, Settled, WorkerPending, RequestPending
<1>0. Fields
  BY FieldTypes
<1>1. ASSUME NEW t \in Torrent, LoadActors(t) PROVE PendingExists'
  BY <1>0, <1>1 DEF Fields, LoadActors
<1>2. ASSUME NEW a \in Actor, UploadProfile(a) PROVE PendingExists'
  BY <1>0, <1>2 DEF Fields, UploadProfile, Upload
<1>3. ASSUME NEW a \in Actor, UpdateEvidence(a) PROVE PendingExists'
  BY <1>0, <1>3, EvidenceStep DEF Fields
<1>4. ASSUME InsertActor PROVE PendingExists'
  BY <1>0, <1>4 DEF Fields, InsertActor
<1>5. ASSUME InsertRaises PROVE PendingExists'
  BY <1>0, <1>5 DEF Fields, InsertRaises
<1>6. ASSUME UploadImprovement PROVE PendingExists'
  BY <1>0, <1>6 DEF Fields, UploadImprovement, Upload
<1>7. ASSUME SwapProfile PROVE PendingExists'
  BY <1>0, <1>7 DEF Fields, SwapProfile, Unchanged
<1>8. ASSUME CleanProfile PROVE PendingExists'
  BY <1>0, <1>8 DEF Fields, CleanProfile
<1>9. ASSUME NEW d \in BOOLEAN, Assign(d) PROVE PendingExists'
  BY <1>0, <1>9 DEF Fields, Assign
<1>10. ASSUME WorkerBreaks PROVE PendingExists'
  BY <1>0, <1>10 DEF Fields, WorkerBreaks
<1>11. ASSUME NEW r \in Request, NEW a \in Actor, CreateUploads(r, a) PROVE PendingExists'
  BY <1>0, <1>11 DEF Fields, CreateUploads, Upload, NoRequest
<1>12. ASSUME NEW r \in Request, NEW a \in Actor, CreateActor(r, a) PROVE PendingExists'
  BY <1>0, <1>12 DEF Fields, CreateActor, Created, Done, NoRequest
<1>13. ASSUME NEW r \in Request, NEW a \in Actor, CreateConflicts(r, a) PROVE PendingExists'
  BY <1>0, <1>13 DEF Fields, CreateConflicts, Done, NoRequest
<1>14. ASSUME NEW r \in Request, NEW a \in Actor, UpdateReads(r, a) PROVE PendingExists'
  BY <1>0, <1>14 DEF Fields, UpdateReads, Starts, NoRequest
<1>15. ASSUME NEW r \in Request, NEW a \in Actor, UpdateUploads(r, a) PROVE PendingExists'
  BY <1>0, <1>15 DEF Fields, UpdateUploads, Upload
<1>16. ASSUME NEW r \in Request, NEW a \in Actor, NEW c \in BOOLEAN, UpdateActor(r, a, c)
       PROVE  PendingExists'
  BY <1>0, <1>16 DEF Fields, UpdateActor, Obsolete
<1>17. ASSUME NEW r \in Request, NEW a \in Actor, DeleteReads(r, a) PROVE PendingExists'
  BY <1>0, <1>17 DEF Fields, DeleteReads, NoRequest
<1>18. ASSUME NEW r \in Request, NEW a \in Actor, DeleteRecord(r, a) PROVE PendingExists'
  BY <1>0, <1>18 DEF Fields, DeleteRecord
<1>19. ASSUME NEW r \in Request, NEW a \in Actor, DeleteImage(r, a) PROVE PendingExists'
  BY <1>0, <1>19 DEF Fields, DeleteImage, Done, NoRequest
<1>20. ASSUME NEW r \in Request, NEW a \in Actor, NEW t \in Torrent, PullFrom(r, a, t)
       PROVE  PendingExists'
  BY <1>0, <1>20 DEF Fields, PullFrom
<1>21. ASSUME NEW r \in Request, RecordGone(r) PROVE PendingExists'
  BY <1>0, <1>21 DEF Fields, RecordGone, Removed
<1>22. ASSUME NEW r \in Request, NEW t \in Torrent, ResolveActors(r, t) PROVE PendingExists'
  BY <1>0, <1>22 DEF Fields, ResolveActors, Starts, NoRequest
<1>23. ASSUME NEW r \in Request, AttributeActors(r) PROVE PendingExists'
  BY <1>0, <1>23 DEF Fields, AttributeActors, Done, NoRequest
<1>24. ASSUME NEW r \in Request, RequestBreaks(r) PROVE PendingExists'
  BY <1>0, <1>24 DEF Fields, RequestBreaks, Done, NoRequest
<1> HIDE DEF OneActor, ReadIsSettled, PendingExists, DoomedIsDisposable,
         Disposable, Image, Settled, WorkerPending, RequestPending
<1> QED
  BY <1>1, <1>2, <1>3, <1>4, <1>5, <1>6, <1>7, <1>8, <1>9, <1>10, <1>11, <1>12, <1>13,
     <1>14, <1>15, <1>16, <1>17, <1>18, <1>19, <1>20, <1>21, <1>22, <1>23, <1>24
  DEF Next, WorkerStep, RequestStep

\* No record comes to refer to an image that is about to be deleted.
LEMMA DoomedIsDisposableStep ==
  ASSUME TypeOK, OneActor, ReadIsSettled, PendingExists, DoomedIsDisposable, Next
  PROVE  DoomedIsDisposable'
<1> USE DEF OneActor, ReadIsSettled, PendingExists, DoomedIsDisposable,
      Disposable, Live, Settled, WorkerPending, RequestPending
<1>0. Fields
  BY FieldTypes
<1>1. ASSUME NEW t \in Torrent, LoadActors(t) PROVE DoomedIsDisposable'
  BY <1>0, <1>1 DEF Fields, LoadActors
<1>2. ASSUME NEW a \in Actor, UploadProfile(a) PROVE DoomedIsDisposable'
  BY <1>0, <1>2 DEF Fields, UploadProfile, Upload
<1>3. ASSUME NEW a \in Actor, UpdateEvidence(a) PROVE DoomedIsDisposable'
  BY <1>0, <1>3, EvidenceStep DEF Fields
<1>4. ASSUME InsertActor PROVE DoomedIsDisposable'
  BY <1>0, <1>4 DEF Fields, InsertActor
<1>5. ASSUME InsertRaises PROVE DoomedIsDisposable'
  BY <1>0, <1>5 DEF Fields, InsertRaises
<1>6. ASSUME UploadImprovement PROVE DoomedIsDisposable'
  BY <1>0, <1>6 DEF Fields, UploadImprovement, Upload
<1>7. ASSUME SwapProfile PROVE DoomedIsDisposable'
  BY <1>0, <1>7 DEF Fields, SwapProfile, Unchanged
<1>8. ASSUME CleanProfile PROVE DoomedIsDisposable'
  BY <1>0, <1>8 DEF Fields, CleanProfile
<1>9. ASSUME NEW d \in BOOLEAN, Assign(d) PROVE DoomedIsDisposable'
  BY <1>0, <1>9 DEF Fields, Assign
<1>10. ASSUME WorkerBreaks PROVE DoomedIsDisposable'
  BY <1>0, <1>10 DEF Fields, WorkerBreaks
<1>11. ASSUME NEW r \in Request, NEW a \in Actor, CreateUploads(r, a) PROVE DoomedIsDisposable'
  BY <1>0, <1>11 DEF Fields, CreateUploads, Upload, NoRequest
<1>12. ASSUME NEW r \in Request, NEW a \in Actor, CreateActor(r, a) PROVE DoomedIsDisposable'
  BY <1>0, <1>12 DEF Fields, CreateActor, Created, Done, NoRequest
<1>13. ASSUME NEW r \in Request, NEW a \in Actor, CreateConflicts(r, a)
       PROVE  DoomedIsDisposable'
  BY <1>0, <1>13 DEF Fields, CreateConflicts, Done, NoRequest
<1>14. ASSUME NEW r \in Request, NEW a \in Actor, UpdateReads(r, a) PROVE DoomedIsDisposable'
  BY <1>0, <1>14 DEF Fields, UpdateReads, Starts, NoRequest
<1>15. ASSUME NEW r \in Request, NEW a \in Actor, UpdateUploads(r, a) PROVE DoomedIsDisposable'
  BY <1>0, <1>15 DEF Fields, UpdateUploads, Upload
<1>16. ASSUME NEW r \in Request, NEW a \in Actor, NEW c \in BOOLEAN, UpdateActor(r, a, c)
       PROVE  DoomedIsDisposable'
  BY <1>0, <1>16 DEF Fields, UpdateActor, Obsolete
<1>17. ASSUME NEW r \in Request, NEW a \in Actor, DeleteReads(r, a) PROVE DoomedIsDisposable'
  BY <1>0, <1>17 DEF Fields, DeleteReads, NoRequest
<1>18. ASSUME NEW r \in Request, NEW a \in Actor, DeleteRecord(r, a) PROVE DoomedIsDisposable'
  BY <1>0, <1>18 DEF Fields, DeleteRecord
<1>19. ASSUME NEW r \in Request, NEW a \in Actor, DeleteImage(r, a) PROVE DoomedIsDisposable'
  BY <1>0, <1>19 DEF Fields, DeleteImage, Done, NoRequest
<1>20. ASSUME NEW r \in Request, NEW a \in Actor, NEW t \in Torrent, PullFrom(r, a, t)
       PROVE  DoomedIsDisposable'
  BY <1>0, <1>20 DEF Fields, PullFrom
<1>21. ASSUME NEW r \in Request, RecordGone(r) PROVE DoomedIsDisposable'
  BY <1>0, <1>21 DEF Fields, RecordGone, Removed
<1>22. ASSUME NEW r \in Request, NEW t \in Torrent, ResolveActors(r, t)
       PROVE  DoomedIsDisposable'
  BY <1>0, <1>22 DEF Fields, ResolveActors, Starts, NoRequest
<1>23. ASSUME NEW r \in Request, AttributeActors(r) PROVE DoomedIsDisposable'
  BY <1>0, <1>23 DEF Fields, AttributeActors, Done, NoRequest
<1>24. ASSUME NEW r \in Request, RequestBreaks(r) PROVE DoomedIsDisposable'
  BY <1>0, <1>24 DEF Fields, RequestBreaks, Done, NoRequest
<1> HIDE DEF OneActor, ReadIsSettled, PendingExists, DoomedIsDisposable,
         Disposable, Live, Settled, WorkerPending, RequestPending
<1> QED
  BY <1>1, <1>2, <1>3, <1>4, <1>5, <1>6, <1>7, <1>8, <1>9, <1>10, <1>11, <1>12, <1>13,
     <1>14, <1>15, <1>16, <1>17, <1>18, <1>19, <1>20, <1>21, <1>22, <1>23, <1>24
  DEF Next, WorkerStep, RequestStep

\* A live actor's image exists after every command.
LEMMA ProfileExistsStep ==
  ASSUME TypeOK, ReadIsSettled, PendingExists, DoomedIsDisposable, ProfileExists, Next
  PROVE  ProfileExists'
<1> USE DEF ProfileExists, ReadIsSettled, PendingExists, DoomedIsDisposable,
      Disposable, Live, Image, Settled, WorkerPending, RequestPending
<1>0. Fields
  BY FieldTypes
<1>1. ASSUME NEW t \in Torrent, LoadActors(t) PROVE ProfileExists'
  BY <1>0, <1>1 DEF Fields, LoadActors
<1>2. ASSUME NEW a \in Actor, UploadProfile(a) PROVE ProfileExists'
  BY <1>0, <1>2 DEF Fields, UploadProfile, Upload
<1>3. ASSUME NEW a \in Actor, UpdateEvidence(a) PROVE ProfileExists'
  BY <1>0, <1>3, EvidenceStep DEF Fields
<1>4. ASSUME InsertActor PROVE ProfileExists'
  BY <1>0, <1>4 DEF Fields, InsertActor
<1>5. ASSUME InsertRaises PROVE ProfileExists'
  BY <1>0, <1>5 DEF Fields, InsertRaises
<1>6. ASSUME UploadImprovement PROVE ProfileExists'
  BY <1>0, <1>6 DEF Fields, UploadImprovement, Upload
<1>7. ASSUME SwapProfile PROVE ProfileExists'
  BY <1>0, <1>7 DEF Fields, SwapProfile, Unchanged
<1>8. ASSUME CleanProfile PROVE ProfileExists'
  BY <1>0, <1>8 DEF Fields, CleanProfile
<1>9. ASSUME NEW d \in BOOLEAN, Assign(d) PROVE ProfileExists'
  BY <1>0, <1>9 DEF Fields, Assign
<1>10. ASSUME WorkerBreaks PROVE ProfileExists'
  BY <1>0, <1>10 DEF Fields, WorkerBreaks
<1>11. ASSUME NEW r \in Request, NEW a \in Actor, CreateUploads(r, a) PROVE ProfileExists'
  BY <1>0, <1>11 DEF Fields, CreateUploads, Upload, NoRequest
<1>12. ASSUME NEW r \in Request, NEW a \in Actor, CreateActor(r, a) PROVE ProfileExists'
  BY <1>0, <1>12 DEF Fields, CreateActor, Created, Done, NoRequest
<1>13. ASSUME NEW r \in Request, NEW a \in Actor, CreateConflicts(r, a) PROVE ProfileExists'
  BY <1>0, <1>13 DEF Fields, CreateConflicts, Done, NoRequest
<1>14. ASSUME NEW r \in Request, NEW a \in Actor, UpdateReads(r, a) PROVE ProfileExists'
  BY <1>0, <1>14 DEF Fields, UpdateReads, Starts, NoRequest
<1>15. ASSUME NEW r \in Request, NEW a \in Actor, UpdateUploads(r, a) PROVE ProfileExists'
  BY <1>0, <1>15 DEF Fields, UpdateUploads, Upload
<1>16. ASSUME NEW r \in Request, NEW a \in Actor, NEW c \in BOOLEAN, UpdateActor(r, a, c)
       PROVE  ProfileExists'
  BY <1>0, <1>16 DEF Fields, UpdateActor, Obsolete
<1>17. ASSUME NEW r \in Request, NEW a \in Actor, DeleteReads(r, a) PROVE ProfileExists'
  BY <1>0, <1>17 DEF Fields, DeleteReads, NoRequest
<1>18. ASSUME NEW r \in Request, NEW a \in Actor, DeleteRecord(r, a) PROVE ProfileExists'
  BY <1>0, <1>18 DEF Fields, DeleteRecord
<1>19. ASSUME NEW r \in Request, NEW a \in Actor, DeleteImage(r, a) PROVE ProfileExists'
  BY <1>0, <1>19 DEF Fields, DeleteImage, Done, NoRequest
<1>20. ASSUME NEW r \in Request, NEW a \in Actor, NEW t \in Torrent, PullFrom(r, a, t)
       PROVE  ProfileExists'
  BY <1>0, <1>20 DEF Fields, PullFrom
<1>21. ASSUME NEW r \in Request, RecordGone(r) PROVE ProfileExists'
  BY <1>0, <1>21 DEF Fields, RecordGone, Removed
<1>22. ASSUME NEW r \in Request, NEW t \in Torrent, ResolveActors(r, t) PROVE ProfileExists'
  BY <1>0, <1>22 DEF Fields, ResolveActors, Starts, NoRequest
<1>23. ASSUME NEW r \in Request, AttributeActors(r) PROVE ProfileExists'
  BY <1>0, <1>23 DEF Fields, AttributeActors, Done, NoRequest
<1>24. ASSUME NEW r \in Request, RequestBreaks(r) PROVE ProfileExists'
  BY <1>0, <1>24 DEF Fields, RequestBreaks, Done, NoRequest
<1> HIDE DEF ProfileExists, ReadIsSettled, PendingExists, DoomedIsDisposable,
         Disposable, Live, Image, Settled, WorkerPending, RequestPending
<1> QED
  BY <1>1, <1>2, <1>3, <1>4, <1>5, <1>6, <1>7, <1>8, <1>9, <1>10, <1>11, <1>12, <1>13,
     <1>14, <1>15, <1>16, <1>17, <1>18, <1>19, <1>20, <1>21, <1>22, <1>23, <1>24
  DEF Next, WorkerStep, RequestStep

-----------------------------------------------------------------------------
(***************************************************************************)
(* The theorems.                                                           *)
(***************************************************************************)

\* There is nothing yet.
LEMMA InitIInv == Init => IInv
<1> SUFFICES ASSUME Init PROVE IInv
  OBVIOUS
<1>1. Unused \in ActorDoc /\ 0 \in 0 .. MaxUploads
  BY CatalogAssumption DEF Unused, ActorDoc
<1>2. actors \in [Actor -> ActorDoc] /\ req \in [Request -> RequestState]
  BY <1>1, NoRequestType DEF Init
<1>3. PICK a \in Actor :
        w = [pc |-> "idle", torrent |-> NoTorrent, seen |-> actors, ids |-> {},
             todo |-> {}, actor |-> a, image |-> 0]
  BY DEF Init
<1>4. w \in Worker
  BY <1>1, <1>2, <1>3 DEF Worker
<1>5. TypeOK
  BY <1>1, <1>2, <1>4 DEF Init, TypeOK
<1>6. OneActor /\ CreatedOnce /\ ProfileExists
  BY <1>3 DEF Init, OneActor, CreatedOnce, ProfileExists, Live, Unused, NoRequest
<1>7. ReadIsSettled
  BY <1>3 DEF Init, ReadIsSettled, Settled, WorkerPending, RequestPending, Unused, NoRequest
<1>8. PendingExists /\ DoomedIsDisposable
  BY <1>3 DEF Init, PendingExists, DoomedIsDisposable, WorkerPending, RequestPending, NoRequest
<1> QED BY <1>5, <1>6, <1>7, <1>8 DEF IInv

\* Every step keeps the types.
LEMMA TypeStep == ASSUME TypeOK, Next PROVE TypeOK'
BY WorkerType, RequestType DEF Next

\* Nothing has to be known of the past but what the invariant says.
THEOREM Inductive == IInv /\ [Next]_vars => IInv'
<1> SUFFICES ASSUME IInv, [Next]_vars PROVE IInv'
  OBVIOUS
<1>1. CASE Next
  <2>1. /\ TypeOK /\ OneActor /\ CreatedOnce
        /\ ProfileExists /\ ReadIsSettled /\ PendingExists /\ DoomedIsDisposable
    BY DEF IInv
  <2>2. TypeOK'
    BY <1>1, <2>1, TypeStep
  <2>3. OneActor' /\ CreatedOnce'
    BY <1>1, <2>1, OneActorStep, CreatedOnceStep
  <2>4. ReadIsSettled' /\ PendingExists' /\ DoomedIsDisposable' /\ ProfileExists'
    BY <1>1, <2>1, ReadIsSettledStep, PendingExistsStep, DoomedIsDisposableStep,
       ProfileExistsStep
  <2> QED BY <2>2, <2>3, <2>4 DEF IInv
<1>2. CASE UNCHANGED vars
  BY <1>2 DEF vars, IInv, TypeOK, OneActor, CreatedOnce, ProfileExists, ReadIsSettled,
     PendingExists, DoomedIsDisposable, Settled, Disposable, WorkerPending, RequestPending,
     Live, New, Image
<1> QED BY <1>1, <1>2

\* The invariant holds throughout.
LEMMA Invariance == Spec => []IInv
BY InitIInv, Inductive, PTL DEF Spec

\* Every variable keeps its type.
THEOREM TypeCorrect == Spec => []TypeOK
<1>1. IInv => TypeOK
  BY DEF IInv
<1> QED BY <1>1, Invariance, PTL

\* ProfileExists: the image an actor's record names exists, whoever replaces it at once
\* (updateActor, deleteActor, _improve_system_profile, and every failure).
THEOREM ImagesExist == Spec => []ProfileExists
<1>1. IInv => ProfileExists
  BY DEF IInv
<1> QED BY <1>1, Invariance, PTL

\* The worker changes the image of no actor that has an administrator's.
LEMMA WorkerKeepsImage ==
  ASSUME IInv, WorkerStep, NEW b \in Actor, Live(b), actors[b].source = "admin"
  PROVE  actors'[b].image = actors[b].image
<1>0. Fields
  BY FieldTypes DEF IInv
<1>1. ASSUME NEW t \in Torrent, LoadActors(t) PROVE actors'[b].image = actors[b].image
  BY <1>0, <1>1 DEF LoadActors, Live
<1>2. ASSUME InsertActor PROVE actors'[b].image = actors[b].image
  <2>1. actors[w.actor].state = "reserved"
    BY <1>2 DEF InsertActor, IInv, CreatedOnce
  <2>2. b # w.actor
    BY <2>1 DEF Live
  <2> QED BY <1>0, <1>2, <2>2 DEF InsertActor, Fields
<1>3. ASSUME SwapProfile PROVE actors'[b].image = actors[b].image
  BY <1>0, <1>3 DEF SwapProfile, Unchanged, Fields
<1>4. ASSUME UNCHANGED actors PROVE actors'[b].image = actors[b].image
  BY <1>4
<1> QED
  BY <1>1, <1>2, <1>3, <1>4
  DEF WorkerStep, UploadProfile, UpdateEvidence, InsertRaises, UploadImprovement, CleanProfile,
      Assign, WorkerBreaks

\* A request that changes an image has moved on by that.
LEMMA RequestMovesOn ==
  ASSUME IInv, NEW r \in Request, RequestStep(r), UNCHANGED req, NEW b \in Actor, Live(b)
  PROVE  actors'[b].image = actors[b].image
<1>0. Fields
  BY FieldTypes DEF IInv
<1>1. req[r] \in RequestState
  BY <1>0 DEF Fields
<1>2. ASSUME NEW a \in Actor, CreateUploads(r, a) PROVE actors'[b].image = actors[b].image
  BY <1>0, <1>2 DEF CreateUploads, Fields
<1>3. ASSUME NEW a \in Actor, CreateActor(r, a) PROVE FALSE
  BY <1>0, <1>3 DEF CreateActor, Done, NoRequest, Fields
<1>4. ASSUME NEW a \in Actor, NEW c \in BOOLEAN, UpdateActor(r, a, c) PROVE FALSE
  <2>1. req'[r].pc = "clean" /\ req[r].pc = "update"
    BY <1>0, <1>1, <1>4 DEF UpdateActor, Fields, RequestState
  <2> QED BY <2>1
<1>5. ASSUME NEW a \in Actor, DeleteRecord(r, a) PROVE actors'[b].image = actors[b].image
  BY <1>0, <1>5 DEF DeleteRecord, Fields
<1>6. ASSUME UNCHANGED actors PROVE actors'[b].image = actors[b].image
  BY <1>6
<1> QED
  BY <1>2, <1>3, <1>4, <1>5, <1>6
  DEF RequestStep, CreateConflicts, UpdateReads, UpdateUploads, DeleteReads, DeleteImage,
      PullFrom, RecordGone, ResolveActors, AttributeActors, RequestBreaks

\* AdminImageKept: automatic analysis never replaces an administrator's profile image, even one
\* that was set after the worker had read the actor.
THEOREM AdminsKept == Spec => AdminImageKept
<1>1. ASSUME IInv, [Next]_vars
      PROVE  [\A a \in Actor :
                Live(a) /\ actors[a].source = "admin" /\ UNCHANGED req
                   => actors'[a].image = actors[a].image]_vars
  <2>1. CASE Next
    BY <1>1, <2>1, WorkerKeepsImage, RequestMovesOn DEF Next
  <2>2. CASE UNCHANGED vars
    BY <2>2
  <2> QED BY <1>1, <2>1, <2>2
<1> QED BY <1>1, Invariance, PTL DEF Spec, AdminImageKept
-----------------------------------------------------------------------------
(***************************************************************************)
(* Nothing is left behind of an actor whose operations did not overlap.    *)
(***************************************************************************)

\* Nobody else is at work on an actor on which no two operations overlapped.
HeldOnce ==
    /\ \A r \in Request : req[r].pc = "idle" => req[r].actors = {}
    /\ w.pc # "idle" => w.todo \subseteq w.ids
    /\ w.pc \in {"insert", "improve", "swap", "clean"} => w.actor \in w.ids
    /\ \A a \in Actor \ disturbed, r \in Request : a \in req[r].actors =>
          /\ w.pc # "idle" => a \notin w.ids
          /\ \A s \in Request : a \in req[s].actors => s = r

\* So it still is what the operation on it has read.
ReadStands ==
    \A a \in Actor \ disturbed :
        /\ w.pc # "idle" /\ a \in w.ids => actors[a].state # "deleted"
        /\ \A r \in Request : a \in req[r].actors =>
              /\ req[r].pc \in {"attribute", "upload", "update"} => Live(a)
              /\ req[r].pc \in {"upload", "update"} => req[r].old = actors[a].image
              /\ req[r].pc = "delete" /\ req[r].record =>
                    Live(a) /\ req[r].image = actors[a].image

Attributed(a, t) == a \in system[t] \/ a \in user[t]

\* A deleted actor is attributed only to torrents deleteActor has yet to come to.
PullsAll ==
    \A a \in Actor \ disturbed :
        /\ \A r \in Request : a \in req[r].actors /\ req[r].pc = "delete" =>
              \A t \in Torrent : Attributed(a, t) => t \in req[r].pull
        /\ actors[a].state = "deleted" =>
              \/ \E r \in Request : a \in req[r].actors /\ req[r].pc = "delete"
              \/ \A t \in Torrent : ~Attributed(a, t)

\* The image n of a is one that somebody is about to refer to, or to delete.
InHand(a, n) ==
    \/ w.pc \in {"insert", "swap", "clean"} /\ w.actor = a /\ w.image = n
    \/ \E r \in Request : /\ a \in req[r].actors /\ req[r].image = n
                          /\ \/ req[r].pc \in {"create", "update", "clean"}
                             \/ req[r].pc = "delete" /\ ~req[r].record

NoImageLost ==
    \A a \in Actor \ disturbed, n \in Nat :
        Image(a, n) \in blobs => (Live(a) /\ actors[a].image = n) \/ InHand(a, n)

MoreFields ==
    /\ Fields /\ w.ids \subseteq Actor /\ disturbed \subseteq Actor
    /\ system \in [Torrent -> SUBSET Actor] /\ user \in [Torrent -> SUBSET Actor]
    /\ blobs \subseteq Actor \X Nat

\* What the steps below need of the types.
LEMMA MoreTypes == ASSUME TypeOK PROVE MoreFields /\ Fields
<1>1. w.ids \subseteq Actor
  BY DEF TypeOK, Worker
<1>2. Images \subseteq Actor \X Nat
  BY CatalogAssumption DEF Images
<1> QED BY <1>1, <1>2, FieldTypes DEF MoreFields, TypeOK

\* Evidence: the actor is there, or the analysis breaks off.
LEMMA EvidenceEffect ==
  ASSUME TypeOK, NEW a \in Actor, UpdateEvidence(a)
  PROVE  /\ w.pc = "next" /\ a \in w.todo
         /\ \/ /\ w'.pc \in {"next", "improve"} /\ w'.ids = w.ids /\ w'.todo \subseteq w.todo
               /\ w'.pc = "improve" => w'.actor = a
               /\ disturbed' = disturbed
            \/ w'.pc = "idle" /\ disturbed' = disturbed \cup w.ids
         /\ UNCHANGED <<actors, system, user, blobs, uploads, req>>
<1>1. w \in Worker /\ w.pc = "next" /\ a \in w.todo
  BY DEF TypeOK, UpdateEvidence
<1>2. CASE w' = [w EXCEPT !.todo = w.todo \ {a}] /\ disturbed' = disturbed
  BY <1>1, <1>2 DEF Worker, UpdateEvidence
<1>3. CASE w' = [w EXCEPT !.pc = "improve", !.actor = a] /\ disturbed' = disturbed
  BY <1>1, <1>3 DEF Worker, UpdateEvidence
<1>4. CASE w' = [w EXCEPT !.pc = "idle"] /\ disturbed' = disturbed \cup w.ids
  BY <1>1, <1>4 DEF Worker, UpdateEvidence
<1> QED BY <1>2, <1>3, <1>4 DEF UpdateEvidence, BreaksOff

\* The effects of the steps that write several fields.  Only resolveActorIds is about
\* several actors: the others' one actor is a.
Kept(r) == \A s \in Request \ {r} : req'[s] = req[s]

KeptActors(a) == \A b \in Actor \ {a} : actors'[b] = actors[b]

LEMMA CreateUploadsEffect ==
  ASSUME TypeOK, NEW r \in Request, NEW a \in Actor, CreateUploads(r, a)
  PROVE  /\ req[r].pc = "idle" /\ Kept(r) /\ req'[r].pc = "create" /\ req'[r].actors = {a}
         /\ req'[r].image = uploads + 1 /\ actors[a].state = "unused" /\ KeptActors(a)
         /\ actors'[a].state = "reserved" /\ actors'[a].image = actors[a].image
         /\ blobs' = blobs \cup {<<a, uploads + 1>>}
         /\ disturbed' = disturbed \cup ({a} \cap Held)
         /\ UNCHANGED <<system, user, w>>
<1>1. MoreFields
  BY MoreTypes
<1> QED BY <1>1 DEF MoreFields, Fields, CreateUploads, Kept, KeptActors, NoRequest, Begins, Upload,
                    Image, ActorDoc

LEMMA CreateActorEffect ==
  ASSUME TypeOK, OneActor, NEW r \in Request, NEW a \in Actor, CreateActor(r, a)
  PROVE  /\ req[r].pc = "create" /\ req[r].actors = {a} /\ Kept(r) /\ req'[r].pc = "idle"
         /\ req'[r].actors = {} /\ KeptActors(a) /\ actors'[a].state = "live"
         /\ actors'[a].image = req[r].image
         /\ UNCHANGED <<system, user, blobs, w, disturbed>>
<1>1. MoreFields
  BY MoreTypes
<1> QED BY <1>1 DEF MoreFields, Fields, CreateActor, Created, Done, NoRequest, OneActor, Kept,
                    KeptActors

LEMMA UpdateUploadsEffect ==
  ASSUME TypeOK, OneActor, NEW r \in Request, NEW a \in Actor, UpdateUploads(r, a)
  PROVE  /\ req[r].pc = "upload" /\ req[r].actors = {a} /\ Kept(r) /\ req'[r].pc = "update"
         /\ req'[r].actors = {a} /\ req'[r].image = uploads + 1 /\ req'[r].old = req[r].old
         /\ blobs' = blobs \cup {<<a, uploads + 1>>}
         /\ UNCHANGED <<actors, system, user, w, disturbed>>
<1>1. MoreFields
  BY MoreTypes
<1>2. req[r] \in RequestState
  BY DEF TypeOK
<1> QED BY <1>1, <1>2 DEF MoreFields, Fields, UpdateUploads, OneActor, Kept, Upload, Image,
                          RequestState

LEMMA UpdateActorEffect ==
  ASSUME TypeOK, OneActor, NEW r \in Request, NEW a \in Actor, NEW c \in BOOLEAN,
         UpdateActor(r, a, c)
  PROVE  /\ req[r].pc = "update" /\ req[r].actors = {a} /\ Kept(r) /\ req'[r].pc = "clean"
         /\ req'[r].actors = {a} /\ KeptActors(a)
         /\ \/ /\ Live(a) /\ actors'[a].state = "live" /\ actors'[a].image = req[r].image
               /\ req'[r].image = req[r].old
            \/ actors' = actors /\ req'[r].image = req[r].image
         /\ UNCHANGED <<system, user, blobs, w, disturbed>>
<1>1. MoreFields
  BY MoreTypes
<1>2. req[r] \in RequestState /\ actors[a] \in ActorDoc /\ actors \in [Actor -> ActorDoc]
      /\ req \in [Request -> RequestState]
  BY DEF TypeOK
<1>3. req[r].pc = "update" /\ req[r].actors = {a} /\ UNCHANGED <<system, user, blobs, w, disturbed>>
  BY <1>1 DEF MoreFields, Fields, UpdateActor, OneActor
<1> DEFINE n == Obsolete(r, Live(a) /\ ~c)
<1>4. req' = [req EXCEPT ![r] = [req[r] EXCEPT !.pc = "clean", !.image = n]]
  BY <1>2 DEF UpdateActor
<1> HIDE DEF n
<1>5. Kept(r) /\ req'[r].pc = "clean" /\ req'[r].actors = {a} /\ req'[r].image = n
  BY <1>2, <1>3, <1>4 DEF Kept, RequestState
<1>6. CASE Live(a) /\ ~c
  <2>1. actors' = [actors EXCEPT ![a] = [actors[a] EXCEPT !.image = req[r].image, !.source = "admin"]]
    BY <1>2, <1>6 DEF UpdateActor
  <2>2. KeptActors(a) /\ actors'[a].state = "live" /\ actors'[a].image = req[r].image
    BY <1>2, <1>6, <2>1 DEF KeptActors, ActorDoc, Live
  <2>3. n = req[r].old
    BY <1>6 DEF n, Obsolete
  <2> QED BY <1>3, <1>5, <1>6, <2>2, <2>3
<1>7. CASE ~(Live(a) /\ ~c)
  <2>1. actors' = actors /\ n = req[r].image
    BY <1>7 DEF n, Obsolete, UpdateActor
  <2> QED BY <1>3, <1>5, <2>1 DEF KeptActors
<1> QED BY <1>6, <1>7

LEMMA DeleteRecordEffect ==
  ASSUME TypeOK, OneActor, NEW r \in Request, NEW a \in Actor, DeleteRecord(r, a)
  PROVE  /\ req[r].pc = "delete" /\ req[r].record /\ req[r].actors = {a} /\ Kept(r)
         /\ req'[r].pc = "delete" /\ ~req'[r].record /\ req'[r].actors = {a}
         /\ req'[r].image = req[r].image /\ req'[r].pull = req[r].pull
         /\ KeptActors(a) /\ actors'[a].state = "deleted"
         /\ UNCHANGED <<system, user, blobs, w, disturbed>>
<1>1. MoreFields
  BY MoreTypes
<1>2. req[r] \in RequestState /\ actors[a] \in ActorDoc
  BY DEF TypeOK
<1> QED BY <1>1, <1>2 DEF MoreFields, Fields, DeleteRecord, OneActor, Kept, KeptActors,
                          RequestState, ActorDoc

LEMMA InsertActorEffect ==
  ASSUME TypeOK, InsertActor
  PROVE  /\ w.pc = "insert" /\ w'.pc = "next" /\ w'.ids = w.ids /\ KeptActors(w.actor)
         /\ actors'[w.actor].state = "live" /\ actors'[w.actor].image = w.image
         /\ UNCHANGED <<system, user, blobs, req, disturbed>>
<1>1. MoreFields
  BY MoreTypes
<1> QED BY <1>1 DEF MoreFields, Fields, InsertActor, KeptActors, Worker

LEMMA SwapEffect ==
  ASSUME TypeOK, SwapProfile
  PROVE  /\ w.pc = "swap" /\ w'.pc = "clean" /\ w'.ids = w.ids /\ w'.actor = w.actor
         /\ KeptActors(w.actor) /\ actors'[w.actor].state = actors[w.actor].state
         /\ \/ /\ Live(w.actor) /\ actors'[w.actor].image = w.image
               /\ w'.image = actors[w.actor].image
            \/ actors' = actors /\ w'.image = w.image
         /\ UNCHANGED <<system, user, blobs, req, disturbed>>
<1> DEFINE a == w.actor
           m == Live(a) /\ Unchanged(actors[a], w.seen[a])
           n == IF m THEN w.seen[a].image ELSE w.image
<1>1. w \in Worker /\ a \in Actor /\ actors[a] \in ActorDoc /\ actors \in [Actor -> ActorDoc]
  BY DEF TypeOK, Worker
<1>2. w.pc = "swap" /\ UNCHANGED <<system, user, blobs, req, disturbed>>
  BY DEF SwapProfile
<1>3. w' = [w EXCEPT !.pc = "clean", !.image = n]
  BY DEF SwapProfile
<1>4. \/ m /\ actors' = [actors EXCEPT ![a] = [actors[a] EXCEPT !.image = w.image, !.source = "system"]]
      \/ ~m /\ actors' = actors
  BY <1>1 DEF SwapProfile
<1>5. m => n = actors[a].image
  BY DEF Unchanged
<1>6. ~m => n = w.image
  OBVIOUS
<1>7. m => Live(a)
  OBVIOUS
<1> HIDE DEF m, n
<1>8. w'.pc = "clean" /\ w'.ids = w.ids /\ w'.actor = a /\ w'.image = n
  BY <1>1, <1>3 DEF Worker
<1>9. CASE m
  <2>1. KeptActors(a) /\ actors'[a].state = actors[a].state /\ actors'[a].image = w.image
    BY <1>1, <1>4, <1>9 DEF KeptActors, ActorDoc
  <2> QED BY <1>2, <1>5, <1>7, <1>8, <1>9, <2>1
<1>10. CASE ~m
  BY <1>2, <1>4, <1>6, <1>8, <1>10 DEF KeptActors
<1> QED BY <1>9, <1>10

\* Who begins while another is at work disturbs.
LEMMA HeldOnceStep ==
  ASSUME TypeOK, OneActor, CreatedOnce, HeldOnce, Next
  PROVE  HeldOnce'
<1> USE DEF HeldOnce, CreatedOnce, New
<1>0. MoreFields
  BY MoreTypes
<1>1. ASSUME NEW t \in Torrent, LoadActors(t) PROVE HeldOnce'
  BY <1>0, <1>1 DEF MoreFields, LoadActors, Begins, Held, WorkerHolds
<1>2. ASSUME NEW a \in Actor, UploadProfile(a) PROVE HeldOnce'
  BY <1>0, <1>2 DEF MoreFields, UploadProfile, Upload
<1>3. ASSUME NEW a \in Actor, UpdateEvidence(a) PROVE HeldOnce'
  BY <1>0, <1>3, EvidenceEffect DEF MoreFields
<1>4. ASSUME InsertActor PROVE HeldOnce'
  BY <1>0, <1>4 DEF MoreFields, InsertActor
<1>5. ASSUME InsertRaises PROVE HeldOnce'
  BY <1>0, <1>5 DEF MoreFields, InsertRaises, BreaksOff
<1>6. ASSUME UploadImprovement PROVE HeldOnce'
  BY <1>0, <1>6 DEF MoreFields, UploadImprovement, Upload
<1>7. ASSUME SwapProfile PROVE HeldOnce'
  BY <1>0, <1>7 DEF MoreFields, SwapProfile, Unchanged
<1>8. ASSUME CleanProfile PROVE HeldOnce'
  BY <1>0, <1>8 DEF MoreFields, CleanProfile
<1>9. ASSUME NEW d \in BOOLEAN, Assign(d) PROVE HeldOnce'
  BY <1>0, <1>9 DEF MoreFields, Assign
<1>10. ASSUME WorkerBreaks PROVE HeldOnce'
  BY <1>0, <1>10 DEF MoreFields, WorkerBreaks, BreaksOff
<1>11. ASSUME NEW r \in Request, NEW a \in Actor, CreateUploads(r, a) PROVE HeldOnce'
  BY <1>0, <1>11 DEF MoreFields, CreateUploads, Upload, NoRequest, Begins, Held, WorkerHolds
<1>12. ASSUME NEW r \in Request, NEW a \in Actor, CreateActor(r, a) PROVE HeldOnce'
  BY <1>0, <1>12 DEF MoreFields, CreateActor, Created, Done, NoRequest
<1>13. ASSUME NEW r \in Request, NEW a \in Actor, CreateConflicts(r, a) PROVE HeldOnce'
  BY <1>0, <1>13 DEF MoreFields, CreateConflicts, Done, NoRequest
<1>14. ASSUME NEW r \in Request, NEW a \in Actor, UpdateReads(r, a) PROVE HeldOnce'
  BY <1>0, <1>14 DEF MoreFields, UpdateReads, Starts, NoRequest, Begins, Held, WorkerHolds
<1>15. ASSUME NEW r \in Request, NEW a \in Actor, UpdateUploads(r, a) PROVE HeldOnce'
  BY <1>0, <1>15, UpdateUploadsEffect DEF MoreFields, Fields, Kept, KeptActors
<1>16. ASSUME NEW r \in Request, NEW a \in Actor, NEW c \in BOOLEAN, UpdateActor(r, a, c)
       PROVE  HeldOnce'
  BY <1>0, <1>16, UpdateActorEffect DEF MoreFields, Fields, Kept, KeptActors
<1>17. ASSUME NEW r \in Request, NEW a \in Actor, DeleteReads(r, a) PROVE HeldOnce'
  BY <1>0, <1>17 DEF MoreFields, DeleteReads, NoRequest, Begins, Held, WorkerHolds
<1>18. ASSUME NEW r \in Request, NEW a \in Actor, DeleteRecord(r, a) PROVE HeldOnce'
  BY <1>0, <1>18 DEF MoreFields, DeleteRecord
<1>19. ASSUME NEW r \in Request, NEW a \in Actor, DeleteImage(r, a) PROVE HeldOnce'
  BY <1>0, <1>19 DEF MoreFields, DeleteImage, Done, NoRequest
<1>20. ASSUME NEW r \in Request, NEW a \in Actor, NEW t \in Torrent, PullFrom(r, a, t)
       PROVE  HeldOnce'
  BY <1>0, <1>20 DEF MoreFields, PullFrom
<1>21. ASSUME NEW r \in Request, RecordGone(r) PROVE HeldOnce'
  BY <1>0, <1>21 DEF MoreFields, RecordGone, Removed
<1>22. ASSUME NEW r \in Request, NEW t \in Torrent, ResolveActors(r, t) PROVE HeldOnce'
  BY <1>0, <1>22 DEF MoreFields, ResolveActors, Starts, NoRequest, Begins, Held, WorkerHolds
<1>23. ASSUME NEW r \in Request, AttributeActors(r) PROVE HeldOnce'
  BY <1>0, <1>23 DEF MoreFields, AttributeActors, Done, NoRequest
<1>24. ASSUME NEW r \in Request, RequestBreaks(r) PROVE HeldOnce'
  BY <1>0, <1>24 DEF MoreFields, RequestBreaks, Done, NoRequest, BreaksOff
<1> HIDE DEF HeldOnce, CreatedOnce, New
<1> QED
  BY <1>1, <1>2, <1>3, <1>4, <1>5, <1>6, <1>7, <1>8, <1>9, <1>10, <1>11, <1>12, <1>13,
     <1>14, <1>15, <1>16, <1>17, <1>18, <1>19, <1>20, <1>21, <1>22, <1>23, <1>24
  DEF Next, WorkerStep, RequestStep

\* Only who has an actor in hand writes to its record.
LEMMA ReadStandsStep ==
  ASSUME TypeOK, OneActor, CreatedOnce, HeldOnce, ReadStands, Next
  PROVE  ReadStands'
<1> USE DEF OneActor, CreatedOnce, HeldOnce, ReadStands, Live, New
<1>0. MoreFields
  BY MoreTypes
<1>1. ASSUME NEW t \in Torrent, LoadActors(t) PROVE ReadStands'
  BY <1>0, <1>1 DEF MoreFields, LoadActors, Begins, Held, WorkerHolds
<1>2. ASSUME NEW a \in Actor, UploadProfile(a) PROVE ReadStands'
  BY <1>0, <1>2 DEF MoreFields, UploadProfile, Upload
<1>3. ASSUME NEW a \in Actor, UpdateEvidence(a) PROVE ReadStands'
  BY <1>0, <1>3, EvidenceEffect DEF MoreFields
<1>4. ASSUME InsertActor PROVE ReadStands'
  BY <1>0, <1>4 DEF MoreFields, InsertActor
<1>5. ASSUME InsertRaises PROVE ReadStands'
  BY <1>0, <1>5 DEF MoreFields, InsertRaises, BreaksOff
<1>6. ASSUME UploadImprovement PROVE ReadStands'
  BY <1>0, <1>6 DEF MoreFields, UploadImprovement, Upload
<1>7. ASSUME SwapProfile PROVE ReadStands'
  BY <1>0, <1>7, SwapEffect DEF MoreFields, Fields, Kept, KeptActors
<1>8. ASSUME CleanProfile PROVE ReadStands'
  BY <1>0, <1>8 DEF MoreFields, CleanProfile
<1>9. ASSUME NEW d \in BOOLEAN, Assign(d) PROVE ReadStands'
  BY <1>0, <1>9 DEF MoreFields, Assign
<1>10. ASSUME WorkerBreaks PROVE ReadStands'
  BY <1>0, <1>10 DEF MoreFields, WorkerBreaks, BreaksOff
<1>11. ASSUME NEW r \in Request, NEW a \in Actor, CreateUploads(r, a) PROVE ReadStands'
  BY <1>0, <1>11 DEF MoreFields, CreateUploads, Upload, NoRequest, Begins, Held, WorkerHolds
<1>12. ASSUME NEW r \in Request, NEW a \in Actor, CreateActor(r, a) PROVE ReadStands'
  BY <1>0, <1>12 DEF MoreFields, CreateActor, Created, Done, NoRequest
<1>13. ASSUME NEW r \in Request, NEW a \in Actor, CreateConflicts(r, a) PROVE ReadStands'
  BY <1>0, <1>13 DEF MoreFields, CreateConflicts, Done, NoRequest
<1>14. ASSUME NEW r \in Request, NEW a \in Actor, UpdateReads(r, a) PROVE ReadStands'
  BY <1>0, <1>14 DEF MoreFields, UpdateReads, Starts, NoRequest, Begins, Held, WorkerHolds
<1>15. ASSUME NEW r \in Request, NEW a \in Actor, UpdateUploads(r, a) PROVE ReadStands'
  BY <1>0, <1>15, UpdateUploadsEffect DEF MoreFields, Fields, Kept, KeptActors
<1>16. ASSUME NEW r \in Request, NEW a \in Actor, NEW c \in BOOLEAN, UpdateActor(r, a, c)
       PROVE  ReadStands'
  BY <1>0, <1>16, UpdateActorEffect DEF MoreFields, Fields, Kept, KeptActors
<1>17. ASSUME NEW r \in Request, NEW a \in Actor, DeleteReads(r, a) PROVE ReadStands'
  BY <1>0, <1>17 DEF MoreFields, DeleteReads, NoRequest, Begins, Held, WorkerHolds
<1>18. ASSUME NEW r \in Request, NEW a \in Actor, DeleteRecord(r, a) PROVE ReadStands'
  BY <1>0, <1>18, DeleteRecordEffect DEF MoreFields, Fields, Kept, KeptActors
<1>19. ASSUME NEW r \in Request, NEW a \in Actor, DeleteImage(r, a) PROVE ReadStands'
  BY <1>0, <1>19 DEF MoreFields, DeleteImage, Done, NoRequest
<1>20. ASSUME NEW r \in Request, NEW a \in Actor, NEW t \in Torrent, PullFrom(r, a, t)
       PROVE  ReadStands'
  BY <1>0, <1>20 DEF MoreFields, PullFrom
<1>21. ASSUME NEW r \in Request, RecordGone(r) PROVE ReadStands'
  BY <1>0, <1>21 DEF MoreFields, RecordGone, Removed
<1>22. ASSUME NEW r \in Request, NEW t \in Torrent, ResolveActors(r, t) PROVE ReadStands'
  BY <1>0, <1>22 DEF MoreFields, ResolveActors, Starts, NoRequest, Begins, Held, WorkerHolds
<1>23. ASSUME NEW r \in Request, AttributeActors(r) PROVE ReadStands'
  BY <1>0, <1>23 DEF MoreFields, AttributeActors, Done, NoRequest
<1>24. ASSUME NEW r \in Request, RequestBreaks(r) PROVE ReadStands'
  BY <1>0, <1>24 DEF MoreFields, RequestBreaks, Done, NoRequest, BreaksOff
<1> HIDE DEF OneActor, CreatedOnce, HeldOnce, ReadStands, Live, New
<1> QED
  BY <1>1, <1>2, <1>3, <1>4, <1>5, <1>6, <1>7, <1>8, <1>9, <1>10, <1>11, <1>12, <1>13,
     <1>14, <1>15, <1>16, <1>17, <1>18, <1>19, <1>20, <1>21, <1>22, <1>23, <1>24
  DEF Next, WorkerStep, RequestStep

\* Nobody attributes an actor that is being deleted.
LEMMA PullsAllStep ==
  ASSUME TypeOK, OneActor, CreatedOnce, HeldOnce, ReadStands, PullsAll, Next
  PROVE  PullsAll'
<1> USE DEF OneActor, CreatedOnce, HeldOnce, ReadStands, PullsAll, Attributed, Live, New
<1>0. MoreFields
  BY MoreTypes
<1>1. ASSUME NEW t \in Torrent, LoadActors(t) PROVE PullsAll'
  BY <1>0, <1>1 DEF MoreFields, LoadActors, Begins, Held, WorkerHolds
<1>2. ASSUME NEW a \in Actor, UploadProfile(a) PROVE PullsAll'
  BY <1>0, <1>2 DEF MoreFields, UploadProfile, Upload
<1>3. ASSUME NEW a \in Actor, UpdateEvidence(a) PROVE PullsAll'
  BY <1>0, <1>3, EvidenceEffect DEF MoreFields
<1>4. ASSUME InsertActor PROVE PullsAll'
  BY <1>0, <1>4 DEF MoreFields, InsertActor
<1>5. ASSUME InsertRaises PROVE PullsAll'
  BY <1>0, <1>5 DEF MoreFields, InsertRaises, BreaksOff
<1>6. ASSUME UploadImprovement PROVE PullsAll'
  BY <1>0, <1>6 DEF MoreFields, UploadImprovement, Upload
<1>7. ASSUME SwapProfile PROVE PullsAll'
  BY <1>0, <1>7, SwapEffect DEF MoreFields, Fields, Kept, KeptActors
<1>8. ASSUME CleanProfile PROVE PullsAll'
  BY <1>0, <1>8 DEF MoreFields, CleanProfile
<1>9. ASSUME NEW d \in BOOLEAN, Assign(d) PROVE PullsAll'
  BY <1>0, <1>9 DEF MoreFields, Assign
<1>10. ASSUME WorkerBreaks PROVE PullsAll'
  BY <1>0, <1>10 DEF MoreFields, WorkerBreaks, BreaksOff
<1>11. ASSUME NEW r \in Request, NEW a \in Actor, CreateUploads(r, a) PROVE PullsAll'
  BY <1>0, <1>11 DEF MoreFields, CreateUploads, Upload, NoRequest, Begins, Held, WorkerHolds
<1>12. ASSUME NEW r \in Request, NEW a \in Actor, CreateActor(r, a) PROVE PullsAll'
  BY <1>0, <1>12 DEF MoreFields, CreateActor, Created, Done, NoRequest
<1>13. ASSUME NEW r \in Request, NEW a \in Actor, CreateConflicts(r, a) PROVE PullsAll'
  BY <1>0, <1>13 DEF MoreFields, CreateConflicts, Done, NoRequest
<1>14. ASSUME NEW r \in Request, NEW a \in Actor, UpdateReads(r, a) PROVE PullsAll'
  BY <1>0, <1>14 DEF MoreFields, UpdateReads, Starts, NoRequest, Begins, Held, WorkerHolds
<1>15. ASSUME NEW r \in Request, NEW a \in Actor, UpdateUploads(r, a) PROVE PullsAll'
  BY <1>0, <1>15, UpdateUploadsEffect DEF MoreFields, Fields, Kept, KeptActors
<1>16. ASSUME NEW r \in Request, NEW a \in Actor, NEW c \in BOOLEAN, UpdateActor(r, a, c)
       PROVE  PullsAll'
  BY <1>0, <1>16, UpdateActorEffect DEF MoreFields, Fields, Kept, KeptActors
<1>17. ASSUME NEW r \in Request, NEW a \in Actor, DeleteReads(r, a) PROVE PullsAll'
  BY <1>0, <1>17 DEF MoreFields, DeleteReads, NoRequest, Begins, Held, WorkerHolds
<1>18. ASSUME NEW r \in Request, NEW a \in Actor, DeleteRecord(r, a) PROVE PullsAll'
  BY <1>0, <1>18 DEF MoreFields, DeleteRecord
<1>19. ASSUME NEW r \in Request, NEW a \in Actor, DeleteImage(r, a) PROVE PullsAll'
  BY <1>0, <1>19 DEF MoreFields, DeleteImage, Done, NoRequest
<1>20. ASSUME NEW r \in Request, NEW a \in Actor, NEW t \in Torrent, PullFrom(r, a, t)
       PROVE  PullsAll'
  BY <1>0, <1>20 DEF MoreFields, PullFrom
<1>21. ASSUME NEW r \in Request, RecordGone(r) PROVE PullsAll'
  BY <1>0, <1>21 DEF MoreFields, RecordGone, Removed
<1>22. ASSUME NEW r \in Request, NEW t \in Torrent, ResolveActors(r, t) PROVE PullsAll'
  BY <1>0, <1>22 DEF MoreFields, ResolveActors, Starts, NoRequest, Begins, Held, WorkerHolds
<1>23. ASSUME NEW r \in Request, AttributeActors(r) PROVE PullsAll'
  BY <1>0, <1>23 DEF MoreFields, AttributeActors, Done, NoRequest
<1>24. ASSUME NEW r \in Request, RequestBreaks(r) PROVE PullsAll'
  BY <1>0, <1>24 DEF MoreFields, RequestBreaks, Done, NoRequest, BreaksOff
<1> HIDE DEF OneActor, CreatedOnce, HeldOnce, ReadStands, PullsAll, Attributed, Live, New
<1> QED
  BY <1>1, <1>2, <1>3, <1>4, <1>5, <1>6, <1>7, <1>8, <1>9, <1>10, <1>11, <1>12, <1>13,
     <1>14, <1>15, <1>16, <1>17, <1>18, <1>19, <1>20, <1>21, <1>22, <1>23, <1>24
  DEF Next, WorkerStep, RequestStep

\* An image that is no longer referred to is in the hand of who replaced it.
LEMMA NoImageLostStep ==
  ASSUME TypeOK, OneActor, CreatedOnce, HeldOnce, ReadStands, NoImageLost, Next
  PROVE  NoImageLost'
<1> USE DEF OneActor, CreatedOnce, HeldOnce, ReadStands, NoImageLost, InHand, Image, Live, New
<1>0. MoreFields
  BY MoreTypes
<1>1. ASSUME NEW t \in Torrent, LoadActors(t) PROVE NoImageLost'
  BY <1>0, <1>1 DEF MoreFields, LoadActors, Begins, Held, WorkerHolds
<1>2. ASSUME NEW a \in Actor, UploadProfile(a) PROVE NoImageLost'
  BY <1>0, <1>2 DEF MoreFields, UploadProfile, Upload
<1>3. ASSUME NEW a \in Actor, UpdateEvidence(a) PROVE NoImageLost'
  BY <1>0, <1>3, EvidenceEffect DEF MoreFields
<1>4. ASSUME InsertActor PROVE NoImageLost'
  BY <1>0, <1>4, InsertActorEffect DEF MoreFields, Fields, Kept, KeptActors
<1>5. ASSUME InsertRaises PROVE NoImageLost'
  BY <1>0, <1>5 DEF MoreFields, InsertRaises, BreaksOff
<1>6. ASSUME UploadImprovement PROVE NoImageLost'
  BY <1>0, <1>6 DEF MoreFields, UploadImprovement, Upload
<1>7. ASSUME SwapProfile PROVE NoImageLost'
  BY <1>0, <1>7, SwapEffect DEF MoreFields, Fields, Kept, KeptActors
<1>8. ASSUME CleanProfile PROVE NoImageLost'
  BY <1>0, <1>8 DEF MoreFields, CleanProfile
<1>9. ASSUME NEW d \in BOOLEAN, Assign(d) PROVE NoImageLost'
  BY <1>0, <1>9 DEF MoreFields, Assign
<1>10. ASSUME WorkerBreaks PROVE NoImageLost'
  BY <1>0, <1>10 DEF MoreFields, WorkerBreaks, BreaksOff
<1>11. ASSUME NEW r \in Request, NEW a \in Actor, CreateUploads(r, a) PROVE NoImageLost'
  BY <1>0, <1>11, CreateUploadsEffect DEF MoreFields, Fields, Kept, KeptActors, Held, WorkerHolds
<1>12. ASSUME NEW r \in Request, NEW a \in Actor, CreateActor(r, a) PROVE NoImageLost'
  BY <1>0, <1>12, CreateActorEffect DEF MoreFields, Fields, Kept, KeptActors
<1>13. ASSUME NEW r \in Request, NEW a \in Actor, CreateConflicts(r, a) PROVE NoImageLost'
  BY <1>0, <1>13 DEF MoreFields, CreateConflicts, Done, NoRequest
<1>14. ASSUME NEW r \in Request, NEW a \in Actor, UpdateReads(r, a) PROVE NoImageLost'
  BY <1>0, <1>14 DEF MoreFields, UpdateReads, Starts, NoRequest, Begins, Held, WorkerHolds
<1>15. ASSUME NEW r \in Request, NEW a \in Actor, UpdateUploads(r, a) PROVE NoImageLost'
  BY <1>0, <1>15, UpdateUploadsEffect DEF MoreFields, Fields, Kept, KeptActors
<1>16. ASSUME NEW r \in Request, NEW a \in Actor, NEW c \in BOOLEAN, UpdateActor(r, a, c)
       PROVE  NoImageLost'
  BY <1>0, <1>16, UpdateActorEffect DEF MoreFields, Fields, Kept, KeptActors
<1>17. ASSUME NEW r \in Request, NEW a \in Actor, DeleteReads(r, a) PROVE NoImageLost'
  BY <1>0, <1>17 DEF MoreFields, DeleteReads, NoRequest, Begins, Held, WorkerHolds
<1>18. ASSUME NEW r \in Request, NEW a \in Actor, DeleteRecord(r, a) PROVE NoImageLost'
  BY <1>0, <1>18, DeleteRecordEffect DEF MoreFields, Fields, Kept, KeptActors
<1>19. ASSUME NEW r \in Request, NEW a \in Actor, DeleteImage(r, a) PROVE NoImageLost'
  BY <1>0, <1>19 DEF MoreFields, DeleteImage, Done, NoRequest
<1>20. ASSUME NEW r \in Request, NEW a \in Actor, NEW t \in Torrent, PullFrom(r, a, t)
       PROVE  NoImageLost'
  BY <1>0, <1>20 DEF MoreFields, PullFrom
<1>21. ASSUME NEW r \in Request, RecordGone(r) PROVE NoImageLost'
  BY <1>0, <1>21 DEF MoreFields, RecordGone, Removed
<1>22. ASSUME NEW r \in Request, NEW t \in Torrent, ResolveActors(r, t) PROVE NoImageLost'
  BY <1>0, <1>22 DEF MoreFields, ResolveActors, Starts, NoRequest, Begins, Held, WorkerHolds
<1>23. ASSUME NEW r \in Request, AttributeActors(r) PROVE NoImageLost'
  BY <1>0, <1>23 DEF MoreFields, AttributeActors, Done, NoRequest
<1>24. ASSUME NEW r \in Request, RequestBreaks(r) PROVE NoImageLost'
  BY <1>0, <1>24 DEF MoreFields, RequestBreaks, Done, NoRequest, BreaksOff
<1> HIDE DEF OneActor, CreatedOnce, HeldOnce, ReadStands, NoImageLost, InHand, Image, Live, New
<1> QED
  BY <1>1, <1>2, <1>3, <1>4, <1>5, <1>6, <1>7, <1>8, <1>9, <1>10, <1>11, <1>12, <1>13,
     <1>14, <1>15, <1>16, <1>17, <1>18, <1>19, <1>20, <1>21, <1>22, <1>23, <1>24
  DEF Next, WorkerStep, RequestStep

\* Initially there are no images, and no actors.
LEMMA InitTidy == Init => HeldOnce /\ ReadStands /\ PullsAll /\ NoImageLost
BY DEF Init, HeldOnce, ReadStands, PullsAll, NoImageLost, Attributed, NoRequest, Unused

LEMMA TidyStep ==
  IInv /\ HeldOnce /\ ReadStands /\ PullsAll /\ NoImageLost /\ [Next]_vars
    => (HeldOnce /\ ReadStands /\ PullsAll /\ NoImageLost)'
<1> SUFFICES ASSUME IInv, HeldOnce, ReadStands, PullsAll, NoImageLost, [Next]_vars
             PROVE  HeldOnce' /\ ReadStands' /\ PullsAll' /\ NoImageLost'
  OBVIOUS
<1>1. CASE Next
  BY <1>1, HeldOnceStep, ReadStandsStep, PullsAllStep, NoImageLostStep DEF IInv
<1>2. CASE UNCHANGED vars
  BY <1>2 DEF vars, HeldOnce, ReadStands, PullsAll, NoImageLost, Attributed, InHand, Image, Live
<1> QED BY <1>1, <1>2

\* NothingLeftBehind: after createActor, updateActor, deleteActor and automatic analysis have
\* come one after another and to an end, no image and no attribution is left over.
THEOREM LeavesNothing == Spec => []NothingLeftBehind
<1>1. IInv /\ HeldOnce /\ PullsAll /\ NoImageLost => NothingLeftBehind
  <2> SUFFICES ASSUME IInv, HeldOnce, PullsAll, NoImageLost,
                      NEW a \in Actor, a \notin disturbed, a \notin Held
               PROVE  /\ ImagesOf(a) = IF Live(a) THEN {Image(a, actors[a].image)} ELSE {}
                      /\ actors[a].state = "deleted" =>
                            \A t \in Torrent : a \notin system[t] \cup user[t]
    BY DEF NothingLeftBehind
  <2>1. \A r \in Request : a \notin req[r].actors
    BY DEF Held
  <2>2. w.pc # "idle" => a \notin w.ids
    BY DEF Held, WorkerHolds
  <2>3. \A n \in Nat : ~InHand(a, n)
    BY <2>1, <2>2 DEF InHand, HeldOnce
  <2>4. MoreFields
    BY MoreTypes DEF IInv
  <2>5. \A k \in ImagesOf(a) : Live(a) /\ k = Image(a, actors[a].image)
    <3> SUFFICES ASSUME NEW k \in ImagesOf(a) PROVE Live(a) /\ k = Image(a, actors[a].image)
      OBVIOUS
    <3>1. k \in blobs /\ k[1] = a /\ k \in Actor \X Nat
      BY <2>4 DEF ImagesOf, MoreFields
    <3>2. k = Image(a, k[2]) /\ k[2] \in Nat
      BY <3>1 DEF Image
    <3> QED BY <2>3, <3>1, <3>2 DEF NoImageLost
  <2>6. Live(a) => Image(a, actors[a].image) \in ImagesOf(a)
    BY DEF IInv, ProfileExists, ImagesOf, Image
  <2>7. actors[a].state = "deleted" => \A t \in Torrent : a \notin system[t] \cup user[t]
    BY <2>1 DEF PullsAll, Attributed
  <2> QED BY <2>5, <2>6, <2>7
<1> QED BY <1>1, InitIInv, InitTidy, Inductive, TidyStep, PTL DEF Spec
=============================================================================
