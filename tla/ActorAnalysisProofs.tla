------------------------ MODULE ActorAnalysisProofs ------------------------
(***************************************************************************)
(* ActorAnalysis, for every set of torrents, recipes and fingerprints and  *)
(* every bound on attempts and processing writes: what is stored belongs   *)
(* to the frames that are shown, and to a claim nobody has disturbed.      *)
(***************************************************************************)
EXTENDS ActorAnalysis, TLAPS

(***************************************************************************)
(* Writes to one record.                                                   *)
(***************************************************************************)

\* A processing write moves processingUpdatedAt and nothing else.
LEMMA TouchedRecord ==
  ASSUME NEW d \in Record, d.updated < MaxUpdates
  PROVE  /\ Touched(d) \in Record
         /\ Touched(d).updated = d.updated + 1
         /\ Touched(d).status = d.status
         /\ Touched(d).shown = d.shown
         /\ Touched(d).art = d.art
         /\ Touched(d).complete = d.complete
<1>1. d.updated + 1 \in 0 .. MaxUpdates
  BY AnalysisAssumption DEF Record
<1> QED BY <1>1 DEF Touched, Record

\* processingState is the only other field a requeue or _finish changes.
LEMMA CompleteRecord ==
  ASSUME NEW e \in Record, NEW b \in BOOLEAN
  PROVE  LET d == [e EXCEPT !.complete = b] IN
         /\ d \in Record
         /\ d.updated = e.updated
         /\ d.status = e.status
         /\ d.shown = e.shown
         /\ d.art = e.art
BY DEF Record

\* A reset makes the torrent pending and leaves the preview alone.
LEMMA ResetRecord ==
  ASSUME NEW d \in Record
  PROVE  /\ Reset(d) \in Record
         /\ Reset(d).status = "pending"
         /\ Reset(d).updated = d.updated
         /\ Reset(d).art = d.art
         /\ Reset(d).complete = d.complete
<1>1. 0 \in 0 .. MaxAttempts
  BY AnalysisAssumption
<1> QED BY <1>1 DEF Reset, Record

\* So does the repair of a lapsed lease.
LEMMA RepairedRecord ==
  ASSUME NEW d \in Record
  PROVE  Repaired(d) \in Record /\ Repaired(d).status = "pending"
BY DEF Repaired, Record

LEMMA InitIInv == Init => IInv
<1> SUFFICES ASSUME Init PROVE IInv
  OBVIOUS
<1>1. PICK stamp \in Stamp, r \in Recipe :
        /\ rec = [t \in Torrent |-> NewRecord(stamp, r)]
        /\ w = Starting(stamp)
        /\ recipe = r
        /\ intact = FALSE
  BY DEF Init
<1>2. NewRecord(stamp, r) \in Record
  BY AnalysisAssumption, <1>1 DEF NewRecord, Record, Mixed
<1>3. Starting(stamp) \in Worker
  BY AnalysisAssumption, <1>1 DEF Starting, Worker, Mixed
<1>4. TypeOK
  BY <1>1, <1>2, <1>3 DEF TypeOK
<1>5. w.pc = "repair" /\ w.torrent = NoTorrent
  BY <1>1 DEF Starting
<1>6. \A t \in Torrent : rec[t].status = "pending"
  BY <1>1 DEF NewRecord
<1> QED BY <1>4, <1>5, <1>6 DEF IInv, ClaimStands, AssignedFromShownFrames

-----------------------------------------------------------------------------
(***************************************************************************)
(* The worker.                                                             *)
(***************************************************************************)

LEMMA RepairKeeps == IInv /\ RepairStaleProcessing => IInv'
<1> SUFFICES ASSUME IInv, RepairStaleProcessing PROVE IInv'
  OBVIOUS
<1>1. rec \in [Torrent -> Record] /\ w \in Worker /\ w.torrent = NoTorrent
  BY DEF IInv, TypeOK, RepairStaleProcessing
<1>2. /\ rec' = [t \in Torrent |-> IF LeaseLost(rec[t]) THEN Repaired(rec[t]) ELSE rec[t]]
      /\ recipe' = recipe /\ intact' = intact
  BY DEF RepairStaleProcessing
<1>3. w' = [w EXCEPT !.pc = "claim", !.plan = 1]
  BY DEF RepairStaleProcessing
<1>4. ASSUME NEW t \in Torrent
      PROVE  rec'[t] \in Record /\ (rec'[t].status = "succeeded" => rec'[t] = rec[t])
  BY <1>1, <1>2, RepairedRecord
<1>5. rec' \in [Torrent -> Record]
  BY <1>2, <1>4
<1>n. 1 \in 1 .. 3
  OBVIOUS
<1>6. w' \in Worker /\ w'.pc = "claim" /\ w'.torrent = NoTorrent
  BY <1>1, <1>3, <1>n DEF Worker
<1>7. AssignedFromShownFrames'
  BY <1>4 DEF IInv, AssignedFromShownFrames
<1> QED BY <1>2, <1>5, <1>6, <1>7 DEF IInv, TypeOK, ClaimStands

LEMMA ClaimKeeps == ASSUME NEW t \in Torrent, IInv, Claim(t) PROVE IInv'
<1>1. rec \in [Torrent -> Record] /\ w \in Worker /\ rec[t] \in Record
  BY DEF IInv, TypeOK
<1> DEFINE n == IF rec[t].status = "succeeded" THEN 1 ELSE rec[t].attempts + 1
           d == [rec[t] EXCEPT !.status = "processing", !.lease = "live", !.attempts = n]
<1>2. /\ rec' = [rec EXCEPT ![t] = d]
      /\ w' = [w EXCEPT !.pc = "analyse", !.torrent = t, !.updated = rec[t].updated,
                        !.stamp = rec[t].stamp]
      /\ intact' = TRUE /\ recipe' = recipe
      /\ Matches(rec[t], w.plan)
  BY <1>1 DEF Claim, Record
<1>3. rec[t].complete /\ (rec[t].status # "succeeded" => rec[t].attempts < MaxAttempts)
  BY <1>2 DEF Matches, Eligible, AttemptLeft
<1>n. n \in 0 .. MaxAttempts
  BY <1>1, <1>3, AnalysisAssumption DEF Record
<1> HIDE DEF n
<1>4. d \in Record
  BY <1>1, <1>n DEF Record
<1>5. d.complete /\ d.status = "processing" /\ d.updated = rec[t].updated
  BY <1>1, <1>3 DEF Record
<1> HIDE DEF d
<1>6. rec' \in [Torrent -> Record] /\ rec'[t] = d /\ \A u \in Torrent \ {t} : rec'[u] = rec[u]
  BY <1>1, <1>2, <1>4
<1>7. w' \in Worker /\ w'.pc = "analyse" /\ w'.torrent = t /\ w'.updated = rec[t].updated
  BY <1>1, <1>2 DEF Worker, Record
<1>8. AssignedFromShownFrames'
  BY <1>5, <1>6 DEF IInv, AssignedFromShownFrames
<1>9. rec[t].updated <= rec[t].updated
  BY <1>1, AnalysisAssumption DEF Record
<1>10. ClaimStands'
  BY <1>2, <1>5, <1>6, <1>7, <1>9 DEF ClaimStands
<1> QED BY <1>2, <1>6, <1>7, <1>8, <1>10 DEF IInv, TypeOK

LEMMA NextPlanKeeps == IInv /\ NextPlan => IInv'
<1> SUFFICES ASSUME IInv, NextPlan PROVE IInv'
  OBVIOUS
<1>1. w \in Worker /\ w.torrent = NoTorrent /\ UNCHANGED <<rec, recipe, intact>>
  BY DEF IInv, TypeOK, NextPlan
<1>2. w' \in Worker /\ w'.pc \in {"claim", "repair"} /\ w'.torrent = NoTorrent
  BY <1>1 DEF NextPlan, Worker
<1> QED BY <1>1, <1>2 DEF IInv, TypeOK, ClaimStands, AssignedFromShownFrames

LEMMA AnalyseKeeps == IInv /\ AnalyseFrames => IInv'
<1> SUFFICES ASSUME IInv, AnalyseFrames PROVE IInv'
  OBVIOUS
<1>1. w \in Worker /\ w.pc = "analyse" /\ UNCHANGED <<rec, recipe, intact>>
  BY DEF IInv, TypeOK, AnalyseFrames
<1>2. w.torrent \in Torrent /\ rec[w.torrent] \in Record
  BY <1>1 DEF IInv, TypeOK, ClaimStands
<1>3. PICK images \in {rec[w.torrent].art, Mixed} :
        /\ rec[w.torrent].complete => images = rec[w.torrent].art
        /\ w' = [w EXCEPT !.pc = "store", !.images = images]
  BY DEF AnalyseFrames
<1>4. images \in 0 .. Mixed
  BY <1>2, <1>3, AnalysisAssumption DEF Record, Mixed
<1>5. /\ w' \in Worker /\ w'.pc = "store" /\ w'.torrent = w.torrent
      /\ w'.updated = w.updated /\ w'.images = images
  BY <1>1, <1>3, <1>4 DEF Worker
<1>6. ClaimStands'
  BY <1>1, <1>3, <1>5 DEF IInv, ClaimStands
<1> QED BY <1>1, <1>5, <1>6 DEF IInv, TypeOK, AssignedFromShownFrames

LEMMA StoreKeeps == IInv /\ StoreAssignment => IInv'
<1> SUFFICES ASSUME IInv, StoreAssignment PROVE IInv'
  OBVIOUS
<1>1. /\ rec \in [Torrent -> Record] /\ w \in Worker /\ recipe \in Recipe
      /\ w.pc = "store" /\ UNCHANGED <<recipe, intact>>
  BY DEF IInv, TypeOK, StoreAssignment
<1>2. w.torrent \in Torrent /\ rec[w.torrent] \in Record
  BY <1>1 DEF IInv, TypeOK, ClaimStands
<1> DEFINE t == w.torrent
           d == [rec[t] EXCEPT !.status = "succeeded", !.lease = "none",
                               !.fp = Fingerprint(w.stamp), !.shown = <<w.images, recipe>>]
<1>3. /\ w' = Resumed
      /\ rec' = [rec EXCEPT ![t] = IF Current(rec[t]) THEN d ELSE rec[t]]
  BY <1>1, <1>2 DEF StoreAssignment
<1>4. /\ d \in Record
      /\ d.shown[1] = w.images /\ d.art = rec[t].art
  BY <1>1, <1>2 DEF Record, Worker, Fingerprint
<1>5. Current(rec[t]) => w.images = rec[t].art
  BY <1>1 DEF Current, IInv, ClaimStands
<1> HIDE DEF d
<1>6. rec' \in [Torrent -> Record]
  BY <1>1, <1>2, <1>3, <1>4
<1>7. \A u \in Torrent : rec'[u] = rec[u] \/ (rec'[u] = d /\ w.images = rec[t].art)
  BY <1>1, <1>2, <1>3, <1>5
<1>8. AssignedFromShownFrames'
  BY <1>4, <1>7 DEF IInv, AssignedFromShownFrames
<1>9. w' \in Worker /\ w'.pc = "repair" /\ w'.torrent = NoTorrent
  BY <1>1, <1>3 DEF Resumed, Worker
<1> QED BY <1>1, <1>6, <1>8, <1>9 DEF IInv, TypeOK, ClaimStands

LEMMA FailKeeps == IInv /\ Fail => IInv'
<1> SUFFICES ASSUME IInv, Fail PROVE IInv'
  OBVIOUS
<1>1. /\ rec \in [Torrent -> Record] /\ w \in Worker
      /\ w.pc \in {"analyse", "store"} /\ UNCHANGED <<recipe, intact>>
  BY DEF IInv, TypeOK, Fail
<1>2. w.torrent \in Torrent /\ rec[w.torrent] \in Record
  BY <1>1 DEF IInv, TypeOK, ClaimStands
<1> DEFINE d == [rec[w.torrent] EXCEPT !.status = "failed", !.lease = "none"]
<1>3. w' = Resumed /\ d \in Record /\ d.status = "failed"
  BY <1>2 DEF Fail, Record
<1>4. rec' = [rec EXCEPT ![w.torrent] =
                IF rec[w.torrent].status = "processing" THEN d ELSE rec[w.torrent]]
  BY <1>1, <1>2 DEF Fail
<1> HIDE DEF d
<1>5. rec' \in [Torrent -> Record]
  BY <1>1, <1>2, <1>3, <1>4
<1>6. \A u \in Torrent : rec'[u] = rec[u] \/ rec'[u] = d
  BY <1>1, <1>2, <1>4
<1>7. AssignedFromShownFrames'
  BY <1>3, <1>6 DEF IInv, AssignedFromShownFrames
<1>8. w' \in Worker /\ w'.pc = "repair" /\ w'.torrent = NoTorrent
  BY <1>1, <1>3 DEF Resumed, Worker
<1> QED BY <1>1, <1>5, <1>7, <1>8 DEF IInv, TypeOK, ClaimStands

LEMMA ExitKeeps == IInv /\ WorkerExits => IInv'
<1> SUFFICES ASSUME IInv, WorkerExits PROVE IInv'
  OBVIOUS
<1>1. w \in Worker /\ UNCHANGED <<rec, recipe, intact>>
  BY DEF IInv, TypeOK, WorkerExits
<1>2. w' \in Worker /\ w'.pc = "down" /\ w'.torrent = NoTorrent
  BY <1>1 DEF WorkerExits, Worker
<1> QED BY <1>1, <1>2 DEF IInv, TypeOK, ClaimStands, AssignedFromShownFrames
-----------------------------------------------------------------------------
(***************************************************************************)
(* The others write to one record: the processing time moves on, or the    *)
(* record is reset, or the lease is all that changes.                      *)
(***************************************************************************)

\* A record that is written to by another than the worker: the claim on it
\* either is void or loses only its lease.
LEMMA OtherWriteKeeps ==
  ASSUME NEW t \in Torrent, NEW d \in Record, IInv,
         rec' = [rec EXCEPT ![t] = d], w' = w, recipe' = recipe, intact' \in BOOLEAN,
         d.status = "succeeded" =>
            rec[t].status = "succeeded" /\ d.shown = rec[t].shown /\ d.art = rec[t].art,
         rec[t].updated <= d.updated,
         d.updated = rec[t].updated =>
            d.complete = rec[t].complete /\ d.art = rec[t].art,
         d.updated = rec[t].updated /\ d.status = "processing" =>
            rec[t].status = "processing" /\ intact' = intact,
         w.torrent # t => intact' = intact
  PROVE  IInv'
<1>1. rec \in [Torrent -> Record] /\ w \in Worker /\ rec[t] \in Record
  BY DEF IInv, TypeOK
<1>2. rec' \in [Torrent -> Record] /\ rec'[t] = d /\ \A u \in Torrent \ {t} : rec'[u] = rec[u]
  BY <1>1
<1>3. TypeOK'
  BY <1>2 DEF IInv, TypeOK
<1>4. AssignedFromShownFrames'
  BY <1>2 DEF IInv, AssignedFromShownFrames
<1>5. ASSUME w.pc \in {"analyse", "store"}, w.torrent = t
      PROVE  ClaimStands'
  <2>1. w.updated <= rec[t].updated
    BY <1>5 DEF IInv, ClaimStands
  <2>2. rec[t].updated \in Nat /\ d.updated \in Nat /\ w.updated \in Nat
    BY <1>1 DEF Record, Worker
  <2>3. w.updated <= d.updated /\ (w.updated = d.updated => d.updated = rec[t].updated)
    BY <2>1, <2>2
  <2>4. w.updated = d.updated =>
          d.complete /\ (w.pc = "store" => w.images = d.art)
    BY <1>5, <2>3 DEF IInv, ClaimStands
  <2>5. w.updated = d.updated /\ d.status = "processing" => intact'
    <3> HAVE w.updated = d.updated /\ d.status = "processing"
    <3>1. d.updated = rec[t].updated /\ rec[t].status = "processing" /\ intact' = intact
      BY <2>3
    <3>2. intact
      BY <1>5, <3>1 DEF IInv, ClaimStands
    <3> QED BY <3>1, <3>2
  <2> QED BY <1>2, <1>5, <2>3, <2>4, <2>5 DEF ClaimStands
<1>6. ASSUME w.pc \in {"analyse", "store"}, w.torrent # t
      PROVE  ClaimStands'
  <2>1. w.torrent \in Torrent /\ rec'[w.torrent] = rec[w.torrent] /\ intact' = intact
    BY <1>2, <1>6 DEF IInv, ClaimStands
  <2> QED BY <1>6, <2>1 DEF IInv, ClaimStands
<1>7. ClaimStands'
  BY <1>5, <1>6 DEF ClaimStands
<1> QED BY <1>3, <1>4, <1>7 DEF IInv

LEMMA OtherStepsKeep ==
  ASSUME NEW t \in Torrent, IInv,
         LeaseLapses(t) \/ PreviewStep(t) \/ ResetActorAnalysis(t)
  PROVE  IInv'
<1>1. rec \in [Torrent -> Record] /\ rec[t] \in Record /\ intact \in BOOLEAN
      /\ rec[t].updated \in Nat /\ MaxUpdates \in Nat
  BY AnalysisAssumption DEF IInv, TypeOK, Record
<1>2. CASE LeaseLapses(t)
  <2> DEFINE d == [rec[t] EXCEPT !.lease = "lapsed"]
  <2>1. /\ rec' = [rec EXCEPT ![t] = d] /\ w' = w /\ recipe' = recipe /\ intact' = intact
    BY <1>1, <1>2 DEF LeaseLapses
  <2>2. /\ d \in Record /\ d.status = rec[t].status /\ d.shown = rec[t].shown
        /\ d.art = rec[t].art /\ d.updated = rec[t].updated /\ d.complete = rec[t].complete
    BY <1>1 DEF Record
  <2>3. rec[t].updated <= d.updated /\ intact' \in BOOLEAN
    BY <1>1, <2>1, <2>2
  <2> HIDE DEF d
  <2> QED BY <2>1, <2>2, <2>3, OtherWriteKeeps
<1>3. CASE LeavesComplete(t)
  <2> DEFINE d == [Touched(rec[t]) EXCEPT !.complete = FALSE]
  <2>1. /\ rec' = [rec EXCEPT ![t] = d] /\ w' = w /\ recipe' = recipe
        /\ intact' \in BOOLEAN /\ (w.torrent # t => intact' = intact)
        /\ rec[t].updated < MaxUpdates
    BY <1>1, <1>3 DEF LeavesComplete, Moves, Holds
  <2>2. /\ d \in Record /\ d.status = rec[t].status /\ d.shown = rec[t].shown
        /\ d.art = rec[t].art /\ d.updated = rec[t].updated + 1
    <3> DEFINE e == Touched(rec[t])
    <3>1. /\ e \in Record /\ e.status = rec[t].status /\ e.shown = rec[t].shown
          /\ e.art = rec[t].art /\ e.updated = rec[t].updated + 1
      BY <1>1, <2>1, TouchedRecord
    <3> HIDE DEF e
    <3>2. d = [e EXCEPT !.complete = FALSE]
      BY DEF e
    <3> HIDE DEF d
    <3>3. /\ d \in Record /\ d.status = e.status /\ d.shown = e.shown
          /\ d.art = e.art /\ d.updated = e.updated
      BY <3>1, <3>2, CompleteRecord
    <3> QED BY <3>1, <3>3
  <2>3. rec[t].updated <= d.updated /\ d.updated # rec[t].updated
    BY <1>1, <2>2
  <2> HIDE DEF d
  <2> QED BY <2>1, <2>2, <2>3, OtherWriteKeeps
<1>4. ASSUME NEW frames \in BOOLEAN, NEW stamp \in Stamp, ReplaceFrames(t, frames, stamp)
      PROVE  IInv'
  <2> DEFINE d == [Reset(Touched(rec[t])) EXCEPT !.frames = frames, !.stamp = stamp,
                                                  !.art = rec[t].updated + 1]
  <2>1. /\ rec' = [rec EXCEPT ![t] = d] /\ w' = w /\ recipe' = recipe
        /\ intact' \in BOOLEAN /\ (w.torrent # t => intact' = intact)
        /\ rec[t].updated < MaxUpdates
    BY <1>1, <1>4 DEF ReplaceFrames, Moves, Holds
  <2>a. Touched(rec[t]) \in Record /\ Touched(rec[t]).updated = rec[t].updated + 1
    BY <1>1, <2>1, TouchedRecord
  <2>b. /\ Reset(Touched(rec[t])) \in Record
        /\ Reset(Touched(rec[t])).status = "pending"
        /\ Reset(Touched(rec[t])).updated = rec[t].updated + 1
    BY <2>a, ResetRecord
  <2>2. d \in Record /\ d.status = "pending" /\ d.updated = rec[t].updated + 1
    BY <2>b, <1>4 DEF Record
  <2>3. rec[t].updated <= d.updated /\ d.updated # rec[t].updated
    BY <1>1, <2>2
  <2> HIDE DEF d
  <2> QED BY <2>1, <2>2, <2>3, OtherWriteKeeps
<1>5. ASSUME NEW stamp \in Stamp, KeepFrames(t, stamp)
      PROVE  IInv'
  <2> DEFINE d == [Touched(rec[t]) EXCEPT !.stamp = stamp]
  <2>1. /\ rec' = [rec EXCEPT ![t] = d] /\ w' = w /\ recipe' = recipe
        /\ intact' \in BOOLEAN /\ (w.torrent # t => intact' = intact)
        /\ rec[t].updated < MaxUpdates
    BY <1>1, <1>5 DEF KeepFrames, Moves, Holds
  <2>2. /\ d \in Record /\ d.status = rec[t].status /\ d.shown = rec[t].shown
        /\ d.art = rec[t].art /\ d.updated = rec[t].updated + 1
    BY <1>1, <2>1, <1>5, TouchedRecord DEF Record
  <2>3. rec[t].updated <= d.updated /\ d.updated # rec[t].updated
    BY <1>1, <2>2
  <2> HIDE DEF d
  <2> QED BY <2>1, <2>2, <2>3, OtherWriteKeeps
<1>6. CASE Completes(t)
  <2> DEFINE d == [Touched(rec[t]) EXCEPT !.complete = TRUE]
  <2>1. /\ rec' = [rec EXCEPT ![t] = d] /\ w' = w /\ recipe' = recipe
        /\ intact' \in BOOLEAN /\ (w.torrent # t => intact' = intact)
        /\ rec[t].updated < MaxUpdates
    BY <1>1, <1>6 DEF Completes, Moves, Holds
  <2>2. /\ d \in Record /\ d.status = rec[t].status /\ d.shown = rec[t].shown
        /\ d.art = rec[t].art /\ d.updated = rec[t].updated + 1
    <3> DEFINE e == Touched(rec[t])
    <3>1. /\ e \in Record /\ e.status = rec[t].status /\ e.shown = rec[t].shown
          /\ e.art = rec[t].art /\ e.updated = rec[t].updated + 1
      BY <1>1, <2>1, TouchedRecord
    <3> HIDE DEF e
    <3>2. d = [e EXCEPT !.complete = TRUE]
      BY DEF e
    <3> HIDE DEF d
    <3>3. /\ d \in Record /\ d.status = e.status /\ d.shown = e.shown
          /\ d.art = e.art /\ d.updated = e.updated
      BY <3>1, <3>2, CompleteRecord
    <3> QED BY <3>1, <3>3
  <2>3. rec[t].updated <= d.updated /\ d.updated # rec[t].updated
    BY <1>1, <2>2
  <2> HIDE DEF d
  <2> QED BY <2>1, <2>2, <2>3, OtherWriteKeeps
<1>7. CASE ResetActorAnalysis(t)
  <2> DEFINE d == [Reset(rec[t]) EXCEPT !.fp = NoFingerprint]
  <2>1. /\ rec' = [rec EXCEPT ![t] = d] /\ w' = w /\ recipe' = recipe
        /\ intact' \in BOOLEAN /\ (w.torrent # t => intact' = intact)
    BY <1>1, <1>7 DEF ResetActorAnalysis, Moves, Holds
  <2>2. /\ d \in Record /\ d.status = "pending" /\ d.art = rec[t].art
        /\ d.updated = rec[t].updated /\ d.complete = rec[t].complete
    BY <1>1, ResetRecord DEF Record
  <2>3. rec[t].updated <= d.updated
    BY <1>1, <2>2
  <2> HIDE DEF d
  <2> QED BY <2>1, <2>2, <2>3, OtherWriteKeeps
<1> QED BY <1>2, <1>3, <1>4, <1>5, <1>6, <1>7 DEF PreviewStep

LEMMA NextIInv == IInv /\ [Next]_vars => IInv'
<1> SUFFICES ASSUME IInv, [Next]_vars PROVE IInv'
  OBVIOUS
<1>1. CASE WorkerStep
  BY <1>1, RepairKeeps, ClaimKeeps, NextPlanKeeps, AnalyseKeeps, StoreKeeps, FailKeeps
  DEF WorkerStep
<1>2. CASE WorkerExits
  BY <1>2, ExitKeeps
<1>3. ASSUME NEW r \in Recipe, WorkerStarts(r) PROVE IInv'
  <2>1. w \in Worker /\ w.pc = "down" /\ UNCHANGED <<rec, intact>> /\ recipe' = r
        /\ w' = [w EXCEPT !.pc = "repair"]
    BY <1>3 DEF WorkerStarts, IInv, TypeOK
  <2>2. w' \in Worker /\ w'.pc = "repair" /\ w'.torrent = w.torrent
    BY <2>1 DEF Worker
  <2>3. w.torrent = NoTorrent
    BY <2>1 DEF IInv
  <2> QED BY <1>3, <2>1, <2>2, <2>3 DEF IInv, TypeOK, ClaimStands, AssignedFromShownFrames
<1>4. CASE \E t \in Torrent : LeaseLapses(t) \/ PreviewStep(t) \/ ResetActorAnalysis(t)
  BY <1>4, OtherStepsKeep
<1>5. CASE UNCHANGED vars
  BY <1>5 DEF vars, IInv, TypeOK, ClaimStands, AssignedFromShownFrames
<1> QED BY <1>1, <1>2, <1>3, <1>4, <1>5 DEF Next
-----------------------------------------------------------------------------
\* Every field keeps its type; in particular no torrent is claimed for more than
\* max_attempts analyses.
THEOREM TypeCorrect == Spec => []TypeOK
<1>1. IInv => TypeOK
  BY DEF IInv
<1> QED BY InitIInv, NextIInv, <1>1, PTL DEF Spec

\* The actors of a succeeded torrent were found on the frames it shows.
THEOREM AssignedCorrectly == Spec => []AssignedFromShownFrames
<1>1. IInv => AssignedFromShownFrames
  BY DEF IInv
<1> QED BY InitIInv, NextIInv, <1>1, PTL DEF Spec

\* A step that makes a torrent succeed is _process of a claim nobody disturbed.
LEMMA OnlyIntactStores ==
  ASSUME NEW t \in Torrent, IInv, [Next]_vars,
         rec[t].status # "succeeded", rec'[t].status = "succeeded"
  PROVE  intact
<1>1. rec \in [Torrent -> Record] /\ rec[t] \in Record
  BY DEF IInv, TypeOK
<1>2. CASE StoreAssignment
  <2>1. w.pc = "store" /\ w.torrent \in Torrent
    BY <1>2 DEF StoreAssignment, IInv, ClaimStands
  <2>2. w.torrent = t /\ Current(rec[t])
    BY <1>1, <1>2, <2>1 DEF StoreAssignment
  <2> QED BY <2>1, <2>2 DEF Current, IInv, ClaimStands
<1>3. CASE RepairStaleProcessing
  BY <1>1, <1>3, RepairedRecord DEF RepairStaleProcessing
<1>4. CASE \E u \in Torrent : Claim(u)
  BY <1>1, <1>4 DEF Claim, Record
<1>5. CASE Fail
  <2>1. w.torrent \in Torrent
    BY <1>5 DEF Fail, IInv, ClaimStands
  <2> QED BY <1>1, <1>5, <2>1 DEF Fail, Record
<1>6. CASE \E u \in Torrent : LeaseLapses(u)
  BY <1>1, <1>6 DEF LeaseLapses, Record
<1>7. CASE \E u \in Torrent : PreviewStep(u)
  <2>1. PICK u \in Torrent : PreviewStep(u)
    BY <1>7
  <2>2. u = t
    BY <1>1, <2>1 DEF PreviewStep, LeavesComplete, ReplaceFrames, KeepFrames, Completes
  <2>3. rec[t].updated < MaxUpdates
    BY <2>1, <2>2 DEF PreviewStep, LeavesComplete, ReplaceFrames, KeepFrames, Completes
  <2>4. Touched(rec[t]) \in Record /\ Touched(rec[t]).status = rec[t].status
    BY <1>1, <2>3, TouchedRecord
  <2>5. Reset(Touched(rec[t])) \in Record /\ Reset(Touched(rec[t])).status = "pending"
    BY <2>4, ResetRecord
  <2>6. rec'[t].status \in {rec[t].status, "pending"}
    <3>1. CASE LeavesComplete(t) \/ Completes(t)
      BY <1>1, <2>4, <3>1 DEF LeavesComplete, Completes, Record
    <3>2. CASE \E frames \in BOOLEAN, stamp \in Stamp : ReplaceFrames(t, frames, stamp)
      BY <1>1, <2>5, <3>2 DEF ReplaceFrames, Record
    <3>3. CASE \E stamp \in Stamp : KeepFrames(t, stamp)
      BY <1>1, <2>4, <3>3 DEF KeepFrames, Record
    <3> QED BY <2>1, <2>2, <3>1, <3>2, <3>3 DEF PreviewStep
  <2> QED BY <2>6
<1>8. CASE \E u \in Torrent : ResetActorAnalysis(u)
  <2>1. PICK u \in Torrent : ResetActorAnalysis(u)
    BY <1>8
  <2>2. u = t
    BY <1>1, <2>1 DEF ResetActorAnalysis
  <2> QED BY <1>1, <2>1, <2>2, ResetRecord DEF ResetActorAnalysis, Record
<1>9. rec' # rec
  OBVIOUS
<1>10. ~NextPlan /\ ~AnalyseFrames /\ ~WorkerExits
       /\ ~(\E r \in Recipe : WorkerStarts(r)) /\ ~UNCHANGED vars
  BY <1>9 DEF NextPlan, AnalyseFrames, WorkerExits, WorkerStarts, vars
<1>11. WorkerStep => intact
  BY <1>2, <1>3, <1>4, <1>5, <1>10 DEF WorkerStep
<1> QED BY <1>6, <1>7, <1>8, <1>10, <1>11 DEF Next

\* A preview replacement, a requeue or a reset since the claim, in any order and
\* number, keeps the result of that claim from being stored.
THEOREM StaleDiscarded == Spec => StaleResultsDiscarded
<1>1. IInv /\ [Next]_vars =>
        [\A t \in Torrent :
            rec[t].status # "succeeded" /\ rec'[t].status = "succeeded" => intact]_vars
  BY OnlyIntactStores
<1> QED BY InitIInv, NextIInv, <1>1, PTL DEF Spec, StaleResultsDiscarded
=============================================================================
