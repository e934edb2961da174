----------------------- MODULE PreviewArtifactsProofs -----------------------
(***************************************************************************)
(* Proof that no crash, cancellation, failure or deletion between two      *)
(* commands leaves a torrent record that refers to a missing blob, for any *)
(* number of sessions, requests, frames and re-additions.                  *)
(***************************************************************************)
EXTENDS PreviewArtifacts, TLAPS

LEMMA Constants == Target \in Nat \ {0} /\ MaxId \in Nat \ {0}
  BY ArtifactAssumption DEF ArtifactAssumption

LEMMA Blanks == Idle \in Session /\ NoDeletion \in Deletion /\ NoRecord \in Record
<1>1. 0 \in 0 .. Target /\ 0 \in 0 .. MaxId
  BY Constants
<1>2. {} \in SUBSET Frames(Target) /\ {} \in SUBSET (Frames(Target) \cup {Raw})
  OBVIOUS
<1>3. Idle \in Session
  BY <1>1, <1>2 DEF Idle, Session
<1>4. NoDeletion \in Deletion
  BY <1>1, <1>2 DEF NoDeletion, Deletion
<1>5. NoRecord \in Record
  BY <1>1 DEF NoRecord, Record
<1> QED BY <1>3, <1>4, <1>5

LEMMA NewRecordType == \A id \in 0 .. MaxId : NewRecord(id) \in Record
  BY Constants DEF NewRecord, Record

LEMMA InitType == Init => TypeOK
<1> SUFFICES ASSUME Init PROVE TypeOK
  OBVIOUS
<1>1. doc \in Record /\ nextId \in 1 .. MaxId + 1
  BY Constants, NewRecordType DEF Init
<1>2. sess \in [Slot -> Session] /\ del \in [Request -> Deletion]
  BY Blanks DEF Init
<1> QED BY <1>1, <1>2 DEF Init, TypeOK

\* What happens to a session that puts frame k, or whose frame k goes.
LEMMA SessionPuts ==
    ASSUME NEW x \in Session, NEW k \in Frames(Target), k \in 0 .. Target
    PROVE  /\ [x EXCEPT !.put = k, !.mine = @ \cup {k}] \in Session
           /\ [x EXCEPT !.mine = @ \ {k}] \in Session
<1>1. x.mine \in SUBSET Frames(Target)
  BY DEF Session
<1>2. x.mine \cup {k} \in SUBSET Frames(Target) /\ x.mine \ {k} \in SUBSET Frames(Target)
  BY <1>1
<1> DEFINE more == x.mine \cup {k}
<1> DEFINE less == x.mine \ {k}
<1>3. [x EXCEPT !.put = k, !.mine = more] \in Session
  <2> HIDE DEF more
  <2> QED BY <1>2 DEF Session, more
<1>4. [x EXCEPT !.mine = less] \in Session
  <2> HIDE DEF less
  <2> QED BY <1>2 DEF Session, less
<1> QED BY <1>3, <1>4

LEMMA SessionType ==
    ASSUME TypeOK, NEW s \in Slot, SessionStep(s) PROVE TypeOK'
<1>1. /\ doc \in Record /\ sess \in [Slot -> Session] /\ sess[s] \in Session
      /\ blobs \subseteq Frames(Target) \cup {Raw} /\ described \subseteq Frames(Target)
      /\ Target \in Nat \ {0}
  BY ArtifactAssumption DEF TypeOK, ArtifactAssumption
<1>2. CASE Claim(s)
  <2> DEFINE x == [Idle EXCEPT !.pc = IF doc.raw THEN "loop" ELSE "metadata",
                               !.id = doc.id, !.old = doc.frames]
  <2>0. x \in Session
    BY <1>1, Blanks DEF Session, Record
  <2> HIDE DEF x
  <2>1. sess' \in [Slot -> Session]
    BY <1>1, <1>2, <2>0 DEF Claim, x
  <2> QED BY <1>1, <1>2, <2>1 DEF Claim, TypeOK, Record
<1>3. CASE PutRaw(s)
  BY <1>1, <1>3 DEF PutRaw, TypeOK, Session
<1>4. CASE StoreRaw(s)
  BY <1>1, <1>4 DEF StoreRaw, TypeOK, Session, Record
<1>5. CASE AttemptEnds(s)
  <2>1. PICK n \in 0 .. Target, replace \in BOOLEAN :
          sess' = [sess EXCEPT ![s].pc = "storing", ![s].new = ToStore(n, replace),
                               ![s].replace = replace, ![s].put = 0, ![s].mine = {}]
    BY <1>5 DEF AttemptEnds, Replaces
  <2>2. ToStore(n, replace) \in 0 .. Target
    BY <1>1 DEF ToStore
  <2> DEFINE n0 == ToStore(n, replace)
  <2> DEFINE x == [sess[s] EXCEPT !.pc = "storing", !.new = n0, !.replace = replace,
                                  !.put = 0, !.mine = {}]
  <2>3. x \in Session
    <3>1. {} \in SUBSET Frames(Target) /\ 0 \in 0 .. Target /\ n0 \in 0 .. Target
      BY <1>1, <2>2
    <3> HIDE DEF n0
    <3> QED BY <1>1, <3>1 DEF Session
  <2>4. sess' = [sess EXCEPT ![s] = x]
    BY <1>1, <2>1
  <2> HIDE DEF x
  <2>5. sess' \in [Slot -> Session]
    BY <1>1, <2>3, <2>4
  <2> QED BY <1>5, <2>5 DEF AttemptEnds, TypeOK
<1>6. CASE PutFrame(s)
  <2> DEFINE k == sess[s].put + 1
  <2>1. k \in Frames(Target) /\ k \in 0 .. Target
    <3>1. sess[s].put \in 0 .. Target /\ sess[s].new \in 0 .. Target
      BY <1>1 DEF Session
    <3>2. sess[s].put < sess[s].new
      BY <1>6 DEF PutFrame, MoreToPut
    <3> QED BY <1>1, <3>1, <3>2 DEF Frames
  <2> HIDE DEF k
  <2>2. \A r \in Slot : sess'[r] \in Session
    <3> TAKE r \in Slot
    <3>1. sess[r] \in Session
      BY <1>1
    <3>2. sess'[r] = IF r = s THEN [sess[r] EXCEPT !.put = k, !.mine = @ \cup {k}]
                              ELSE [sess[r] EXCEPT !.mine = @ \ {k}]
      BY <1>6 DEF PutFrame, k
    <3> QED BY <2>1, <3>1, <3>2, SessionPuts
  <2>3. sess' \in [Slot -> Session]
    BY <1>6, <2>2 DEF PutFrame
  <2>4. blobs' = blobs \cup {k} /\ described' = described \ {k}
    BY <1>6 DEF PutFrame, k
  <2> QED BY <1>1, <1>6, <2>1, <2>3, <2>4 DEF PutFrame, TypeOK
<1>7. CASE StoreResult(s)
  <2>1. Obsolete(s) \in SUBSET Frames(Target)
    BY <1>1 DEF Obsolete, Session, Frames
  <2>2. sess' \in [Slot -> Session]
    BY <1>1, <1>7, <2>1 DEF StoreResult, Session
  <2>3. doc' \in Record /\ described' \subseteq Frames(Target) /\ torn' \in BOOLEAN
    BY <1>1, <1>7 DEF StoreResult, Session, Record, TypeOK
  <2> QED BY <1>7, <2>2, <2>3 DEF StoreResult, TypeOK
<1>8. CASE DeleteObsolete(s)
  <2>1. PICK k \in sess[s].todo :
          /\ Remove(k)
          /\ sess' = [r \in Slot |-> [sess[r] EXCEPT !.mine = @ \ {k},
                                                     !.todo = IF r = s THEN @ \ {k} ELSE @]]
    BY <1>8 DEF DeleteObsolete
  <2>2. sess' \in [Slot -> Session]
    BY <1>1, <2>1 DEF Session
  <2> QED BY <1>1, <1>8, <2>1, <2>2 DEF DeleteObsolete, Remove, TypeOK
<1>9. CASE CleanupDone(s) \/ Continue(s)
  BY <1>1, <1>9 DEF CleanupDone, Continue, TypeOK, Session
<1>10. CASE Release(s)
  <2>2. doc' \in Record
    BY <1>1, <1>10 DEF Release, Record
  <2>3. torn' \in BOOLEAN
    BY <1>10 DEF Release, TypeOK, Tears
  <2> QED BY <1>1, <1>10, <2>2, <2>3, Blanks DEF Release, TypeOK
<1> QED BY <1>2, <1>3, <1>4, <1>5, <1>6, <1>7, <1>8, <1>9, <1>10 DEF SessionStep

LEMMA DeletionType ==
    ASSUME TypeOK, NEW d \in Request, DeletionStep(d) PROVE TypeOK'
<1>1. /\ doc \in Record /\ del \in [Request -> Deletion] /\ del[d] \in Deletion
      /\ sess \in [Slot -> Session]
      /\ Target \in Nat \ {0}
  BY ArtifactAssumption DEF TypeOK, ArtifactAssumption
<1>2. NoDeletion \in Deletion /\ NoRecord \in Record
  BY Blanks
<1>3. CASE DeletionReads(d)
  <2>1. Referenced(doc) \in SUBSET (Frames(Target) \cup {Raw})
    BY <1>1 DEF Referenced, Record, Frames
  <2>2. [pc |-> "read", id |-> doc.id, todo |-> Referenced(doc)] \in Deletion
    BY <1>1, <2>1 DEF Deletion, Record
  <2> QED BY <1>1, <1>3, <2>2 DEF DeletionReads, TypeOK
<1>4. CASE DeleteRecord(d)
  BY <1>1, <1>2, <1>4 DEF DeleteRecord, TypeOK, Deletion
<1>5. CASE DeleteBlob(d)
  <2>1. PICK k \in del[d].todo :
          /\ Remove(k)
          /\ del' = [del EXCEPT ![d].todo = @ \ {k}]
          /\ sess' = [r \in Slot |-> [sess[r] EXCEPT !.mine = @ \ {k}]]
    BY <1>5 DEF DeleteBlob
  <2>2. sess' \in [Slot -> Session]
    BY <1>1, <2>1 DEF Session
  <2>3. del' \in [Request -> Deletion]
    BY <1>1, <2>1 DEF Deletion
  <2> QED BY <1>5, <2>1, <2>2, <2>3 DEF DeleteBlob, Remove, TypeOK
<1>6. CASE DeletionEnds(d) \/ DeletionBreaks(d)
  BY <1>1, <1>2, <1>6 DEF DeletionEnds, DeletionBreaks, TypeOK
<1> QED BY <1>3, <1>4, <1>5, <1>6 DEF DeletionStep

LEMMA NextType == TypeOK /\ [Next]_vars => TypeOK'
<1> SUFFICES ASSUME TypeOK, [Next]_vars PROVE TypeOK'
  OBVIOUS
<1>1. /\ doc \in Record /\ nextId \in 1 .. MaxId + 1 /\ MaxId \in Nat \ {0}
      /\ Target \in Nat \ {0}
  BY ArtifactAssumption DEF TypeOK, ArtifactAssumption
<1>2. CASE WorkerDies
  <2>1. torn' \in BOOLEAN
    BY <1>2 DEF WorkerDies, Tears, TypeOK
  <2> QED BY <1>2, <2>1, Blanks DEF WorkerDies, TypeOK
<1>3. CASE Repair \/ QueueAgain \/ Cancel
  BY <1>1, <1>3 DEF Repair, QueueAgain, Cancel, TypeOK, Record
<1>4. CASE Add
  <2>1. nextId \in 0 .. MaxId /\ nextId + 1 \in 1 .. MaxId + 1
    BY <1>1, <1>4 DEF Add
  <2>2. doc' \in Record
    BY <1>4, <2>1, NewRecordType DEF Add
  <2>3. overlapped' \in BOOLEAN
    BY <1>4 DEF Add, TypeOK
  <2> QED BY <1>4, <2>1, <2>2, <2>3 DEF Add, TypeOK
<1>5. CASE UNCHANGED vars
  BY <1>5 DEF vars, TypeOK
<1> QED BY <1>2, <1>3, <1>4, <1>5, SessionType, DeletionType DEF Next

-----------------------------------------------------------------------------
(***************************************************************************)
(* The invariant.  Once two writers overlap nothing is claimed, so every   *)
(* step is taken from a state with one writer at most; it is that writer's *)
(* own record, or no record is left.                                       *)
(***************************************************************************)

Safe == ~overlapped /\ doc.id # 0 => SoleWriter /\ \A s \in Slot : WriterIsSafe(s)

LEMMA InitSafe == Init => IInv
<1> SUFFICES ASSUME Init PROVE IInv
  OBVIOUS
<1>1. doc.id # 0 /\ Referenced(doc) = {}
  BY DEF Init, NewRecord, Referenced, Frames
<1>2. SoleWriter /\ \A s \in Slot : WriterIsSafe(s)
  BY DEF Init, SoleWriter, WriterIsSafe, Alive, Idle, NoDeletion
<1> QED BY <1>1, <1>2, InitType DEF IInv, NoDanglingReference

\* Blobs that stay, and a record that refers to nothing new.
LEMMA ReferenceKept ==
    ASSUME NoDanglingReference, overlapped => overlapped',
           doc'.frames = doc.frames, doc'.raw => doc.raw,
           Referenced(doc) \subseteq blobs => Referenced(doc) \subseteq blobs'
    PROVE  NoDanglingReference'
  BY DEF NoDanglingReference, Referenced

\* One session moves on: it keeps its record, the others stay where they are.
LEMMA WriterMoves ==
    ASSUME TypeOK, SoleWriter, NEW s \in Slot, Alive(s),
           doc'.id = doc.id, del' = del,
           \A r \in Slot \ {s} : sess'[r].pc = sess[r].pc,
           sess'[s].pc = "idle" \/ sess'[s].id = sess[s].id,
           WriterIsSafe(s)'
    PROVE  SoleWriter' /\ \A r \in Slot : WriterIsSafe(r)'
<1>1. \A r \in Slot \ {s} : sess[r].pc = "idle" /\ sess'[r].pc = "idle"
  BY DEF SoleWriter, Alive
<1>2. \A r \in Slot \ {s} : WriterIsSafe(r)'
  BY <1>1 DEF WriterIsSafe
<1>3. SoleWriter'
  BY <1>1 DEF SoleWriter, Alive
<1> QED BY <1>2, <1>3

LEMMA ClaimSafe ==
    ASSUME IInv, NEW s \in Slot, Claim(s) PROVE NoDanglingReference' /\ Safe'
<1>1. TypeOK /\ doc \in Record /\ sess \in [Slot -> Session]
  BY DEF IInv, TypeOK
<1>2. doc'.frames = doc.frames /\ doc'.raw = doc.raw /\ doc'.id = doc.id /\ doc.id # 0
  BY <1>1 DEF Claim, Record
<1>3. NoDanglingReference'
  BY <1>2, ReferenceKept DEF IInv, Claim
<1>4. CASE overlapped'
  BY <1>3, <1>4 DEF Safe
<1>5. CASE ~overlapped'
  <2>1. \A r \in Slot : ~Alive(r)
    BY <1>5 DEF Claim
  <2>2. /\ sess'[s].pc \in {"loop", "metadata"} /\ sess'[s].id = doc.id
        /\ \A r \in Slot \ {s} : sess'[r] = sess[r]
    BY <1>1 DEF Claim, Idle
  <2>3. SoleWriter
    BY <1>2, <1>5 DEF IInv, Claim
  <2>4. SoleWriter'
    BY <1>2, <2>1, <2>2, <2>3 DEF SoleWriter, Alive, Claim
  <2>5. \A r \in Slot : WriterIsSafe(r)'
    BY <2>1, <2>2 DEF WriterIsSafe, Alive
  <2> QED BY <1>3, <2>4, <2>5 DEF Safe
<1> QED BY <1>4, <1>5

LEMMA SessionSafe ==
    ASSUME IInv, NEW s \in Slot, SessionStep(s), ~Claim(s)
    PROVE  NoDanglingReference' /\ Safe'
<1>1. /\ TypeOK /\ doc \in Record /\ sess \in [Slot -> Session] /\ sess[s] \in Session
      /\ NoDanglingReference
  BY DEF IInv, TypeOK
<1>2. Alive(s) /\ del' = del /\ overlapped' = overlapped
  BY DEF SessionStep, PutRaw, StoreRaw, AttemptEnds, PutFrame, StoreResult, DeleteObsolete,
         CleanupDone, Continue, Release, Alive
<1>3. doc'.id = doc.id
  BY <1>1 DEF SessionStep, PutRaw, StoreRaw, AttemptEnds, PutFrame, StoreResult,
         DeleteObsolete, CleanupDone, Continue, Release, Record
<1>4. /\ \A r \in Slot \ {s} : sess'[r].pc = sess[r].pc
      /\ sess'[s].pc = "idle" \/ sess'[s].id = sess[s].id
  <2>1. CASE PutRaw(s) \/ StoreRaw(s) \/ CleanupDone(s) \/ Continue(s)
    BY <1>1, <2>1 DEF PutRaw, StoreRaw, CleanupDone, Continue, Session
  <2>2. CASE Release(s)
    BY <1>1, <2>2 DEF Release, Idle
  <2>3. CASE AttemptEnds(s)
    BY <1>1, <2>3 DEF AttemptEnds, Session
  <2>4. CASE StoreResult(s)
    BY <1>1, <2>4 DEF StoreResult, Session
  <2>5. CASE PutFrame(s)
    BY <1>1, <2>5 DEF PutFrame, Session
  <2>6. CASE DeleteObsolete(s)
    <3>1. PICK k \in sess[s].todo :
            sess' = [r \in Slot |-> [sess[r] EXCEPT !.mine = @ \ {k},
                                                   !.todo = IF r = s THEN @ \ {k} ELSE @]]
      BY <2>6 DEF DeleteObsolete
    <3>2. \A r \in Slot : sess'[r].pc = sess[r].pc /\ sess'[r].id = sess[r].id
      BY <1>1, <3>1 DEF Session
    <3> QED BY <3>2
  <2> QED BY <2>1, <2>2, <2>3, <2>4, <2>5, <2>6 DEF SessionStep
<1>6. CASE overlapped
  BY <1>2, <1>6 DEF NoDanglingReference, Safe
<1>7. CASE ~overlapped /\ doc.id = 0
  <2>1. doc = NoRecord
    BY <1>7 DEF IInv
  <2>2. ~Matches(s)
    BY <2>1 DEF Matches, NoRecord
  <2>3. doc' = doc
    BY <2>2 DEF SessionStep, PutRaw, StoreRaw, AttemptEnds, PutFrame, StoreResult,
           DeleteObsolete, CleanupDone, Continue, Release
  <2>4. Referenced(doc) = {}
    BY <2>1 DEF Referenced, Frames, NoRecord
  <2> QED BY <1>7, <2>3, <2>4 DEF NoDanglingReference, Safe
<1>8. CASE ~overlapped /\ doc.id # 0
  <2>1. SoleWriter /\ WriterIsSafe(s) /\ Referenced(doc) \subseteq blobs
    BY <1>8 DEF IInv, NoDanglingReference
  <2>2. WriterIsSafe(s)' => Safe'
    BY <1>1, <1>2, <1>3, <1>4, <2>1, WriterMoves DEF Safe
  <2>3. CASE PutRaw(s)
    <3>1. sess'[s].pc = "saved" /\ doc' = doc /\ blobs' = blobs \cup {Raw}
      BY <1>1, <2>3 DEF PutRaw
    <3>2. WriterIsSafe(s)'
      BY <3>1 DEF WriterIsSafe
    <3>3. NoDanglingReference'
      BY <2>1, <3>1 DEF NoDanglingReference
    <3> QED BY <2>2, <3>2, <3>3
  <2>4. CASE StoreRaw(s)
    <3>1. doc' = doc \/ (doc'.frames = doc.frames /\ Raw \in blobs)
      BY <1>1, <2>1, <2>4 DEF StoreRaw, WriterIsSafe, Record
    <3>2. Referenced(doc') \subseteq blobs
      BY <2>1, <3>1 DEF Referenced
    <3>3. sess'[s].pc = "loop" /\ blobs' = blobs
      BY <1>1, <2>4 DEF StoreRaw
    <3>4. WriterIsSafe(s)'
      BY <3>3 DEF WriterIsSafe
    <3>5. NoDanglingReference'
      BY <3>2, <3>3 DEF NoDanglingReference
    <3> QED BY <2>2, <3>4, <3>5
  <2>5. CASE AttemptEnds(s)
    <3>1. PICK n \in 0 .. Target, replace \in BOOLEAN :
            sess' = [sess EXCEPT ![s].pc = "storing", ![s].new = ToStore(n, replace),
                                 ![s].replace = replace, ![s].put = 0, ![s].mine = {}]
      BY <2>5 DEF AttemptEnds, Replaces
    <3>2. sess'[s].pc = "storing" /\ sess'[s].put = 0 /\ sess'[s].new = ToStore(n, replace)
      BY <1>1, <3>1 DEF Session
    <3>3. 0 <= ToStore(n, replace) /\ Frames(0) = {}
      BY DEF ToStore, Frames
    <3>4. WriterIsSafe(s)'
      BY <3>2, <3>3 DEF WriterIsSafe
    <3> QED BY <2>1, <2>2, <2>5, <3>4 DEF AttemptEnds, NoDanglingReference
  <2>6. CASE PutFrame(s)
    <3> DEFINE k == sess[s].put + 1
    <3>1. blobs' = blobs \cup {k} /\ doc' = doc /\ sess[s].pc = "storing"
      BY <2>6 DEF PutFrame
    <3>2. sess[s].put \in 0 .. Target /\ sess[s].new \in 0 .. Target
          /\ sess[s].put < sess[s].new
      BY <1>1, <2>6 DEF PutFrame, MoreToPut, Session
    <3>3. Frames(k) = Frames(sess[s].put) \cup {k} /\ k <= sess[s].new
      BY <3>2, Constants DEF Frames
    <3>4. sess'[s].pc = "storing" /\ sess'[s].put = k /\ sess'[s].new = sess[s].new
      BY <1>1, <2>6 DEF PutFrame, Session
    <3>5. Frames(sess[s].put) \subseteq blobs
      BY <2>1, <3>1 DEF WriterIsSafe
    <3>6. WriterIsSafe(s)'
      <4> HIDE DEF k
      <4> QED BY <3>1, <3>3, <3>4, <3>5 DEF WriterIsSafe
    <3>7. NoDanglingReference'
      BY <2>1, <3>1 DEF NoDanglingReference
    <3> QED BY <2>2, <3>6, <3>7
  <2>7. CASE StoreResult(s)
    <3>1. sess[s].pc = "storing" /\ sess[s].put \in 0 .. Target /\ sess[s].new \in 0 .. Target
          /\ ~(sess[s].put < sess[s].new)
      BY <1>1, <2>7 DEF StoreResult, MoreToPut, Session
    <3>2. sess[s].put = sess[s].new /\ Frames(sess[s].put) \subseteq blobs
      BY <2>1, <3>1, Constants DEF WriterIsSafe
    <3>3. sess'[s].pc = "deleting" /\ sess'[s].todo = Obsolete(s) /\ blobs' = blobs
      BY <1>1, <2>7 DEF StoreResult, Session
    <3>4. CASE sess[s].replace /\ Matches(s)
      <4>1. doc'.frames = sess[s].new /\ doc'.raw = doc.raw
        BY <1>1, <2>7, <3>4 DEF StoreResult, Record
      <4>2. NoDanglingReference'
        BY <2>1, <3>2, <3>3, <4>1 DEF NoDanglingReference, Referenced
      <4>3. Obsolete(s) \cap Frames(doc'.frames) = {}
        BY <4>1 DEF Obsolete
      <4> QED BY <2>2, <3>3, <4>2, <4>3 DEF WriterIsSafe
    <3>5. CASE ~(sess[s].replace /\ Matches(s))
      <4>1. doc' = doc /\ Obsolete(s) = {}
        BY <2>7, <3>5 DEF StoreResult, Obsolete
      <4> QED BY <2>1, <2>2, <3>3, <4>1 DEF WriterIsSafe, NoDanglingReference
    <3> QED BY <3>4, <3>5
  <2>8. CASE DeleteObsolete(s)
    <3>1. PICK k \in sess[s].todo :
            /\ Remove(k)
            /\ sess' = [r \in Slot |-> [sess[r] EXCEPT !.mine = @ \ {k},
                                                       !.todo = IF r = s THEN @ \ {k} ELSE @]]
      BY <2>8 DEF DeleteObsolete
    <3>2. sess[s].pc = "deleting" /\ doc' = doc
      BY <2>8 DEF DeleteObsolete
    <3>3. k \in Frames(Target) /\ k \notin Frames(doc.frames) /\ k # Raw
      BY <1>1, <2>1, <3>2, Constants DEF WriterIsSafe, Session, Frames, Raw
    <3>4. NoDanglingReference'
      BY <2>1, <3>1, <3>2, <3>3 DEF Remove, NoDanglingReference, Referenced
    <3>5. sess'[s].pc = "deleting" /\ sess'[s].todo = sess[s].todo \ {k}
      BY <1>1, <3>1, <3>2 DEF Session
    <3>6. WriterIsSafe(s)'
      BY <2>1, <3>2, <3>5 DEF WriterIsSafe
    <3> QED BY <2>2, <3>4, <3>6
  <2>9. CASE CleanupDone(s) \/ Continue(s)
    <3>1. sess'[s].pc \in {"stored", "loop"} /\ doc' = doc /\ blobs' = blobs
      BY <1>1, <2>9 DEF CleanupDone, Continue, Session
    <3> QED BY <2>1, <2>2, <3>1 DEF WriterIsSafe, NoDanglingReference
  <2>10. CASE Release(s)
    <3>1. sess'[s].pc = "idle" /\ blobs' = blobs
      BY <1>1, <2>10 DEF Release, Idle
    <3>2. doc'.frames = doc.frames /\ doc'.raw = doc.raw
      BY <1>1, <2>10 DEF Release, Record
    <3>3. NoDanglingReference'
      BY <1>1, <1>2, <3>1, <3>2, ReferenceKept
    <3> QED BY <2>2, <3>1, <3>3 DEF WriterIsSafe
  <2> QED BY <2>3, <2>4, <2>5, <2>6, <2>7, <2>8, <2>9, <2>10 DEF SessionStep
<1> QED BY <1>6, <1>7, <1>8

LEMMA DeletionSafe ==
    ASSUME IInv, NEW d \in Request, DeletionStep(d)
    PROVE  NoDanglingReference' /\ Safe' /\ (doc'.id = 0 => doc' = NoRecord)
<1>1. /\ TypeOK /\ doc \in Record /\ sess \in [Slot -> Session] /\ del \in [Request -> Deletion]
      /\ NoDanglingReference /\ (doc.id = 0 => doc = NoRecord) /\ overlapped' = overlapped
  BY DEF IInv, TypeOK, DeletionStep, DeletionReads, DeleteRecord, DeleteBlob, DeletionEnds,
         DeletionBreaks
<1>2. Referenced(NoRecord) = {} /\ NoRecord.id = 0
  BY DEF Referenced, Frames, NoRecord
<1>3. CASE overlapped
  BY <1>1, <1>2, <1>3
  DEF NoDanglingReference, Safe, DeletionStep, DeletionReads, DeleteRecord, DeleteBlob,
      DeletionEnds, DeletionBreaks
<1>4. CASE ~overlapped /\ doc.id = 0
  <2>1. doc' = NoRecord
    BY <1>1, <1>4 DEF DeletionStep, DeletionReads, DeleteRecord, DeleteBlob, DeletionEnds,
           DeletionBreaks
  <2> QED BY <1>2, <2>1 DEF NoDanglingReference, Safe
<1>5. CASE ~overlapped /\ doc.id # 0
  <2>1. SoleWriter /\ \A s \in Slot : WriterIsSafe(s)
    BY <1>5 DEF IInv
  <2>2. CASE DeletionReads(d)
    <3>1. del'[d].pc = "read" /\ del'[d].id = doc.id
          /\ \A e \in Request \ {d} : del'[e] = del[e]
      BY <1>1, <2>2 DEF DeletionReads
    <3> QED BY <1>1, <1>5, <2>1, <2>2, <3>1
            DEF DeletionReads, NoDanglingReference, Safe, SoleWriter, WriterIsSafe, Alive
  <2>3. CASE DeleteRecord(d)
    <3>1. doc' = NoRecord
      BY <2>1, <2>3 DEF DeleteRecord, SoleWriter
    <3> QED BY <1>2, <3>1 DEF NoDanglingReference, Safe
  <2>4. ~DeleteBlob(d) /\ ~DeletionEnds(d)
    BY <2>1 DEF DeleteBlob, DeletionEnds, SoleWriter
  <2>5. CASE DeletionBreaks(d)
    <3>1. del'[d].pc = "idle" /\ \A e \in Request \ {d} : del'[e] = del[e]
      BY <1>1, <2>5 DEF DeletionBreaks, NoDeletion
    <3> QED BY <1>1, <1>5, <2>1, <2>5, <3>1
            DEF DeletionBreaks, NoDanglingReference, Safe, SoleWriter, WriterIsSafe, Alive
  <2> QED BY <2>2, <2>3, <2>4, <2>5 DEF DeletionStep
<1> QED BY <1>3, <1>4, <1>5

LEMMA NextSafe == IInv /\ [Next]_vars => IInv'
<1> SUFFICES ASSUME IInv, [Next]_vars PROVE IInv'
  OBVIOUS
<1>1. /\ TypeOK /\ doc \in Record /\ nextId \in 1 .. MaxId + 1
      /\ NoDanglingReference /\ (doc.id = 0 => doc = NoRecord) /\ Safe
  BY DEF IInv, TypeOK, Safe
<1>2. TypeOK'
  BY NextType DEF IInv
<1>3. CASE \E s \in Slot : SessionStep(s)
  <2>1. PICK s \in Slot : SessionStep(s)
    BY <1>3
  <2>2. NoDanglingReference' /\ Safe'
    BY <2>1, ClaimSafe, SessionSafe
  <2>3. doc'.id = 0 => doc' = NoRecord
    <3>1. CASE doc.id = 0
      <4>1. ~Matches(s) /\ ~Claim(s)
        BY <1>1, <3>1 DEF Matches, NoRecord, Claim
      <4>2. doc' = doc
        BY <2>1, <4>1
        DEF SessionStep, PutRaw, StoreRaw, AttemptEnds, PutFrame, StoreResult,
            DeleteObsolete, CleanupDone, Continue, Release
      <4> QED BY <1>1, <4>2
    <3>2. CASE doc.id # 0
      BY <1>1, <2>1, <3>2
      DEF SessionStep, Claim, PutRaw, StoreRaw, AttemptEnds, PutFrame, StoreResult,
          DeleteObsolete, CleanupDone, Continue, Release, Record
    <3> QED BY <3>1, <3>2
  <2> QED BY <1>2, <2>2, <2>3 DEF IInv, Safe
<1>4. CASE \E d \in Request : DeletionStep(d)
  BY <1>2, <1>4, DeletionSafe DEF IInv, Safe
<1>5. CASE WorkerDies
  <2>1. \A s \in Slot : sess'[s].pc = "idle"
    BY <1>5 DEF WorkerDies, Idle
  <2>2. Safe'
    BY <1>1, <1>5, <2>1 DEF WorkerDies, Safe, SoleWriter, WriterIsSafe, Alive
  <2>3. NoDanglingReference' /\ doc' = doc
    BY <1>1, <1>5 DEF WorkerDies, NoDanglingReference
  <2> QED BY <1>1, <1>2, <2>2, <2>3 DEF IInv, Safe
<1>6. CASE Repair \/ QueueAgain \/ Cancel
  <2>1. /\ doc'.id = doc.id /\ doc'.frames = doc.frames /\ doc'.raw = doc.raw
        /\ doc.id # 0 /\ UNCHANGED <<blobs, sess, del, overlapped>>
    BY <1>1, <1>6 DEF Repair, QueueAgain, Cancel, Record, NoRecord
  <2>2. NoDanglingReference'
    BY <1>1, <2>1, ReferenceKept
  <2>3. Safe'
    BY <1>1, <2>1 DEF Safe, SoleWriter, WriterIsSafe, Alive
  <2> QED BY <1>2, <2>1, <2>2, <2>3 DEF IInv, Safe
<1>7. CASE Add
  <2>1. doc'.id = nextId /\ doc'.frames = 0 /\ doc'.raw = FALSE /\ doc'.id # 0
    BY <1>1, <1>7 DEF Add, NewRecord
  <2>2. NoDanglingReference'
    BY <2>1 DEF NoDanglingReference, Referenced, Frames
  <2>3. ~overlapped' => /\ \A s \in Slot : sess'[s].pc = "idle"
                        /\ \A d \in Request : del'[d].pc = "idle"
    BY <1>7 DEF Add, Alive
  <2>4. Safe'
    BY <2>3 DEF Safe, SoleWriter, WriterIsSafe, Alive
  <2> QED BY <1>2, <2>1, <2>2, <2>4 DEF IInv, Safe
<1>8. CASE UNCHANGED vars
  <2>1. /\ NoDanglingReference' /\ Safe' /\ doc' = doc
    BY <1>1, <1>8 DEF vars, NoDanglingReference, Safe, SoleWriter, WriterIsSafe, Alive
  <2> QED BY <1>1, <1>2, <2>1 DEF IInv, Safe
<1> QED BY <1>3, <1>4, <1>5, <1>6, <1>7, <1>8 DEF Next

\* The type invariant: the counters of an attempt stay within the frames.
THEOREM TypeCorrect == Spec => []TypeOK
  BY InitType, NextType, PTL DEF Spec

\* Without overlapping writers the record never refers to a missing blob,
\* wherever complete(), _ensure_metadata and deleteTorrentRecord are cut off.
THEOREM ReferencesExist == Spec => []NoDanglingReference
<1>1. IInv => NoDanglingReference
  BY DEF IInv
<1> QED BY <1>1, InitSafe, NextSafe, PTL DEF Spec
-----------------------------------------------------------------------------
(***************************************************************************)
(* Whose images the frames are.                                            *)
(***************************************************************************)

\* The frames a session has put are the latest under their keys, and unless some are put
\* and not yet stored, or never were, the frames of the record are the ones it describes.
ImagesInv ==
    ~overlapped /\ doc.id # 0 =>
        /\ \A s \in Slot : sess[s].pc = "storing" =>
              sess[s].mine = Frames(sess[s].put) /\ (~sess[s].replace => sess[s].new = 0)
        /\ ~torn /\ (\A s \in Slot : ~Tears(s)) => Frames(doc.frames) \subseteq described

\* A step of the one session of a record.
LEMMA ImagesSession ==
  ASSUME IInv, ImagesInv, ~overlapped, doc.id # 0, NEW s \in Slot, SessionStep(s)
  PROVE  ImagesInv'
<1>1. /\ TypeOK /\ doc \in Record /\ sess \in [Slot -> Session] /\ sess[s] \in Session
      /\ SoleWriter /\ \A r \in Slot : WriterIsSafe(r)
  BY DEF IInv, TypeOK
<1>2. CASE Claim(s)
  <2>1. overlapped' \/ \A r \in Slot : sess[r].pc = "idle"
    BY <1>2 DEF Claim, Alive
  <2>2. \A r \in Slot : sess'[r] = sess[r] \/ sess'[r].pc \in {"loop", "metadata"}
    BY <1>1, <1>2 DEF Claim, Idle
  <2>3. /\ doc'.frames = doc.frames /\ described' = described /\ torn' = torn
    BY <1>1, <1>2 DEF Claim, Record
  <2> QED BY <2>1, <2>2, <2>3 DEF ImagesInv, Tears
<1>3. ASSUME ~Claim(s) PROVE Alive(s) /\ \A r \in Slot \ {s} : sess[r].pc = "idle"
  <2>1. Alive(s)
    BY <1>3 DEF SessionStep, PutRaw, StoreRaw, AttemptEnds, PutFrame, StoreResult, DeleteObsolete,
                CleanupDone, Continue, Release, Alive
  <2> QED BY <1>1, <2>1 DEF SoleWriter, Alive
<1>4. CASE PutRaw(s) \/ StoreRaw(s) \/ CleanupDone(s) \/ Continue(s)
  <2>1. /\ \A r \in Slot \ {s} : sess'[r] = sess[r]
        /\ sess[s].pc # "storing" /\ sess'[s].pc # "storing"
        /\ doc'.frames = doc.frames /\ described' = described /\ torn' = torn
    BY <1>1, <1>4 DEF PutRaw, StoreRaw, CleanupDone, Continue, Session, Record
  <2> QED BY <2>1 DEF ImagesInv, Tears
<1>5. CASE AttemptEnds(s)
  <2>1. PICK n \in 0 .. Target, replace \in BOOLEAN :
          sess' = [sess EXCEPT ![s].pc = "storing", ![s].new = ToStore(n, replace),
                               ![s].replace = replace, ![s].put = 0, ![s].mine = {}]
    BY <1>5 DEF AttemptEnds, Replaces
  <2>2. /\ sess'[s].put = 0 /\ sess'[s].mine = {} /\ sess'[s].replace = replace
        /\ sess'[s].new = ToStore(n, replace) /\ \A r \in Slot \ {s} : sess'[r] = sess[r]
    BY <1>1, <2>1 DEF Session
  <2>3. Frames(0) = {} /\ (~replace => ToStore(n, replace) = 0)
    BY DEF Frames, ToStore
  <2>4. ~Tears(s) /\ ~Tears(s)' /\ doc' = doc /\ described' = described /\ torn' = torn
    BY <1>5, <2>2 DEF AttemptEnds, Tears
  <2> QED BY <2>2, <2>3, <2>4 DEF ImagesInv, Tears
<1>6. CASE PutFrame(s)
  <2> DEFINE k == sess[s].put + 1
  <2>1. /\ sess'[s].pc = "storing" /\ sess'[s].put = k /\ sess'[s].mine = sess[s].mine \cup {k}
        /\ sess'[s].replace = sess[s].replace /\ sess'[s].new = sess[s].new
        /\ sess[s].pc = "storing"
    BY <1>1, <1>6 DEF PutFrame, Session
  <2>2. k > 0 /\ Frames(k) = Frames(sess[s].put) \cup {k}
    BY <1>1, Constants DEF Frames, Session
  <2>3. \A r \in Slot \ {s} : sess'[r].pc = "idle"
    <3>1. ~Claim(s)
      BY <2>1 DEF Claim, Alive
    <3>2. \A r \in Slot \ {s} : sess'[r].pc = sess[r].pc
      BY <1>1, <1>6 DEF PutFrame, Session
    <3> QED BY <1>3, <3>1, <3>2
  <2> HIDE DEF k
  <2>4. Tears(s)'
    BY <2>1, <2>2 DEF Tears
  <2>5. sess[s].mine = Frames(sess[s].put) /\ (~sess[s].replace => sess[s].new = 0)
    BY <2>1 DEF ImagesInv
  <2> QED BY <2>1, <2>2, <2>3, <2>4, <2>5 DEF ImagesInv
<1>7. CASE StoreResult(s)
  <2>1. /\ sess[s].pc = "storing" /\ ~MoreToPut(s)
        /\ sess[s].mine = Frames(sess[s].put) /\ (~sess[s].replace => sess[s].new = 0)
        /\ sess[s].put <= sess[s].new
    BY <1>1, <1>7 DEF StoreResult, ImagesInv, WriterIsSafe
  <2>2. sess[s].put = sess[s].new /\ sess[s].put \in Nat
    BY <1>1, <2>1, Constants DEF MoreToPut, Session
  <2>3. sess'[s].pc = "deleting" /\ \A r \in Slot \ {s} : sess'[r] = sess[r] /\ sess[r].pc = "idle"
    BY <1>1, <1>3, <1>7, <2>1 DEF StoreResult, Session, Claim, Alive
  <2>4. CASE sess[s].replace /\ Matches(s)
    <3>1. doc'.frames = sess[s].new /\ described' = sess[s].mine
      BY <1>1, <1>7, <2>4 DEF StoreResult, Record
    <3> QED BY <2>1, <2>2, <2>3, <3>1 DEF ImagesInv
  <2>5. CASE ~(sess[s].replace /\ Matches(s))
    <3>1. doc' = doc /\ described' = described
          /\ torn' = (torn \/ (~Matches(s) /\ sess[s].put > 0))
      BY <1>7, <2>5 DEF StoreResult
    <3>2. torn' \/ (~torn /\ \A r \in Slot : ~Tears(r))
      <4>1. torn' \/ (~torn /\ sess[s].put = 0)
        <5>1. sess[s].put = 0 \/ sess[s].put > 0
          BY <2>2
        <5>2. ~sess[s].replace => sess[s].put = 0
          BY <2>1, <2>2
        <5>3. torn' \in BOOLEAN /\ torn \in BOOLEAN /\ (torn => torn')
          BY <1>1, <3>1 DEF TypeOK
        <5>4. ~Matches(s) /\ sess[s].put > 0 => torn'
          BY <3>1
        <5> QED BY <2>5, <5>1, <5>2, <5>3, <5>4
      <4> QED BY <2>3, <4>1 DEF Tears
    <3> QED BY <2>3, <3>1, <3>2 DEF ImagesInv
  <2> QED BY <2>4, <2>5
<1>8. CASE DeleteObsolete(s)
  <2>1. PICK k \in sess[s].todo :
          /\ Remove(k)
          /\ sess' = [r \in Slot |-> [sess[r] EXCEPT !.mine = @ \ {k},
                                                     !.todo = IF r = s THEN @ \ {k} ELSE @]]
    BY <1>8 DEF DeleteObsolete
  <2>2. sess[s].pc = "deleting" /\ doc' = doc /\ torn' = torn
    BY <1>8 DEF DeleteObsolete
  <2>3. k \notin Frames(doc.frames)
    BY <1>1, <2>1, <2>2 DEF WriterIsSafe
  <2>4. \A r \in Slot : sess'[r].pc = sess[r].pc
    BY <1>1, <2>1 DEF Session
  <2>5. \A r \in Slot : sess[r].pc # "storing"
    BY <1>3, <2>2 DEF Claim, Alive
  <2> QED BY <2>1, <2>2, <2>3, <2>4, <2>5 DEF ImagesInv, Tears, Remove
<1>9. CASE Release(s)
  <2>1. /\ sess'[s].pc = "idle" /\ \A r \in Slot \ {s} : sess'[r] = sess[r]
        /\ doc'.frames = doc.frames /\ described' = described /\ torn' = (torn \/ Tears(s))
    BY <1>1, <1>9 DEF Release, Idle, Record
  <2> QED BY <1>1, <2>1 DEF ImagesInv, Tears, TypeOK
<1> QED BY <1>2, <1>4, <1>5, <1>6, <1>7, <1>8, <1>9 DEF SessionStep

LEMMA ImagesNext == IInv /\ ImagesInv /\ [Next]_vars => ImagesInv'
<1> SUFFICES ASSUME IInv, ImagesInv, [Next]_vars, ~overlapped', doc'.id # 0 PROVE ImagesInv'
  BY DEF ImagesInv
<1>1. /\ TypeOK /\ doc \in Record /\ sess \in [Slot -> Session] /\ del \in [Request -> Deletion]
      /\ (doc.id = 0 => doc = NoRecord)
  BY DEF IInv, TypeOK
<1>2. CASE Add
  <2>1. doc'.frames = 0 /\ \A s \in Slot : sess'[s].pc = "idle"
    BY <1>2 DEF Add, NewRecord, Alive
  <2> QED BY <2>1 DEF ImagesInv, Frames
<1>3. CASE ~Add /\ doc.id = 0
  <2>1. \A s \in Slot : ~Matches(s) /\ ~Claim(s)
    BY <1>1, <1>3 DEF Matches, NoRecord, Claim
  <2>2. doc' = doc \/ doc' = NoRecord
    BY <1>1, <1>3, <2>1
    DEF Next, vars, SessionStep, PutRaw, StoreRaw, AttemptEnds, PutFrame, StoreResult,
        DeleteObsolete, CleanupDone, Continue, Release, WorkerDies, Repair, QueueAgain, Cancel,
        NoRecord, DeletionStep, DeletionReads, DeleteRecord, DeleteBlob, DeletionEnds,
        DeletionBreaks
  <2> QED BY <1>3, <2>2 DEF NoRecord
<1>4. CASE ~Add /\ doc.id # 0
  <2>1. ~overlapped
    BY <1>4 DEF Next, vars, SessionStep, Claim, PutRaw, StoreRaw, AttemptEnds, PutFrame,
        StoreResult, DeleteObsolete, CleanupDone, Continue, Release, WorkerDies, Repair,
        QueueAgain, Cancel, DeletionStep, DeletionReads, DeleteRecord, DeleteBlob, DeletionEnds,
        DeletionBreaks
  <2>2. SoleWriter
    BY <1>4, <2>1 DEF IInv
  <2>3. CASE \E s \in Slot : SessionStep(s)
    BY <1>4, <2>1, <2>3, ImagesSession
  <2>4. CASE WorkerDies
    <3>1. /\ \A s \in Slot : sess'[s].pc = "idle"
          /\ doc' = doc /\ described' = described /\ torn' = (torn \/ \E s \in Slot : Tears(s))
      BY <2>4 DEF WorkerDies, Idle
    <3> QED BY <1>1, <1>4, <2>1, <3>1 DEF ImagesInv, TypeOK
  <2>5. CASE Repair \/ QueueAgain \/ Cancel
    <3>1. doc'.frames = doc.frames /\ UNCHANGED <<described, sess, torn>>
      BY <1>1, <2>5 DEF Repair, QueueAgain, Cancel, Record
    <3> QED BY <1>4, <2>1, <3>1 DEF ImagesInv, Tears
  <2>6. CASE \E d \in Request : DeletionStep(d)
    <3>1. PICK d \in Request : DeletionStep(d)
      BY <2>6
    <3>2. ~DeleteBlob(d)
      BY <2>2 DEF DeleteBlob, SoleWriter
    <3>3. doc' \in {doc, NoRecord} /\ UNCHANGED <<described, sess, torn>>
      BY <3>1, <3>2 DEF DeletionStep, DeletionReads, DeleteRecord, DeletionEnds, DeletionBreaks
    <3>4. doc' = doc
      BY <3>3 DEF NoRecord
    <3> QED BY <1>4, <2>1, <3>3, <3>4 DEF ImagesInv, Tears
  <2>7. CASE UNCHANGED vars
    BY <2>7 DEF vars, ImagesInv, Tears
  <2> QED BY <1>4, <2>3, <2>4, <2>5, <2>6, <2>7 DEF Next
<1> QED BY <1>2, <1>3, <1>4

\* The images under a record's keys are the ones it describes, except after an attempt that
\* stopped between its first put_file and its update_one.
THEOREM ImagesDescribed == Spec => []FramesMatchRecord
<1>1. Init => ImagesInv
  BY DEF Init, ImagesInv, NewRecord, Frames, Idle
<1>2. IInv /\ ImagesInv => FramesMatchRecord
  <2>1. IInv /\ doc.id = 0 => Frames(doc.frames) = {}
    BY DEF IInv, NoRecord, Frames
  <2> QED BY <2>1 DEF ImagesInv, FramesMatchRecord, Tears
<1> QED BY <1>1, <1>2, InitSafe, NextSafe, ImagesNext, PTL DEF Spec
=============================================================================
