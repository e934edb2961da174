----------------------- MODULE TorrentSchedulerProofs -----------------------
(***************************************************************************)
(* Theorems about TorrentScheduler for any torrents, any number of slots,  *)
(* any target and any failure limit.  The inductive invariant IInv is      *)
(* proved in three layers, each resting on the one before: the types and   *)
(* the failure budget; who owns a claim; what a complete torrent shows.    *)
(***************************************************************************)
EXTENDS TorrentScheduler, TLAPS

-----------------------------------------------------------------------------
(***************************************************************************)
(* The queue order.                                                        *)
(***************************************************************************)

\* Moving torrents to the tail orders torrents only.
LEMMA MoveToTailType ==
    ASSUME before \subseteq Torrent \X Torrent, NEW S \in SUBSET Torrent, MoveToTail(S)
    PROVE  before' \subseteq Torrent \X Torrent
  BY SchedulerAssumption DEF MoveToTail, SchedulerAssumption, IsStrictOrder

-----------------------------------------------------------------------------
(***************************************************************************)
(* What each write does to a document.                                     *)
(***************************************************************************)

SameArtifact(d, e) ==
    /\ d.frames = e.frames
    /\ d.stamped = e.stamped
    /\ d.fresh = e.fresh
    /\ d.raw = e.raw

LEMMA QueuedKeeps ==
    ASSUME NEW d \in Doc
    PROVE  /\ Queued(d) \in Doc
           /\ Queued(d).state = "queued"
           /\ ~Queued(d).cooling
           /\ Queued(d).failures = d.failures
           /\ SameArtifact(Queued(d), d)
  BY DEF Queued, Doc, States, SameArtifact

LEMMA ResetKeeps ==
    ASSUME NEW d \in Doc
    PROVE  /\ Reset(d) \in Doc
           /\ Reset(d).state = "queued"
           /\ ~Reset(d).cooling
           /\ Reset(d).failures = 0
           /\ SameArtifact(Reset(d), d)
<1>1. 0 \in 0 .. FailureLimit
  BY SchedulerAssumption DEF SchedulerAssumption
<1> QED BY <1>1, QueuedKeeps DEF Reset, Doc, SameArtifact

LEMMA ClaimedKeeps ==
    ASSUME NEW d \in Doc
    PROVE  /\ Claimed(d) \in Doc
           /\ Claimed(d).state = "running"
           /\ ~Claimed(d).cooling
           /\ Claimed(d).failures = d.failures
           /\ SameArtifact(Claimed(d), d)
  BY DEF Claimed, Doc, States, SameArtifact

LEMMA ReleasedType ==
    ASSUME NEW d \in Doc, NEW state \in States, NEW n \in 0 .. FailureLimit
    PROVE  /\ Released(d, state, n) \in Doc
           /\ Released(d, state, n).failures = n
  BY DEF Released, Doc

LEMMA ReleasedKeeps ==
    ASSUME NEW d \in Doc, NEW state \in States, NEW n
    PROVE  LET e == Released(d, state, n) IN
           /\ e.state = state
           /\ ~e.cooling
           /\ e.failures = n
           /\ SameArtifact(e, d)
  BY DEF Released, Doc, SameArtifact

LEMMA CooledType ==
    ASSUME NEW d \in Doc, NEW state \in States, NEW n \in 0 .. FailureLimit,
           NEW cooling \in BOOLEAN
    PROVE  LET e == [Released(d, state, n) EXCEPT !.cooling = cooling] IN
           /\ e \in Doc
           /\ e.failures = n
  BY ReleasedType DEF Released, Doc

LEMMA StampedKeeps ==
    ASSUME NEW d \in Doc, NEW r \in Result, NEW replace \in BOOLEAN
    PROVE  LET e == Stamped(d, r, replace) IN
           /\ e \in Doc
           /\ e.state = d.state
           /\ e.cooling = d.cooling
           /\ e.failures = d.failures
           /\ replace => e.frames = r.frames /\ e.fresh = TRUE
<1>1. r.frames \in 0 .. Target
  BY SchedulerAssumption DEF Result, SchedulerAssumption
<1> QED BY <1>1 DEF Stamped, Doc

LEMMA CancelledKeeps ==
    ASSUME NEW d \in Doc
    PROVE  /\ Cancelled(d) \in Doc
           /\ Cancelled(d).state = "cancelled"
           /\ Cancelled(d).cooling = d.cooling
           /\ Cancelled(d).failures = d.failures
           /\ SameArtifact(Cancelled(d), d)
  BY DEF Cancelled, Doc, States, SameArtifact

-----------------------------------------------------------------------------
(***************************************************************************)
(* Layer 1: types and the failure budget.                                  *)
(***************************************************************************)

TypeInv == TypeOK /\ SlotsConsistent /\ FailureBudget

LEMMA TypeInvInit == Init => TypeInv
<1> SUFFICES ASSUME Init PROVE TypeInv
  OBVIOUS
<1>1. NewDoc \in Doc /\ [NewDoc EXCEPT !.state = "cancelled"] \in Doc
  <2>1. 0 \in 0 .. FailureLimit /\ 0 \in 0 .. Target
    BY SchedulerAssumption DEF SchedulerAssumption
  <2>2. NewDoc \in Doc
    BY <2>1 DEF NewDoc, Doc, States
  <2> QED BY <2>2 DEF Doc, States
<1>2. Idle \in Session
  BY SchedulerAssumption DEF Idle, Session, SchedulerAssumption
<1>3. doc \in [Torrent -> Doc] /\ \A t \in Torrent : doc[t].failures = 0
  <2>1. doc \in [Torrent -> {NewDoc, [NewDoc EXCEPT !.state = "cancelled"]}]
    BY DEF Init
  <2>2. doc \in [Torrent -> Doc]
    BY <1>1, <2>1
  <2>3. NewDoc.failures = 0 /\ [NewDoc EXCEPT !.state = "cancelled"].failures = 0
    BY DEF NewDoc
  <2> QED BY <2>1, <2>2, <2>3
<1>4. TypeOK
  BY <1>2, <1>3, SchedulerAssumption DEF Init, TypeOK, SchedulerAssumption, IsStrictOrder
<1>5. SlotsConsistent
  BY SchedulerAssumption DEF Init, SlotsConsistent, Idle, SchedulerAssumption
<1>6. FailureBudget
  BY <1>3, SchedulerAssumption DEF FailureBudget, SchedulerAssumption
<1> QED BY <1>4, <1>5, <1>6 DEF TypeInv

\* A session that is at work has a torrent, and can fail once more.
LEMMA SessionHasTorrent ==
    ASSUME TypeInv, NEW s \in Slot, sess[s].pc # "idle"
    PROVE  /\ sess[s] \in Session
           /\ sess[s].torrent \in Torrent
           /\ doc[sess[s].torrent] \in Doc
           /\ sess[s].failures + 1 \in 1 .. FailureLimit
  BY SchedulerAssumption
  DEF TypeInv, TypeOK, SlotsConsistent, Session, Doc, SchedulerAssumption

LEMMA FinishTypeInv ==
    ASSUME TypeInv, NEW s \in Slot, sess[s].torrent \in Torrent,
           NEW state \in {"complete", "exhausted"},
           NEW n \in 0 .. FailureLimit,
           IsRunning(s) /\ n = FailureLimit => state = "exhausted",
           Finish(s, state, n)
    PROVE  TypeInv'
<1> DEFINE t == sess[s].torrent
<1> DEFINE d == Released(doc[t], state, n)
<1>0. d \in Doc /\ d.state = state /\ d.failures = n
  <2>1. doc[t] \in Doc /\ state \in States
    BY DEF TypeInv, TypeOK, States
  <2>2. d \in Doc /\ d.failures = n
    BY <2>1, ReleasedType
  <2>3. d.state = state
    BY <2>1 DEF Released, Doc
  <2> QED BY <2>2, <2>3
<1>00. doc' = IF IsRunning(s) THEN [doc EXCEPT ![t] = d] ELSE doc
  BY DEF Finish
<1> HIDE DEF d
<1>1. doc' \in [Torrent -> Doc]
  BY <1>0, <1>00 DEF TypeInv, TypeOK
<1>2. sess' \in [Slot -> Session] /\ sess' = [sess EXCEPT ![s] = Idle]
  BY SchedulerAssumption
  DEF Finish, EndSession, TypeInv, TypeOK, Idle, Session, SchedulerAssumption
<1>3. TypeOK'
  BY <1>1, <1>2 DEF Finish, TypeInv, TypeOK
<1>4. SlotsConsistent'
  BY <1>2, SchedulerAssumption
  DEF TypeInv, TypeOK, SlotsConsistent, Idle, Session, SchedulerAssumption
<1>5. FailureBudget'
  BY <1>0, <1>00 DEF TypeInv, TypeOK, FailureBudget
<1> QED BY <1>3, <1>4, <1>5 DEF TypeInv

LEMMA RequeueTypeInv ==
    ASSUME TypeInv, NEW s \in Slot, sess[s].torrent \in Torrent,
           NEW state \in {"queued", "partial"},
           NEW n \in 0 .. FailureLimit,
           NEW cooling \in BOOLEAN,
           IsRunning(s) => n # FailureLimit,
           Requeue(s, state, n, cooling)
    PROVE  TypeInv'
<1> DEFINE t == sess[s].torrent
<1> DEFINE d == [Released(doc[t], state, n) EXCEPT !.cooling = cooling]
<1>0. d \in Doc /\ d.state = state /\ d.failures = n
  <2>1. doc[t] \in Doc /\ state \in States
    BY DEF TypeInv, TypeOK, States
  <2>2. d \in Doc /\ d.failures = n
    BY <2>1, CooledType
  <2>3. d.state = state
    BY <2>1 DEF Released, Doc
  <2> QED BY <2>2, <2>3
<1>00. doc' = IF IsRunning(s) THEN [doc EXCEPT ![t] = d] ELSE doc
  BY DEF Requeue
<1> HIDE DEF d
<1>1. doc' \in [Torrent -> Doc]
  BY <1>0, <1>00 DEF TypeInv, TypeOK
<1>2. sess' \in [Slot -> Session] /\ sess' = [sess EXCEPT ![s] = Idle]
  BY SchedulerAssumption
  DEF Requeue, EndSession, TypeInv, TypeOK, Idle, Session, SchedulerAssumption
<1>3. before' \subseteq Torrent \X Torrent
  BY MoveToTailType DEF Requeue, TypeInv, TypeOK
<1>4. TypeOK'
  BY <1>1, <1>2, <1>3 DEF Requeue, TypeInv, TypeOK
<1>5. SlotsConsistent'
  BY <1>2, SchedulerAssumption
  DEF TypeInv, TypeOK, SlotsConsistent, Idle, Session, SchedulerAssumption
<1>6. FailureBudget'
  BY <1>0, <1>00 DEF TypeInv, TypeOK, FailureBudget
<1> QED BY <1>4, <1>5, <1>6 DEF TypeInv

LEMMA FailOrRequeueTypeInv ==
    ASSUME TypeInv, NEW s \in Slot, sess[s].pc # "idle", FailOrRequeue(s)
    PROVE  TypeInv'
<1> DEFINE n == sess[s].failures + 1
<1>1. sess[s].torrent \in Torrent /\ n \in 0 .. FailureLimit
  BY SessionHasTorrent, SchedulerAssumption DEF SchedulerAssumption
<1>2. CASE SpendsBudget(n)
  BY <1>1, <1>2, FinishTypeInv DEF FailOrRequeue
<1>3. CASE ~SpendsBudget(n)
  <2>1. n # FailureLimit
    BY <1>1, <1>3, SchedulerAssumption DEF SpendsBudget, SchedulerAssumption
  <2> QED BY <1>1, <1>3, <2>1, RequeueTypeInv DEF FailOrRequeue
<1> QED BY <1>2, <1>3

\* A write that leaves sessions and failure counts as they are, apart from
\* resetting counts, or changes state only where the budget is not spent.
LEMMA DocTypeInv ==
    ASSUME TypeInv,
           doc' \in [Torrent -> Doc],
           \A t \in Torrent : doc'[t].failures = FailureLimit =>
               /\ doc[t].failures = FailureLimit
               /\ doc'[t].state \in {doc[t].state, "cancelled"},
           before' \subseteq Torrent \X Torrent,
           worker' \in {"up", "stopping", "down"},
           ensuring' \subseteq Torrent,
           contested' \subseteq Torrent,
           sess' \in [Slot -> Session],
           \A s \in Slot :
               /\ sess'[s].pc = "idle" <=> sess'[s].torrent = NoTorrent
               /\ sess'[s].failures < FailureLimit
    PROVE  TypeInv'
  BY DEF TypeInv, TypeOK, SlotsConsistent, FailureBudget

LEMMA ClaimTypeInv == ASSUME TypeInv, NEW s \in Slot, Claim(s) PROVE TypeInv'
<1>1. PICK t \in Torrent :
        /\ Claimable(t)
        /\ doc' = [doc EXCEPT ![t] = Claimed(@)]
        /\ sess' = [sess EXCEPT ![s] =
                        [Idle EXCEPT !.pc = IF doc[t].raw THEN "loop" ELSE "metadata",
                                     !.torrent = t,
                                     !.frames = doc[t].frames,
                                     !.failures = doc[t].failures]]
        /\ contested' = IF HasSession(t) THEN contested ELSE contested \ {t}
  BY DEF Claim
<1>2. doc[t] \in Doc /\ doc[t].failures \in 0 .. FailureLimit - 1
  BY <1>1, SchedulerAssumption
  DEF TypeInv, TypeOK, FailureBudget, Claimable, Doc, SchedulerAssumption
<1>3. doc' \in [Torrent -> Doc]
  BY <1>1, <1>2, ClaimedKeeps DEF TypeInv, TypeOK
<1>4. \A u \in Torrent : doc'[u].failures = FailureLimit =>
          doc[u].failures = FailureLimit /\ doc'[u].state = doc[u].state
  <2>1. Claimed(doc[t]).failures = doc[t].failures
    BY <1>2, ClaimedKeeps
  <2> QED BY <1>1, <1>2, <2>1 DEF TypeInv, TypeOK
<1>5. sess'[s] \in Session /\ sess'[s].pc # "idle" /\ sess'[s].torrent = t
        /\ sess'[s].failures < FailureLimit
  <2>1. sess'[s] = [pc |-> IF doc[t].raw THEN "loop" ELSE "metadata", torrent |-> t,
                    frames |-> doc[t].frames, failures |-> doc[t].failures,
                    kind |-> "none", decoded |-> FALSE]
    BY <1>1 DEF TypeInv, TypeOK, Idle
  <2>2. doc[t].frames \in 0 .. Target /\ doc[t].failures \in 0 .. FailureLimit
    BY <1>2 DEF Doc
  <2> QED BY <1>2, <2>1, <2>2, SchedulerAssumption DEF Session, SchedulerAssumption
<1>6. sess' \in [Slot -> Session] /\ \A r \in Slot : r # s => sess'[r] = sess[r]
  BY <1>1, <1>5 DEF TypeInv, TypeOK
<1>7. \A r \in Slot :
          /\ sess'[r].pc = "idle" <=> sess'[r].torrent = NoTorrent
          /\ sess'[r].failures < FailureLimit
  BY <1>5, <1>6, SchedulerAssumption DEF TypeInv, SlotsConsistent, SchedulerAssumption
<1>8. contested' \subseteq Torrent /\ UNCHANGED <<before, worker, ensuring>>
  BY <1>1 DEF Claim, TypeInv, TypeOK
<1> QED BY <1>3, <1>4, <1>6, <1>7, <1>8, DocTypeInv DEF TypeInv, TypeOK

\* A session that goes on: its torrent and failure count stay.
LEMMA GoOnTypeInv ==
    ASSUME TypeInv, NEW s \in Slot, NEW x \in Session,
           sess[s].pc # "idle",
           sess' = [sess EXCEPT ![s] = x],
           x.pc # "idle", x.torrent = sess[s].torrent, x.failures = sess[s].failures,
           doc' \in [Torrent -> Doc],
           \A t \in Torrent :
               doc'[t].failures = doc[t].failures /\ doc'[t].state = doc[t].state,
           UNCHANGED <<before, worker, ensuring, contested>>
    PROVE  TypeInv'
<1>1. sess' \in [Slot -> Session]
  BY DEF TypeInv, TypeOK
<1>2. sess[s].torrent # NoTorrent /\ sess[s].failures < FailureLimit
  BY DEF TypeInv, SlotsConsistent
<1>3. \A r \in Slot :
          /\ sess'[r].pc = "idle" <=> sess'[r].torrent = NoTorrent
          /\ sess'[r].failures < FailureLimit
  BY <1>2 DEF TypeInv, TypeOK, SlotsConsistent
<1> QED BY <1>1, <1>3, DocTypeInv DEF TypeInv, TypeOK

LEMMA SessionStepTypeInv ==
    ASSUME TypeInv, NEW s \in Slot, SessionStep(s)
    PROVE  TypeInv'
<1> DEFINE t == sess[s].torrent
<1>1. /\ sess[s].pc # "idle"
      /\ sess[s] \in Session
      /\ t \in Torrent
      /\ doc[t] \in Doc
  <2>1. sess[s].pc # "idle"
    BY DEF SessionStep, MetadataResolved, MetadataInvalid, MetadataUnavailable,
           StartAttempt, StopSession, AttemptEnds, AttemptWaits, WaitRaises,
           AttemptRaises, CleanupRaises, Settle, Continue, GiveWay, Yield, Retryable
  <2> QED BY <2>1, SessionHasTorrent
<1>2. Stored(s) \in 0 .. FailureLimit /\ (IsRunning(s) => Stored(s) # FailureLimit)
  BY <1>1 DEF Stored, IsRunning, TypeInv, FailureBudget, Doc
<1>3. CASE MetadataResolved(s)
  <2>1. doc' \in [Torrent -> Doc] /\ \A u \in Torrent :
            doc'[u].failures = doc[u].failures /\ doc'[u].state = doc[u].state
    BY <1>1, <1>3 DEF MetadataResolved, IsRunning, TypeInv, TypeOK, Doc
  <2>2. [sess[s] EXCEPT !.pc = "loop"] \in Session
    BY <1>1 DEF Session
  <2> QED BY <1>1, <1>3, <2>1, <2>2, GoOnTypeInv DEF MetadataResolved, TypeInv, TypeOK, Session
<1>4. CASE MetadataInvalid(s)
  BY <1>1, <1>2, <1>4, FinishTypeInv DEF MetadataInvalid
<1>5. CASE MetadataUnavailable(s) \/ WaitRaises(s) \/ AttemptRaises(s) \/ CleanupRaises(s)
  BY <1>1, <1>5, FailOrRequeueTypeInv DEF MetadataUnavailable, WaitRaises, AttemptRaises, CleanupRaises
<1>6. CASE StartAttempt(s)
  <2>1. doc' \in [Torrent -> Doc] /\ \A u \in Torrent :
            doc'[u].failures = doc[u].failures /\ doc'[u].state = doc[u].state
    BY <1>1, <1>6 DEF StartAttempt, TypeInv, TypeOK, Doc
  <2>2. [sess[s] EXCEPT !.pc = "attempt"] \in Session
    BY <1>1 DEF Session
  <2> QED BY <1>1, <1>6, <2>1, <2>2, GoOnTypeInv DEF StartAttempt, TypeInv, TypeOK, Session
<1>7. CASE StopSession(s)
  BY <1>1, <1>2, <1>7, RequeueTypeInv DEF StopSession
<1>8. CASE AttemptEnds(s)
  <2>1. PICK r \in Result, replace \in BOOLEAN, known \in BOOLEAN :
          /\ doc' = IF IsRunning(s)
                    THEN [doc EXCEPT ![t] = Stamped(@, r, replace)]
                    ELSE doc
          /\ sess' = [sess EXCEPT ![s].pc = "decide", ![s].kind = r.kind,
                                  ![s].decoded = known]
    BY <1>8 DEF AttemptEnds
  <2>2. r.frames \in 0 .. Target /\ r.kind \in {"succeeded", "partial", "sparse",
                                              "permanent", "external"}
    BY SchedulerAssumption DEF Result, SchedulerAssumption
  <2>3. Stamped(doc[t], r, replace) \in Doc
          /\ Stamped(doc[t], r, replace).failures = doc[t].failures
          /\ Stamped(doc[t], r, replace).state = doc[t].state
    BY <1>1, StampedKeeps
  <2>4. doc' \in [Torrent -> Doc] /\ \A u \in Torrent :
            doc'[u].failures = doc[u].failures /\ doc'[u].state = doc[u].state
    BY <2>1, <2>3 DEF TypeInv, TypeOK
  <2> DEFINE x == [sess[s] EXCEPT !.pc = "decide", !.kind = r.kind, !.decoded = known]
  <2>5. x \in Session /\ x.pc # "idle" /\ x.torrent = t /\ x.failures = sess[s].failures
    BY <1>1, <2>2 DEF Session
  <2>6. sess' = [sess EXCEPT ![s] = x]
    BY <2>1 DEF TypeInv, TypeOK
  <2> QED BY <1>1, <1>8, <2>4, <2>5, <2>6, GoOnTypeInv DEF AttemptEnds
<1>9. CASE AttemptWaits(s)
  <2>1. [sess[s] EXCEPT !.pc = "waiting"] \in Session
    BY <1>1 DEF Session
  <2> QED BY <1>1, <1>9, <2>1, GoOnTypeInv DEF AttemptWaits, TypeInv, TypeOK, Session
<1>10. CASE Settle(s)
  <2>1. CASE sess[s].kind = "external" /\ FailOrRequeue(s)
    BY <1>1, <2>1, FailOrRequeueTypeInv
  <2>2. CASE Finish(s, "complete", Stored(s)) \/ Finish(s, "exhausted", Stored(s))
    BY <1>1, <1>2, <2>2, FinishTypeInv
  <2> QED BY <1>10, <2>1, <2>2 DEF Settle
<1>11. CASE Continue(s)
  <2> DEFINE x == [sess[s] EXCEPT !.pc = "loop", !.kind = "none"]
  <2>1. x \in Session /\ x.pc # "idle" /\ x.torrent = t /\ x.failures = sess[s].failures
    BY <1>1 DEF Session
  <2>2. sess' = [sess EXCEPT ![s] = x]
    BY <1>11 DEF Continue, TypeInv, TypeOK
  <2> QED BY <1>1, <1>11, <2>1, <2>2, GoOnTypeInv DEF Continue, TypeInv, TypeOK
<1>12. CASE GiveWay(s)
  <2>1. [sess[s] EXCEPT !.pc = "yield"] \in Session
    BY <1>1 DEF Session
  <2> QED BY <1>1, <1>12, <2>1, GoOnTypeInv DEF GiveWay, TypeInv, TypeOK, Session
<1>13. CASE Yield(s)
  BY <1>1, <1>2, <1>13, RequeueTypeInv DEF Yield
<1> QED BY <1>3, <1>4, <1>5, <1>6, <1>7, <1>8, <1>9, <1>10, <1>11, <1>12, <1>13 DEF SessionStep

LEMMA WebStepTypeInv == ASSUME TypeInv, WebStep PROVE TypeInv'
<1>1. PICK t \in Torrent :
        \/ AdminQueuesAgain(t)
        \/ AdminCancels(t)
        \/ EnsureReads(t)
        \/ EnsureWrites(t)
  BY DEF WebStep
<1>2. ensuring \cup {t} \subseteq Torrent /\ ensuring \ {t} \subseteq Torrent
  BY DEF TypeInv, TypeOK
<1>3. \A S \in SUBSET Torrent : Contest(S) => contested' \subseteq Torrent
  BY DEF Contest, TypeInv, TypeOK
<1>4. ASSUME QueueAgain(t), ensuring' \subseteq Torrent PROVE TypeInv'
  <2>1. Reset(doc[t]) \in Doc /\ Reset(doc[t]).failures = 0
    BY ResetKeeps DEF TypeInv, TypeOK
  <2>2. doc' \in [Torrent -> Doc] /\ doc'[t].failures = 0
          /\ \A u \in Torrent : u # t => doc'[u] = doc[u]
    BY <1>4, <2>1 DEF QueueAgain, TypeInv, TypeOK
  <2>3. before' \subseteq Torrent \X Torrent
    BY <1>4, MoveToTailType DEF QueueAgain, TypeInv, TypeOK
  <2> QED BY <1>3, <1>4, <2>2, <2>3, DocTypeInv, SchedulerAssumption
          DEF QueueAgain, TypeInv, TypeOK, SlotsConsistent, SchedulerAssumption
<1>5. CASE AdminQueuesAgain(t) \/ EnsureWrites(t)
  BY <1>2, <1>4, <1>5 DEF AdminQueuesAgain, EnsureWrites, TypeInv, TypeOK
<1>6. CASE AdminCancels(t)
  <2>2. doc' \in [Torrent -> Doc] /\ doc'[t].failures = doc[t].failures
          /\ doc'[t].state = "cancelled" /\ \A u \in Torrent : u # t => doc'[u] = doc[u]
    BY <1>6, CancelledKeeps DEF AdminCancels, TypeInv, TypeOK
  <2> QED BY <1>3, <1>6, <2>2, DocTypeInv DEF AdminCancels, TypeInv, TypeOK, SlotsConsistent
<1>7. CASE EnsureReads(t)
  BY <1>2, <1>7, DocTypeInv DEF EnsureReads, TypeInv, TypeOK, SlotsConsistent
<1> QED BY <1>1, <1>5, <1>6, <1>7

\* RepairStaleRunning and QueueStaleArtifacts put every torrent of S back.
LEMMA PutBackTypeInv ==
    ASSUME TypeInv, NEW S \in SUBSET Torrent,
           \A t \in S : doc[t].state \in {"running", "complete"},
           doc' = [t \in Torrent |-> IF t \in S THEN Queued(doc[t]) ELSE doc[t]],
           MoveToTail(S), Contest(S),
           UNCHANGED <<sess, worker, ensuring>>
    PROVE  TypeInv'
<1>1. \A t \in Torrent : Queued(doc[t]) \in Doc /\ Queued(doc[t]).failures = doc[t].failures
  BY QueuedKeeps DEF TypeInv, TypeOK
<1>2. doc' \in [Torrent -> Doc]
  BY <1>1 DEF TypeInv, TypeOK
<1>3. \A t \in Torrent : doc'[t].failures = doc[t].failures
                        /\ (t \notin S => doc'[t] = doc[t])
  BY <1>1
<1>4. before' \subseteq Torrent \X Torrent
  BY MoveToTailType DEF TypeInv, TypeOK
<1>5. contested' \subseteq Torrent
  BY DEF Contest, TypeInv, TypeOK
<1> QED BY <1>2, <1>3, <1>4, <1>5, DocTypeInv
        DEF TypeInv, TypeOK, SlotsConsistent, FailureBudget

\* Time passes and processes restart without touching a torrent's place in
\* its life cycle.
LEMMA ClockStepFrame ==
    ASSUME TypeInv, ClockStep
    PROVE  /\ doc' \in [Torrent -> Doc]
           /\ \A t \in Torrent : /\ doc'[t].state = doc[t].state
                                 /\ doc'[t].failures = doc[t].failures
                                 /\ doc'[t].frames = doc[t].frames
                                 /\ doc'[t].stamped = doc[t].stamped
                                 /\ doc'[t].fresh = doc[t].fresh
                                 /\ doc'[t].raw = doc[t].raw
           /\ UNCHANGED <<before, sess, worker, ensuring, contested>>
<1>1. PICK t \in Torrent : CooldownElapses(t) \/ LeaseLapses(t)
  BY DEF ClockStep
<1>2. doc \in [Torrent -> Doc] /\ doc[t] \in Doc
  BY DEF TypeInv, TypeOK
<1>3. CASE CooldownElapses(t)
  <2>1. [doc[t] EXCEPT !.cooling = FALSE] \in Doc
    BY <1>2 DEF Doc
  <2> QED BY <1>2, <1>3, <2>1 DEF CooldownElapses, Doc
<1>4. CASE LeaseLapses(t)
  <2>1. [doc[t] EXCEPT !.lease = "lapsed"] \in Doc
    BY <1>2 DEF Doc
  <2> QED BY <1>2, <1>4, <2>1 DEF LeaseLapses, Doc
<1> QED BY <1>1, <1>3, <1>4

LEMMA WorkerStartsFrame ==
    ASSUME TypeInv, NEW upgrade \in BOOLEAN, WorkerStarts(upgrade)
    PROVE  /\ doc' \in [Torrent -> Doc]
           /\ \A t \in Torrent : /\ doc'[t].state = doc[t].state
                                 /\ doc'[t].cooling = doc[t].cooling
                                 /\ doc'[t].failures = doc[t].failures
                                 /\ doc'[t].frames = doc[t].frames
                                 /\ doc'[t].raw = doc[t].raw
                                 /\ Full(doc[t]) => Full(doc'[t])
<1> DEFINE d(t) == [doc[t] EXCEPT !.stamped = FALSE, !.fresh = FALSE]
<1>1. doc \in [Torrent -> Doc]
  BY DEF TypeInv, TypeOK
<1>2. \A t \in Torrent :
        /\ d(t) \in Doc
        /\ d(t).state = doc[t].state
        /\ d(t).cooling = doc[t].cooling
        /\ d(t).failures = doc[t].failures
        /\ d(t).frames = doc[t].frames
        /\ d(t).raw = doc[t].raw
        /\ d(t).stamped = FALSE
  BY <1>1 DEF Doc
<1>3. doc' = [t \in Torrent |-> IF upgrade THEN d(t) ELSE doc[t]]
  BY DEF WorkerStarts
<1> HIDE DEF d
<1> QED BY <1>1, <1>2, <1>3 DEF Full

LEMMA TypeInvNext == TypeInv /\ [Next]_vars => TypeInv'
<1> SUFFICES ASSUME TypeInv, [Next]_vars PROVE TypeInv'
  OBVIOUS
<1>1. CASE \E s \in Slot : Claim(s)
  BY <1>1, ClaimTypeInv
<1>2. CASE RepairStaleRunning
  BY <1>2, PutBackTypeInv DEF RepairStaleRunning, LeaseLost
<1>3. CASE QueueStaleArtifacts
  BY <1>3, PutBackTypeInv DEF QueueStaleArtifacts, Outdated
<1>4. CASE \E s \in Slot : SessionStep(s)
  BY <1>4, SessionStepTypeInv
<1>5. CASE ClockStep
  BY <1>5, ClockStepFrame, DocTypeInv DEF TypeInv, TypeOK, SlotsConsistent
<1>6. CASE WorkerStops
  BY <1>6, DocTypeInv DEF WorkerStops, TypeInv, TypeOK, SlotsConsistent
<1>7. CASE WorkerExits
  <2>1. Idle \in Session /\ Idle.pc = "idle" /\ Idle.torrent = NoTorrent
          /\ Idle.failures < FailureLimit
    BY SchedulerAssumption DEF Idle, Session, SchedulerAssumption
  <2> QED BY <1>7, <2>1, DocTypeInv DEF WorkerExits, TypeInv, TypeOK
<1>8. CASE \E upgrade \in BOOLEAN : WorkerStarts(upgrade)
  BY <1>8, WorkerStartsFrame, DocTypeInv DEF WorkerStarts, TypeInv, TypeOK, SlotsConsistent
<1>9. CASE WebStep
  BY <1>9, WebStepTypeInv
<1>10. CASE UNCHANGED vars
  BY <1>10 DEF vars, TypeInv, TypeOK, SlotsConsistent, FailureBudget
<1> QED BY <1>1, <1>2, <1>3, <1>4, <1>5, <1>6, <1>7, <1>8, <1>9, <1>10
        DEF Next, SchedulerStep, ProcessStep

\* Every variable keeps its type: in particular no failure count passes the
\* limit, which is where _fail_or_requeue and _claim_one have to agree.
THEOREM TypeCorrect == Spec => []TypeOK
<1>1. TypeInv => TypeOK
  BY DEF TypeInv
<1> QED BY TypeInvInit, TypeInvNext, <1>1, PTL DEF Spec

\* A torrent whose failure budget is spent is out of the queue and stays out
\* until an administrator resets the count.
THEOREM BudgetKept == Spec => []FailureBudget
<1>1. TypeInv => FailureBudget
  BY DEF TypeInv
<1> QED BY TypeInvInit, TypeInvNext, <1>1, PTL DEF Spec

-----------------------------------------------------------------------------
(***************************************************************************)
(* Layer 2: who owns a claim.                                              *)
(***************************************************************************)

OwnerInv == SoleSession /\ SessionOwnsClaim

\* Steps that start no session and leave alone what the others own.
LEMMA OwnerKept ==
    ASSUME OwnerInv,
           contested \subseteq contested',
           \A r \in Slot : sess'[r].torrent \in Torrent =>
               /\ sess'[r].torrent = sess[r].torrent
               /\ sess'[r].failures = sess[r].failures,
           \A r \in Slot : sess'[r].torrent \in Torrent \ contested' =>
               /\ doc'[sess[r].torrent].state = doc[sess[r].torrent].state
               /\ doc'[sess[r].torrent].failures = doc[sess[r].torrent].failures
    PROVE  OwnerInv'
<1>1. SoleSession'
  BY DEF OwnerInv, SoleSession
<1>2. SessionOwnsClaim'
  BY DEF OwnerInv, SessionOwnsClaim
<1> QED BY <1>1, <1>2 DEF OwnerInv

\* The last write of a session disturbs no other session that owns its claim.
LEMMA OwnerEnds ==
    ASSUME TypeInv, OwnerInv, NEW s \in Slot, sess[s].torrent \in Torrent,
           EndSession(s), UNCHANGED contested,
           \A t \in Torrent : t # sess[s].torrent => doc'[t] = doc[t]
    PROVE  OwnerInv'
<1>1. sess'[s].torrent = NoTorrent /\ \A r \in Slot : r # s => sess'[r] = sess[r]
  BY DEF EndSession, Idle, TypeInv, TypeOK
<1>2. \A r \in Slot : sess'[r].torrent \in Torrent => r # s
  BY <1>1, SchedulerAssumption DEF SchedulerAssumption
<1>3. \A r \in Slot : sess'[r].torrent \in Torrent \ contested'
                        => sess[r].torrent # sess[s].torrent
  BY <1>1, <1>2 DEF OwnerInv, SoleSession
<1> QED BY <1>1, <1>2, <1>3, OwnerKept

LEMMA ClaimOwner == ASSUME TypeInv, OwnerInv, NEW s \in Slot, Claim(s) PROVE OwnerInv'
<1>1. PICK t \in Torrent :
        /\ Claimable(t)
        /\ doc' = [doc EXCEPT ![t] = Claimed(@)]
        /\ sess' = [sess EXCEPT ![s] =
                        [Idle EXCEPT !.pc = IF doc[t].raw THEN "loop" ELSE "metadata",
                                     !.torrent = t,
                                     !.frames = doc[t].frames,
                                     !.failures = doc[t].failures]]
        /\ contested' = IF HasSession(t) THEN contested ELSE contested \ {t}
  BY DEF Claim
<1>2. sess'[s].torrent = t /\ sess'[s].failures = doc[t].failures
        /\ \A r \in Slot : r # s => sess'[r] = sess[r]
  BY <1>1 DEF Idle, TypeInv, TypeOK
<1>3. doc'[t].state = "running" /\ doc'[t].failures = doc[t].failures
        /\ \A u \in Torrent : u # t => doc'[u] = doc[u]
  BY <1>1, ClaimedKeeps DEF TypeInv, TypeOK
\* An older session of t lost its claim: it is contested, and stays so.
<1>4. HasSession(t) => t \in contested
  BY <1>1 DEF HasSession, Claimable, OwnerInv, SessionOwnsClaim
<1>5. t \notin contested' => \A r \in Slot : r # s => sess'[r].torrent # t
  BY <1>1, <1>2, <1>4 DEF HasSession
<1>6. \A u \in Torrent : u # t => (u \in contested' <=> u \in contested)
  BY <1>1
<1>7. SoleSession'
  BY <1>2, <1>5, <1>6 DEF OwnerInv, SoleSession
<1>8. SessionOwnsClaim'
  BY <1>2, <1>3, <1>5, <1>6 DEF OwnerInv, SessionOwnsClaim
<1> QED BY <1>7, <1>8 DEF OwnerInv

\* Requeueing, repairing or cancelling S contests the sessions of S.
LEMMA ContestOwner ==
    ASSUME TypeInv, OwnerInv, NEW S \in SUBSET Torrent, Contest(S), UNCHANGED sess,
           \A t \in Torrent \ S : doc'[t] = doc[t]
    PROVE  OwnerInv'
<1>1. \A r \in Slot : sess'[r].torrent \in Torrent \ contested' => sess[r].torrent \notin S
  BY DEF Contest, HasSession
<1> QED BY <1>1, OwnerKept DEF Contest

\* What every step of a session leaves alone.
LEMMA SessionStepFrame ==
    ASSUME TypeInv, NEW s \in Slot, SessionStep(s)
    PROVE  /\ sess[s].pc # "idle"
           /\ sess[s].torrent \in Torrent
           /\ \A r \in Slot : r # s => sess'[r] = sess[r]
           /\ \A t \in Torrent : t # sess[s].torrent => doc'[t] = doc[t]
           /\ contested' = contested
           /\ \/ EndSession(s)
              \/ /\ sess'[s].torrent = sess[s].torrent
                 /\ sess'[s].failures = sess[s].failures
                 /\ doc'[sess[s].torrent].state = doc[sess[s].torrent].state
                 /\ doc'[sess[s].torrent].failures = doc[sess[s].torrent].failures
<1> DEFINE t == sess[s].torrent
<1>1. sess[s].pc # "idle"
  BY DEF SessionStep, MetadataResolved, MetadataInvalid, MetadataUnavailable,
         StartAttempt, StopSession, AttemptEnds, AttemptWaits, WaitRaises,
         AttemptRaises, CleanupRaises, Settle, Continue, GiveWay, Yield, Retryable
<1>2. t \in Torrent /\ doc[t] \in Doc /\ sess[s] \in Session
  BY <1>1, SessionHasTorrent
<1>3. doc \in [Torrent -> Doc] /\ sess \in [Slot -> Session]
  BY DEF TypeInv, TypeOK
<1>4. CASE \/ MetadataInvalid(s) \/ MetadataUnavailable(s) \/ StopSession(s)
           \/ WaitRaises(s) \/ AttemptRaises(s) \/ CleanupRaises(s) \/ Settle(s) \/ Yield(s)
  <2>1. \/ \E state, n : Finish(s, state, n)
        \/ \E state, n, cooling : Requeue(s, state, n, cooling)
    BY <1>4 DEF MetadataInvalid, MetadataUnavailable, StopSession, WaitRaises,
                AttemptRaises, CleanupRaises, Settle, Yield, FailOrRequeue
  <2>2. ASSUME NEW state, NEW n, Finish(s, state, n)
        PROVE  /\ EndSession(s) /\ contested' = contested
               /\ \A u \in Torrent : u # t => doc'[u] = doc[u]
    BY <1>2, <1>3, <2>2 DEF Finish
  <2>3. ASSUME NEW state, NEW n, NEW cooling, Requeue(s, state, n, cooling)
        PROVE  /\ EndSession(s) /\ contested' = contested
               /\ \A u \in Torrent : u # t => doc'[u] = doc[u]
    BY <1>2, <1>3, <2>3 DEF Requeue
  <2>4. /\ EndSession(s) /\ contested' = contested
        /\ \A u \in Torrent : u # t => doc'[u] = doc[u]
    BY <2>1, <2>2, <2>3
  <2> QED BY <1>1, <1>2, <1>3, <2>4 DEF EndSession
<1>5. CASE MetadataResolved(s)
  BY <1>1, <1>2, <1>3, <1>5 DEF MetadataResolved, Doc, Session
<1>6. CASE StartAttempt(s)
  BY <1>1, <1>2, <1>3, <1>6 DEF StartAttempt, Doc, Session
<1>7. CASE AttemptEnds(s)
  <2>1. PICK r \in Result, replace \in BOOLEAN, known \in BOOLEAN :
          /\ doc' = IF IsRunning(s)
                    THEN [doc EXCEPT ![t] = Stamped(@, r, replace)]
                    ELSE doc
          /\ sess' = [sess EXCEPT ![s].pc = "decide", ![s].kind = r.kind,
                                  ![s].decoded = known]
          /\ contested' = contested
    BY <1>7 DEF AttemptEnds
  <2>2. \A u \in Torrent : u # t => doc'[u] = doc[u]
    BY <1>3, <2>1
  <2>3. doc'[t].state = doc[t].state /\ doc'[t].failures = doc[t].failures
    <3>1. /\ Stamped(doc[t], r, replace).state = doc[t].state
          /\ Stamped(doc[t], r, replace).failures = doc[t].failures
      BY <1>2, StampedKeeps
    <3> QED BY <1>2, <1>3, <2>1, <3>1
  <2>4. /\ \A r_1 \in Slot : r_1 # s => sess'[r_1] = sess[r_1]
        /\ sess'[s].torrent = t /\ sess'[s].failures = sess[s].failures
    BY <1>2, <1>3, <2>1 DEF Session
  <2> QED BY <1>1, <1>2, <2>1, <2>2, <2>3, <2>4
<1>8. CASE AttemptWaits(s) \/ GiveWay(s)
  BY <1>1, <1>2, <1>3, <1>8 DEF AttemptWaits, GiveWay, Session
<1>9. CASE Continue(s)
  BY <1>1, <1>2, <1>3, <1>9 DEF Continue, Session
<1> QED BY <1>4, <1>5, <1>6, <1>7, <1>8, <1>9 DEF SessionStep

LEMMA OwnerInvInit == Init => OwnerInv
  BY SchedulerAssumption
  DEF Init, OwnerInv, SoleSession, SessionOwnsClaim, Idle, SchedulerAssumption

LEMMA OwnerInvNext == TypeInv /\ OwnerInv /\ [Next]_vars => OwnerInv'
<1> SUFFICES ASSUME TypeInv, OwnerInv, [Next]_vars PROVE OwnerInv'
  OBVIOUS
<1>1. CASE \E s \in Slot : Claim(s)
  BY <1>1, ClaimOwner
<1>2. CASE RepairStaleRunning
  BY <1>2, ContestOwner DEF RepairStaleRunning, LeaseLost
<1>3. CASE QueueStaleArtifacts
  BY <1>3, ContestOwner DEF QueueStaleArtifacts, Outdated
<1>4. CASE \E s \in Slot : SessionStep(s)
  <2>1. PICK s \in Slot : SessionStep(s)
    BY <1>4
  <2>2. CASE EndSession(s)
    BY <2>1, <2>2, SessionStepFrame, OwnerEnds
  <2>3. CASE ~EndSession(s)
    BY <2>1, <2>3, SessionStepFrame, OwnerKept
  <2> QED BY <2>2, <2>3
<1>5. CASE ClockStep
  BY <1>5, ClockStepFrame, OwnerKept
<1>6. CASE WorkerStops
  BY <1>6, OwnerKept DEF WorkerStops
<1>7. CASE WorkerExits
  BY <1>7, OwnerKept, SchedulerAssumption DEF WorkerExits, Idle, SchedulerAssumption
<1>8. CASE \E upgrade \in BOOLEAN : WorkerStarts(upgrade)
  BY <1>8, WorkerStartsFrame, OwnerKept DEF WorkerStarts
<1>9. CASE WebStep
  <2>1. PICK t \in Torrent :
        \/ AdminQueuesAgain(t)
        \/ AdminCancels(t)
        \/ EnsureReads(t)
        \/ EnsureWrites(t)
    BY <1>9 DEF WebStep
  <2>2. CASE QueueAgain(t) \/ AdminCancels(t)
    BY <2>2, ContestOwner DEF QueueAgain, AdminCancels, TypeInv, TypeOK
  <2>3. CASE EnsureReads(t)
    BY <2>3, OwnerKept DEF EnsureReads
  <2> QED BY <2>1, <2>2, <2>3 DEF AdminQueuesAgain, EnsureWrites
<1>10. CASE UNCHANGED vars
  BY <1>10, OwnerKept DEF vars
<1> QED BY <1>1, <1>2, <1>3, <1>4, <1>5, <1>6, <1>7, <1>8, <1>9, <1>10
        DEF Next, SchedulerStep, ProcessStep

\* Unless an administrator or a lapsed lease took a torrent from under its
\* session, the torrent has one session at most.
THEOREM OneSessionPerTorrent == Spec => []SoleSession
<1>1. TypeInv /\ OwnerInv => SoleSession
  BY DEF OwnerInv
<1>2. TypeInv /\ OwnerInv /\ [Next]_vars => (TypeInv /\ OwnerInv)'
  BY TypeInvNext, OwnerInvNext
<1> QED BY TypeInvInit, OwnerInvInit, <1>1, <1>2, PTL DEF Spec

\* ... and that session still owns the claim it made.
THEOREM ClaimIsOwned == Spec => []SessionOwnsClaim
<1>1. TypeInv /\ OwnerInv => SessionOwnsClaim
  BY DEF OwnerInv
<1>2. TypeInv /\ OwnerInv /\ [Next]_vars => (TypeInv /\ OwnerInv)'
  BY TypeInvNext, OwnerInvNext
<1> QED BY TypeInvInit, OwnerInvInit, <1>1, <1>2, PTL DEF Spec

-----------------------------------------------------------------------------
(***************************************************************************)
(* Layer 3: what a complete torrent shows.                                 *)
(***************************************************************************)

FullInv == CompleteIsFull /\ SuccessIsStored

\* Steps that complete no torrent, report no success and spoil no artifact.
LEMMA FullKept ==
    ASSUME FullInv,
           contested \subseteq contested',
           \A t \in Torrent \ contested' :
               /\ Full(doc[t]) => Full(doc'[t])
               /\ doc'[t].state = "complete" => doc[t].state = "complete",
           \A r \in Slot : sess'[r].pc = "decide" => sess'[r] = sess[r]
    PROVE  FullInv'
<1>1. CompleteIsFull'
  BY DEF FullInv, CompleteIsFull, Full
<1>2. SuccessIsStored'
  BY DEF FullInv, SuccessIsStored, Full
<1> QED BY <1>1, <1>2 DEF FullInv

LEMMA ClaimFull == ASSUME TypeInv, OwnerInv, FullInv, NEW s \in Slot, Claim(s) PROVE FullInv'
<1>1. PICK t \in Torrent :
        /\ doc' = [doc EXCEPT ![t] = Claimed(@)]
        /\ sess' = [sess EXCEPT ![s] =
                        [Idle EXCEPT !.pc = IF doc[t].raw THEN "loop" ELSE "metadata",
                                     !.torrent = t,
                                     !.frames = doc[t].frames,
                                     !.failures = doc[t].failures]]
        /\ contested' = IF HasSession(t) THEN contested ELSE contested \ {t}
  BY DEF Claim
<1>2. sess'[s].torrent = t /\ sess'[s].pc # "decide"
        /\ \A r \in Slot : r # s => sess'[r] = sess[r]
  BY <1>1 DEF Idle, TypeInv, TypeOK
<1>3. doc'[t].state = "running" /\ \A u \in Torrent : u # t => doc'[u] = doc[u]
  BY <1>1, ClaimedKeeps DEF TypeInv, TypeOK
<1>4. \A u \in Torrent \ contested' : u \in contested => u = t /\ ~HasSession(t)
  BY <1>1
<1>5. CompleteIsFull'
  BY <1>3, <1>4 DEF FullInv, CompleteIsFull, Full
<1>6. SuccessIsStored'
  <2> SUFFICES ASSUME NEW r \in Slot,
                      sess'[r].torrent \in Torrent \ contested',
                      sess'[r].pc = "decide",
                      sess'[r].kind = "succeeded"
               PROVE  Full(doc'[sess'[r].torrent])
    BY DEF SuccessIsStored, Full
  <2>1. sess'[r] = sess[r]
    BY <1>2
  <2>2. sess[r].torrent \notin contested
    BY <1>4, <2>1 DEF HasSession
  <2>3. Full(doc[sess[r].torrent]) /\ doc[sess[r].torrent].state = "running"
    BY <2>1, <2>2 DEF FullInv, SuccessIsStored, OwnerInv, SessionOwnsClaim
  <2>4. SameArtifact(doc'[sess[r].torrent], doc[sess[r].torrent])
    <3>1. doc[t] \in Doc
      BY DEF TypeInv, TypeOK
    <3>2. SameArtifact(Claimed(doc[t]), doc[t])
      BY <3>1, ClaimedKeeps
    <3> QED BY <1>1, <2>1, <3>2 DEF TypeInv, TypeOK, SameArtifact
  <2> QED BY <2>1, <2>3, <2>4 DEF Full, SameArtifact
<1> QED BY <1>5, <1>6 DEF FullInv

\* A full artifact is stored before the session reports success: complete()
\* writes it, and only then does _finish mark the torrent complete.
LEMMA AttemptEndsFull ==
    ASSUME TypeInv, OwnerInv, FullInv, NEW s \in Slot, AttemptEnds(s) PROVE FullInv'
<1> DEFINE t == sess[s].torrent
<1>1. t \in Torrent /\ doc[t] \in Doc /\ sess[s] \in Session
  BY SessionHasTorrent DEF AttemptEnds
<1>3. PICK r \in Result, replace \in BOOLEAN, known \in BOOLEAN :
        /\ Replaces(s, r, replace)
        /\ doc' = IF IsRunning(s)
                  THEN [doc EXCEPT ![t] = Stamped(@, r, replace)]
                  ELSE doc
        /\ sess' = [sess EXCEPT ![s].pc = "decide", ![s].kind = r.kind,
                                ![s].decoded = known]
        /\ contested' = contested
  BY DEF AttemptEnds
<1>4. /\ sess'[s].torrent = t /\ sess'[s].kind = r.kind
      /\ \A q \in Slot : q # s => sess'[q] = sess[q]
  BY <1>1, <1>3 DEF TypeInv, TypeOK, Session
<1>5. /\ doc'[t].state = doc[t].state
      /\ ~IsRunning(s) => doc'[t] = doc[t]
      /\ \A u \in Torrent : u # t => doc'[u] = doc[u]
  <2>1. Stamped(doc[t], r, replace).state = doc[t].state
    BY <1>1, StampedKeeps
  <2> QED BY <1>1, <1>3, <2>1 DEF TypeInv, TypeOK
<1>51. contested' = contested
  BY <1>3
<1>6. CompleteIsFull'
  BY <1>5, <1>51 DEF FullInv, CompleteIsFull, Full, IsRunning
<1>7. ASSUME t \notin contested, r.kind = "succeeded" PROVE Full(doc'[t])
  <2>1. IsRunning(s)
    BY <1>1, <1>7 DEF IsRunning, OwnerInv, SessionOwnsClaim
  <2>2. r.frames = Target /\ replace
    BY <1>3, <1>7 DEF Result, Replaces
  <2>3. doc'[t].frames = Target /\ doc'[t].fresh = TRUE
    BY <1>1, <1>3, <2>1, <2>2, StampedKeeps DEF TypeInv, TypeOK
  <2> QED BY <2>3 DEF Full
<1>8. SuccessIsStored'
  <2> SUFFICES ASSUME NEW q \in Slot,
                      sess'[q].torrent \in Torrent \ contested',
                      sess'[q].pc = "decide",
                      sess'[q].kind = "succeeded"
               PROVE  Full(doc'[sess'[q].torrent])
    BY DEF SuccessIsStored, Full
  <2>1. CASE q = s
    <3>1. sess'[q].torrent = t /\ t \notin contested /\ r.kind = "succeeded"
      BY <1>4, <1>51, <2>1
    <3>2. Full(doc'[t])
      BY <1>7, <3>1
    <3> QED BY <3>1, <3>2
  <2>2. CASE q # s
    <3>1. sess'[q] = sess[q] /\ sess[q].torrent \notin contested
      BY <1>4, <1>51, <2>2
    <3>2. sess[q].torrent # t
      BY <2>2, <3>1 DEF OwnerInv, SoleSession
    <3>3. Full(doc[sess[q].torrent])
      BY <3>1 DEF FullInv, SuccessIsStored
    <3>4. doc'[sess[q].torrent] = doc[sess[q].torrent]
      BY <1>5, <3>1, <3>2
    <3> QED BY <3>1, <3>3, <3>4
  <2> QED BY <2>1, <2>2
<1> QED BY <1>6, <1>8 DEF FullInv

LEMMA FinishFull ==
    ASSUME TypeInv, FullInv, NEW s \in Slot, sess[s].torrent \in Torrent,
           NEW state \in States, NEW n,
           Finish(s, state, n),
           state = "complete" => sess[s].pc = "decide" /\ sess[s].kind = "succeeded"
    PROVE  FullInv'
<1> DEFINE t == sess[s].torrent
<1>1. /\ SameArtifact(doc'[t], doc[t])
      /\ doc'[t].state \in {doc[t].state, state}
      /\ \A u \in Torrent : u # t => doc'[u] = doc[u]
  <2> DEFINE d == Released(doc[t], state, n)
  <2>1. SameArtifact(d, doc[t]) /\ d.state = state
    <3>1. doc[t] \in Doc /\ state \in States
      BY DEF TypeInv, TypeOK, States
    <3> QED BY <3>1, ReleasedKeeps
  <2>2. doc' = IF IsRunning(s) THEN [doc EXCEPT ![t] = d] ELSE doc
    BY DEF Finish
  <2> HIDE DEF d
  <2> QED BY <2>1, <2>2 DEF TypeInv, TypeOK, SameArtifact
<1>2. sess'[s].pc = "idle" /\ \A r \in Slot : r # s => sess'[r] = sess[r]
  BY DEF Finish, EndSession, Idle, TypeInv, TypeOK
<1>3. contested' = contested
  BY DEF Finish
<1>4. CompleteIsFull'
  BY <1>1, <1>3 DEF FullInv, CompleteIsFull, SuccessIsStored, Full, SameArtifact
<1>5. SuccessIsStored'
  BY <1>1, <1>2, <1>3 DEF FullInv, SuccessIsStored, Full, SameArtifact
<1> QED BY <1>4, <1>5 DEF FullInv

LEMMA RequeueFull ==
    ASSUME TypeInv, FullInv, NEW s \in Slot, sess[s].torrent \in Torrent,
           NEW state \in {"queued", "partial"}, NEW n, NEW cooling,
           Requeue(s, state, n, cooling)
    PROVE  FullInv'
<1> DEFINE t == sess[s].torrent
<1>1. /\ SameArtifact(doc'[t], doc[t])
      /\ doc'[t].state \in {doc[t].state, state}
      /\ \A u \in Torrent : u # t => doc'[u] = doc[u]
  <2> DEFINE d == [Released(doc[t], state, n) EXCEPT !.cooling = cooling]
  <2>1. SameArtifact(d, doc[t]) /\ d.state = state
    <3>1. doc[t] \in Doc /\ state \in States
      BY DEF TypeInv, TypeOK, States
    <3> QED BY <3>1 DEF Released, Doc, SameArtifact
  <2>2. doc' = IF IsRunning(s) THEN [doc EXCEPT ![t] = d] ELSE doc
    BY DEF Requeue
  <2> HIDE DEF d
  <2> QED BY <2>1, <2>2 DEF TypeInv, TypeOK, SameArtifact
<1>2. sess'[s].pc = "idle" /\ \A r \in Slot : r # s => sess'[r] = sess[r]
  BY DEF Requeue, EndSession, Idle, TypeInv, TypeOK
<1>3. contested' = contested
  BY DEF Requeue
<1> QED BY <1>1, <1>2, <1>3, FullKept DEF Full, SameArtifact

LEMMA SessionStepFull ==
    ASSUME TypeInv, OwnerInv, FullInv, NEW s \in Slot, SessionStep(s) PROVE FullInv'
<1>1. /\ sess[s].torrent \in Torrent
      /\ contested' = contested
      /\ \A r \in Slot : r # s => sess'[r] = sess[r]
      /\ \A t \in Torrent : t # sess[s].torrent => doc'[t] = doc[t]
  BY SessionStepFrame
<1>2. CASE FailOrRequeue(s)
  BY <1>1, <1>2, FinishFull, RequeueFull DEF FailOrRequeue, States
<1>3. CASE MetadataInvalid(s)
  BY <1>1, <1>3, FinishFull DEF MetadataInvalid, States
<1>4. CASE StopSession(s)
  BY <1>1, <1>4, RequeueFull DEF StopSession
<1>5. CASE Settle(s)
  BY <1>1, <1>2, <1>5, FinishFull DEF Settle, States
<1>6. CASE Yield(s)
  BY <1>1, <1>6, RequeueFull DEF Yield
<1>7. CASE AttemptEnds(s)
  BY <1>7, AttemptEndsFull
<1>8. ASSUME \/ MetadataResolved(s) \/ StartAttempt(s) \/ AttemptWaits(s)
             \/ Continue(s) \/ GiveWay(s)
      PROVE  FullInv'
  <2>1. sess'[s].pc # "decide"
    BY <1>8 DEF MetadataResolved, StartAttempt, AttemptWaits, Continue, GiveWay,
                TypeInv, TypeOK, Session
  <2>2. \A t \in Torrent : /\ doc'[t].state = doc[t].state
                          /\ doc'[t].frames = doc[t].frames
                          /\ doc'[t].stamped = doc[t].stamped
                          /\ doc'[t].fresh = doc[t].fresh
    BY <1>8 DEF MetadataResolved, StartAttempt, AttemptWaits, Continue, GiveWay,
                TypeInv, TypeOK, Doc
  <2> QED BY <1>1, <2>1, <2>2, FullKept DEF Full
<1> QED BY <1>2, <1>3, <1>4, <1>5, <1>6, <1>7, <1>8
        DEF SessionStep, MetadataUnavailable, WaitRaises, AttemptRaises, CleanupRaises

LEMMA FullInvInit == Init => FullInv
<1> SUFFICES ASSUME Init PROVE FullInv
  OBVIOUS
<1>1. \A t \in Torrent : doc[t].state # "complete"
  BY DEF Init, NewDoc
<1>2. \A s \in Slot : sess[s].pc # "decide"
  BY DEF Init, Idle
<1> QED BY <1>1, <1>2 DEF FullInv, CompleteIsFull, SuccessIsStored

LEMMA FullInvNext == TypeInv /\ OwnerInv /\ FullInv /\ [Next]_vars => FullInv'
<1> SUFFICES ASSUME TypeInv, OwnerInv, FullInv, [Next]_vars PROVE FullInv'
  OBVIOUS
<1>1. CASE \E s \in Slot : Claim(s)
  BY <1>1, ClaimFull
\* Whatever puts torrents back in the queue completes none.
<1>2. ASSUME NEW S \in SUBSET Torrent, Contest(S), UNCHANGED sess,
             \A t \in Torrent \ S : doc'[t] = doc[t],
             \A t \in S : doc'[t].state # "complete" /\ SameArtifact(doc'[t], doc[t])
      PROVE  FullInv'
  <2>1. \A t \in Torrent : Full(doc[t]) => Full(doc'[t])
    BY <1>2 DEF Full, SameArtifact
  <2> QED BY <1>2, <2>1, FullKept DEF Contest
<1>3. CASE RepairStaleRunning
  <2>1. \A t \in LeaseLost : t \in Torrent /\ doc'[t] = Queued(doc[t])
    BY <1>3 DEF RepairStaleRunning, LeaseLost
  <2>2. \A t \in Torrent \ LeaseLost : doc'[t] = doc[t]
    BY <1>3 DEF RepairStaleRunning
  <2>3. \A t \in LeaseLost : doc'[t].state # "complete" /\ SameArtifact(doc'[t], doc[t])
    BY <2>1, QueuedKeeps DEF TypeInv, TypeOK
  <2> QED BY <1>2, <1>3, <2>2, <2>3 DEF RepairStaleRunning, LeaseLost
<1>4. CASE QueueStaleArtifacts
  <2>1. \A t \in Outdated : t \in Torrent /\ doc'[t] = Queued(doc[t])
    BY <1>4 DEF QueueStaleArtifacts, Outdated
  <2>2. \A t \in Torrent \ Outdated : doc'[t] = doc[t]
    BY <1>4 DEF QueueStaleArtifacts
  <2>3. \A t \in Outdated : doc'[t].state # "complete" /\ SameArtifact(doc'[t], doc[t])
    BY <2>1, QueuedKeeps DEF TypeInv, TypeOK
  <2> QED BY <1>2, <1>4, <2>2, <2>3 DEF QueueStaleArtifacts, Outdated
<1>5. CASE \E s \in Slot : SessionStep(s)
  BY <1>5, SessionStepFull
<1>6. CASE ClockStep
  BY <1>6, ClockStepFrame, FullKept DEF Full
<1>7. CASE WorkerStops
  BY <1>7, FullKept DEF WorkerStops
<1>8. CASE WorkerExits
  BY <1>8, FullKept DEF WorkerExits, Idle
<1>9. CASE \E upgrade \in BOOLEAN : WorkerStarts(upgrade)
  BY <1>9, WorkerStartsFrame, FullKept DEF WorkerStarts
<1>10. CASE WebStep
  <2>1. PICK t \in Torrent :
        \/ AdminQueuesAgain(t)
        \/ AdminCancels(t)
        \/ EnsureReads(t)
        \/ EnsureWrites(t)
    BY <1>10 DEF WebStep
  <2>2. CASE QueueAgain(t)
    <3>1. /\ doc'[t].state # "complete" /\ SameArtifact(doc'[t], doc[t])
          /\ \A u \in Torrent \ {t} : doc'[u] = doc[u]
      BY <2>2, ResetKeeps DEF QueueAgain, TypeInv, TypeOK
    <3> QED BY <1>2, <2>2, <3>1 DEF QueueAgain
  <2>3. CASE AdminCancels(t)
    <3>1. /\ doc'[t].state # "complete" /\ SameArtifact(doc'[t], doc[t])
          /\ \A u \in Torrent \ {t} : doc'[u] = doc[u]
      BY <2>3, CancelledKeeps DEF AdminCancels, TypeInv, TypeOK
    <3> QED BY <1>2, <2>3, <3>1 DEF AdminCancels
  <2>4. CASE EnsureReads(t)
    BY <2>4, FullKept DEF EnsureReads
  <2> QED BY <2>1, <2>2, <2>3, <2>4 DEF AdminQueuesAgain, EnsureWrites
<1>11. CASE UNCHANGED vars
  BY <1>11, FullKept DEF vars
<1> QED BY <1>1, <1>3, <1>4, <1>5, <1>6, <1>7, <1>8, <1>9, <1>10, <1>11
        DEF Next, SchedulerStep, ProcessStep

\* The three layers together are the inductive invariant of the module.
THEOREM Inductive == Spec => []IInv
<1>1. TypeInv /\ OwnerInv /\ FullInv => IInv
  BY DEF TypeInv, OwnerInv, FullInv, IInv
<1>2. TypeInv /\ OwnerInv /\ FullInv /\ [Next]_vars => (TypeInv /\ OwnerInv /\ FullInv)'
  BY TypeInvNext, OwnerInvNext, FullInvNext
<1> QED BY TypeInvInit, OwnerInvInit, FullInvInit, <1>1, <1>2, PTL DEF Spec

\* A torrent is marked complete only with a frame for every anchor, made by
\* the recipe its diagnostics claim.
THEOREM CompleteShowsAll == Spec => []CompleteIsFull
<1>1. IInv => CompleteIsFull
  BY DEF IInv
<1> QED BY Inductive, <1>1, PTL

-----------------------------------------------------------------------------
(***************************************************************************)
(* What a step may do.                                                     *)
(***************************************************************************)

LEMMA FinishWrites ==
    ASSUME TypeInv, NEW s \in Slot, sess[s].torrent \in Torrent,
           NEW state \in States, NEW n, Finish(s, state, n)
    PROVE  LET t == sess[s].torrent IN
           /\ ~IsRunning(s) => doc' = doc
           /\ IsRunning(s) => doc'[t].failures = n
<1> DEFINE t == sess[s].torrent
<1> DEFINE d == Released(doc[t], state, n)
<1>1. d.failures = n
  <2>1. doc[t] \in Doc
    BY DEF TypeInv, TypeOK
  <2> QED BY <2>1, ReleasedKeeps
<1>2. doc' = IF IsRunning(s) THEN [doc EXCEPT ![t] = d] ELSE doc
  BY DEF Finish
<1> HIDE DEF d
<1> QED BY <1>1, <1>2 DEF TypeInv, TypeOK

LEMMA RequeueWrites ==
    ASSUME TypeInv, NEW s \in Slot, sess[s].torrent \in Torrent,
           NEW state \in States, NEW n, NEW cooling,
           Requeue(s, state, n, cooling)
    PROVE  LET t == sess[s].torrent IN
           /\ ~IsRunning(s) => doc' = doc
           /\ IsRunning(s) => doc'[t].failures = n
<1> DEFINE t == sess[s].torrent
<1> DEFINE d == [Released(doc[t], state, n) EXCEPT !.cooling = cooling]
<1>1. d.failures = n
  <2>1. doc[t] \in Doc
    BY DEF TypeInv, TypeOK
  <2> QED BY <2>1 DEF Released, Doc
<1>2. doc' = IF IsRunning(s) THEN [doc EXCEPT ![t] = d] ELSE doc
  BY DEF Requeue
<1> HIDE DEF d
<1> QED BY <1>1, <1>2 DEF TypeInv, TypeOK

LEMMA SessionStepWrites ==
    ASSUME TypeInv, NEW s \in Slot, SessionStep(s)
    PROVE  LET t == sess[s].torrent IN
           /\ ~IsRunning(s) => doc' = doc
           /\ doc'[t].failures \in {doc[t].failures, sess[s].failures + 1}
<1> DEFINE t == sess[s].torrent
<1>1. t \in Torrent /\ doc[t] \in Doc
  BY SessionStepFrame DEF TypeInv, TypeOK
<1>2. CASE FailOrRequeue(s)
  BY <1>1, <1>2, FinishWrites, RequeueWrites DEF FailOrRequeue, States
<1>3. CASE \E state \in States : Finish(s, state, Stored(s))
  BY <1>1, <1>3, FinishWrites DEF Stored
<1>4. CASE \E state \in States : \E cooling : Requeue(s, state, Stored(s), cooling)
  BY <1>1, <1>4, RequeueWrites DEF Stored
<1>5. ASSUME \/ MetadataResolved(s) \/ StartAttempt(s) \/ AttemptWaits(s)
             \/ Continue(s) \/ GiveWay(s)
      PROVE  (~IsRunning(s) => doc' = doc) /\ doc'[t].failures = doc[t].failures
  <2>1. CASE MetadataResolved(s)
    <3>1. ~IsRunning(s) => [doc[t] EXCEPT !.raw = @ \/ IsRunning(s)] = doc[t]
      BY <1>1 DEF Doc, IsRunning
    <3> QED BY <1>1, <2>1, <3>1 DEF MetadataResolved, TypeInv, TypeOK, Doc
  <2> QED BY <1>1, <1>5, <2>1
          DEF StartAttempt, AttemptWaits, Continue, GiveWay, TypeInv, TypeOK, Doc
<1>6. CASE AttemptEnds(s)
  <2>1. PICK r \in Result, replace \in BOOLEAN :
            doc' = IF IsRunning(s) THEN [doc EXCEPT ![t] = Stamped(@, r, replace)] ELSE doc
    BY <1>6 DEF AttemptEnds
  <2>2. Stamped(doc[t], r, replace).failures = doc[t].failures
    BY <1>1, StampedKeeps
  <2> QED BY <1>1, <2>1, <2>2 DEF TypeInv, TypeOK
<1> QED BY <1>2, <1>3, <1>4, <1>5, <1>6
        DEF SessionStep, MetadataInvalid, MetadataUnavailable, StopSession, WaitRaises,
            AttemptRaises, CleanupRaises, Settle, Yield, States

LEMMA DropsLateWritesNext ==
    ASSUME TypeInv, [Next]_vars, NEW t \in Torrent, doc[t].state # "running"
    PROVE  DropsLateWrites(t)
<1>1. doc[t] \in Doc
  BY DEF TypeInv, TypeOK
<1>2. doc'[t] = doc[t] => DropsLateWrites(t)
  BY DEF DropsLateWrites
<1>3. CASE \E s \in Slot : Claim(s)
  <2>1. PICK u \in Torrent :
          /\ Claimable(u)
          /\ doc' = [doc EXCEPT ![u] = Claimed(@)]
    BY <1>3 DEF Claim
  <2>2. CASE u = t
    <3>1. /\ doc'[t].frames = doc[t].frames /\ doc'[t].raw = doc[t].raw
          /\ doc'[t].state = "running"
      <4>1. SameArtifact(Claimed(doc[t]), doc[t]) /\ Claimed(doc[t]).state = "running"
        BY <1>1, ClaimedKeeps
      <4> QED BY <1>1, <2>1, <2>2, <4>1 DEF TypeInv, TypeOK, SameArtifact
    <3> QED BY <2>1, <2>2, <3>1 DEF DropsLateWrites
  <2>3. CASE u # t
    BY <1>2, <2>1, <2>3 DEF TypeInv, TypeOK
  <2> QED BY <2>2, <2>3
<1>4. doc'[t] = Queued(doc[t]) \/ doc'[t] = Reset(doc[t]) => DropsLateWrites(t)
  BY <1>1, QueuedKeeps, ResetKeeps DEF DropsLateWrites, SameArtifact
<1>5. CASE RepairStaleRunning
  BY <1>2, <1>4, <1>5 DEF RepairStaleRunning
<1>6. CASE QueueStaleArtifacts
  BY <1>2, <1>4, <1>6 DEF QueueStaleArtifacts
<1>7. CASE \E s \in Slot : SessionStep(s)
  <2>1. PICK s \in Slot : SessionStep(s)
    BY <1>7
  <2>2. CASE sess[s].torrent = t
    BY <1>2, <2>1, <2>2, SessionStepWrites DEF IsRunning
  <2>3. CASE sess[s].torrent # t
    BY <1>2, <2>1, <2>3, SessionStepFrame
  <2> QED BY <2>2, <2>3
<1>8. CASE ClockStep
  BY <1>8, ClockStepFrame DEF DropsLateWrites
<1>9. CASE WorkerStops \/ WorkerExits \/ UNCHANGED vars
  BY <1>2, <1>9 DEF WorkerStops, WorkerExits, vars
<1>10. CASE \E upgrade \in BOOLEAN : WorkerStarts(upgrade)
  BY <1>10, WorkerStartsFrame DEF DropsLateWrites
<1>11. CASE WebStep
  <2>1. PICK u \in Torrent :
        \/ QueueAgain(u)
        \/ AdminCancels(u)
        \/ EnsureReads(u)
    BY <1>11 DEF WebStep, AdminQueuesAgain, EnsureWrites
  <2>2. CASE QueueAgain(u)
    BY <1>2, <1>4, <2>2 DEF QueueAgain, TypeInv, TypeOK
  <2>3. CASE AdminCancels(u)
    <3>1. u = t => /\ doc'[t].frames = doc[t].frames /\ doc'[t].raw = doc[t].raw
                   /\ doc'[t].state = "cancelled"
      BY <1>1, <2>3, CancelledKeeps DEF AdminCancels, TypeInv, TypeOK, SameArtifact
    <3>2. u # t => doc'[t] = doc[t]
      BY <2>3 DEF AdminCancels, TypeInv, TypeOK
    <3> QED BY <1>2, <3>1, <3>2 DEF DropsLateWrites
  <2>4. CASE EnsureReads(u)
    BY <1>2, <2>4 DEF EnsureReads
  <2> QED BY <2>1, <2>2, <2>3, <2>4
<1> QED BY <1>3, <1>5, <1>6, <1>7, <1>8, <1>9, <1>10, <1>11
        DEF Next, SchedulerStep, ProcessStep

\* No session, however late, changes an artifact of a torrent that is not
\* running, and only a claim makes one run.
THEOREM LateWritesDropped == Spec => LateWritesAreDropped
<1>1. TypeInv /\ [Next]_vars => [\A t \in Torrent : DropsLateWrites(t)]_vars
  <2> SUFFICES ASSUME TypeInv, [Next]_vars, NEW t \in Torrent PROVE DropsLateWrites(t)
    OBVIOUS
  <2>1. CASE doc[t].state = "running"
    BY <2>1 DEF DropsLateWrites
  <2>2. CASE doc[t].state # "running"
    BY <2>2, DropsLateWritesNext
  <2> QED BY <2>1, <2>2
<1> QED BY TypeInvInit, TypeInvNext, <1>1, PTL DEF Spec, LateWritesAreDropped

\* The failure count of a torrent whose session owns its claim moves by one or
\* not at all.
THEOREM FailuresCounted == Spec => FailuresCountOnce
<1>1. TypeInv /\ OwnerInv /\ [Next]_vars => [\A t \in Torrent : CountsOnce(t)]_vars
  <2> SUFFICES ASSUME TypeInv, OwnerInv, [Next]_vars, NEW t \in Torrent,
                      HasSession(t), t \notin contested'
               PROVE  doc'[t].failures \in {doc[t].failures, doc[t].failures + 1}
    BY DEF CountsOnce
  <2> DEFINE same == doc'[t].failures = doc[t].failures
  <2>1. CASE \E s \in Slot : Claim(s)
    <3>1. PICK u \in Torrent : doc' = [doc EXCEPT ![u] = Claimed(@)]
      BY <2>1 DEF Claim
    <3>2. doc[u] \in Doc
      BY DEF TypeInv, TypeOK
    <3>3. Claimed(doc[u]).failures = doc[u].failures
      BY <3>2, ClaimedKeeps
    <3> QED BY <3>1, <3>3 DEF TypeInv, TypeOK
  <2>2. CASE RepairStaleRunning
    BY <2>2, QueuedKeeps DEF RepairStaleRunning, TypeInv, TypeOK
  <2>3. CASE QueueStaleArtifacts
    BY <2>3, QueuedKeeps DEF QueueStaleArtifacts, TypeInv, TypeOK
  <2>4. CASE \E s \in Slot : SessionStep(s)
    <3>1. PICK s \in Slot : SessionStep(s)
      BY <2>4
    <3>2. CASE sess[s].torrent = t
      <4>1. t \notin contested
        BY <3>1, SessionStepFrame
      <4>2. doc[t].failures = sess[s].failures
        BY <3>2, <4>1 DEF OwnerInv, SessionOwnsClaim
      <4> QED BY <3>1, <3>2, <4>2, SessionStepWrites
    <3>3. CASE sess[s].torrent # t
      BY <3>1, <3>3, SessionStepFrame
    <3> QED BY <3>2, <3>3
  <2>5. CASE ClockStep
    BY <2>5, ClockStepFrame
  <2>6. CASE WorkerStops \/ WorkerExits \/ UNCHANGED vars
    BY <2>6 DEF WorkerStops, WorkerExits, vars
  <2>7. CASE \E upgrade \in BOOLEAN : WorkerStarts(upgrade)
    BY <2>7, WorkerStartsFrame
  <2>8. CASE WebStep
    <3>1. PICK u \in Torrent :
          \/ QueueAgain(u)
          \/ AdminCancels(u)
          \/ EnsureReads(u)
      BY <2>8 DEF WebStep, AdminQueuesAgain, EnsureWrites
    <3>2. CASE EnsureReads(u)
      BY <3>2 DEF EnsureReads
    <3>3. CASE QueueAgain(u) \/ AdminCancels(u)
      <4>1. u # t
        BY <3>3 DEF QueueAgain, AdminCancels, Contest
      <4> QED BY <3>3, <4>1 DEF QueueAgain, AdminCancels, TypeInv, TypeOK
    <3> QED BY <3>1, <3>2, <3>3
  <2> QED BY <2>1, <2>2, <2>3, <2>4, <2>5, <2>6, <2>7, <2>8
          DEF Next, SchedulerStep, ProcessStep
<1> QED BY TypeInvInit, TypeInvNext, OwnerInvInit, OwnerInvNext, <1>1, PTL
        DEF Spec, FailuresCountOnce

-----------------------------------------------------------------------------
(***************************************************************************)
(* The scheduler implements FifoQueue.  A torrent that runs is open: its   *)
(* claim cleared the cooldown, so settling it does not change open.        *)
(***************************************************************************)

RunningIsOpen == \A t \in Torrent : doc[t].state = "running" => ~doc[t].cooling

phaseBar == [t \in Torrent |-> Phase(doc[t].state)]

openBar == [t \in Torrent |-> ~doc[t].cooling]

LEMMA PhaseOf ==
    /\ Phase("queued") = "waiting" /\ Phase("partial") = "waiting"
    /\ Phase("running") = "active"
    /\ Phase("complete") = "settled" /\ Phase("exhausted") = "settled"
    /\ Phase("cancelled") = "settled"
  BY DEF Phase

LEMMA QueueInit == Init => Queue!Init
<1> SUFFICES ASSUME Init PROVE Queue!Init
  OBVIOUS
<1>1. \A t \in Torrent : doc[t].state \in {"queued", "cancelled"} /\ doc[t].cooling = FALSE
  BY DEF Init, NewDoc
<1>2. phaseBar \in [Torrent -> {"waiting", "settled"}]
  BY <1>1, PhaseOf DEF phaseBar
<1>3. openBar = [t \in Torrent |-> TRUE]
  BY <1>1 DEF openBar
<1> QED BY <1>2, <1>3 DEF Queue!Init, Init, phaseBar, openBar

\* Joining the line is MoveToTail.
LEMMA JoinIsMoveToTail ==
    ASSUME NEW S \in SUBSET Torrent, MoveToTail(S) PROVE Queue!Join(S)
  BY DEF MoveToTail, Queue!Join

LEMMA StutterIsAllowed ==
    ASSUME doc \in [Torrent -> Doc],
           \A t \in Torrent : /\ doc'[t].state = doc[t].state
                             /\ doc'[t].cooling = doc[t].cooling,
           UNCHANGED before
    PROVE  UNCHANGED Queue!vars
<1>1. phaseBar' = phaseBar
  BY DEF phaseBar
<1>2. openBar' = openBar
  BY DEF openBar
<1> QED BY <1>1, <1>2 DEF Queue!vars, phaseBar, openBar

\* One torrent changes: what its new document says is what the queue sees.
LEMMA OneMoves ==
    ASSUME doc \in [Torrent -> Doc], NEW t \in Torrent, NEW d,
           doc' = [doc EXCEPT ![t] = d]
    PROVE  /\ phaseBar' = [phaseBar EXCEPT ![t] = Phase(d.state)]
           /\ openBar' = [openBar EXCEPT ![t] = ~d.cooling]
<1>1. phaseBar' = [phaseBar EXCEPT ![t] = Phase(d.state)]
  BY DEF phaseBar
<1>2. openBar' = [openBar EXCEPT ![t] = ~d.cooling]
  BY DEF openBar
<1> QED BY <1>1, <1>2

LEMMA ClaimTakes ==
    ASSUME TypeInv, NEW s \in Slot, Claim(s)
    PROVE  Queue!Next
<1>1. PICK t \in Torrent :
        /\ Claimable(t)
        /\ \A u \in Torrent : Claimable(u) => <<u, t>> \notin before
        /\ doc' = [doc EXCEPT ![t] = Claimed(@)]
        /\ before' = before
  BY DEF Claim
<1>2. \A u \in Torrent : doc[u] \in Doc
  BY DEF TypeInv, TypeOK
<1>3. \A u \in Torrent : Queue!Ready(u) <=> Claimable(u)
  <2> SUFFICES ASSUME NEW u \in Torrent PROVE Queue!Ready(u) <=> Claimable(u)
    OBVIOUS
  <2>1. doc[u].state \in States
    BY <1>2 DEF Doc
  <2>2. Phase(doc[u].state) = "waiting" <=> doc[u].state \in {"queued", "partial"}
    BY <2>1, PhaseOf DEF States
  <2> QED BY <2>2 DEF Queue!Ready, Claimable
<1>4. Claimed(doc[t]).state = "running" /\ ~Claimed(doc[t]).cooling /\ ~doc[t].cooling
  BY <1>1, <1>2, ClaimedKeeps DEF Claimable
<1>5. /\ phaseBar' = [phaseBar EXCEPT ![t] = "active"]
      /\ openBar' = [openBar EXCEPT ![t] = TRUE]
  <2> DEFINE d == Claimed(doc[t])
  <2>1. doc \in [Torrent -> Doc] /\ doc' = [doc EXCEPT ![t] = d]
    BY <1>1 DEF TypeInv, TypeOK
  <2>2. Phase(d.state) = "active" /\ ~d.cooling
    BY <1>4, PhaseOf
  <2> HIDE DEF d
  <2>3. /\ phaseBar' = [phaseBar EXCEPT ![t] = Phase(d.state)]
        /\ openBar' = [openBar EXCEPT ![t] = ~d.cooling]
    BY <2>1, OneMoves
  <2> QED BY <2>2, <2>3
<1>6. openBar' = openBar
  <2>1. openBar[t] = TRUE
    BY <1>4 DEF openBar
  <2> QED BY <1>5, <2>1 DEF openBar
<1>7. Queue!Take(t)
  BY <1>1, <1>3, <1>5, <1>6 DEF Queue!Take, phaseBar, openBar
<1> QED BY <1>7 DEF Queue!Next

LEMMA FinishSettles ==
    ASSUME TypeInv, RunningIsOpen, NEW s \in Slot, sess[s].torrent \in Torrent,
           NEW state \in {"complete", "exhausted"}, NEW n, Finish(s, state, n)
    PROVE  Queue!Next \/ UNCHANGED Queue!vars
<1> DEFINE t == sess[s].torrent
<1>1. doc \in [Torrent -> Doc] /\ before' = before
  BY DEF Finish, TypeInv, TypeOK
<1>2. CASE ~IsRunning(s)
  BY <1>1, <1>2, StutterIsAllowed DEF Finish
<1>3. CASE IsRunning(s)
  <2> DEFINE d == Released(doc[t], state, n)
  <2>1. doc' = [doc EXCEPT ![t] = d] /\ d.state = state /\ ~d.cooling
    <3>1. doc[t] \in Doc /\ state \in States
      BY <1>1 DEF States
    <3> QED BY <1>3, <3>1, ReleasedKeeps DEF Finish
  <2>2. Phase(state) = "settled" /\ Phase(doc[t].state) = "active" /\ ~doc[t].cooling
    BY <1>3, PhaseOf DEF IsRunning, RunningIsOpen
  <2>3. phaseBar' = [phaseBar EXCEPT ![t] = "settled"] /\ phaseBar[t] = "active"
    <3> HIDE DEF d
    <3> QED BY <1>1, <2>1, <2>2, OneMoves DEF phaseBar
  <2>4. openBar' = openBar
    <3> HIDE DEF d
    <3>1. openBar' = [openBar EXCEPT ![t] = TRUE]
      BY <1>1, <2>1, OneMoves
    <3>2. openBar[t] = TRUE
      BY <2>2 DEF openBar
    <3> QED BY <3>1, <3>2 DEF openBar
  <2>5. Queue!Settle(t)
    BY <1>1, <2>3, <2>4 DEF Queue!Settle, phaseBar, openBar
  <2> QED BY <2>5 DEF Queue!Next
<1> QED BY <1>2, <1>3

LEMMA RequeueGivesBack ==
    ASSUME TypeInv, NEW s \in Slot, sess[s].torrent \in Torrent,
           NEW state \in {"queued", "partial"}, NEW n, NEW cooling \in BOOLEAN,
           Requeue(s, state, n, cooling)
    PROVE  Queue!Next \/ UNCHANGED Queue!vars
<1> DEFINE t == sess[s].torrent
<1>1. doc \in [Torrent -> Doc]
  BY DEF TypeInv, TypeOK
<1>2. CASE ~IsRunning(s)
  BY <1>1, <1>2, StutterIsAllowed DEF Requeue
<1>3. CASE IsRunning(s)
  <2> DEFINE d == [Released(doc[t], state, n) EXCEPT !.cooling = cooling]
  <2>1. doc' = [doc EXCEPT ![t] = d] /\ d.state = state /\ d.cooling = cooling
    <3>1. doc[t] \in Doc
      BY <1>1
    <3>2. d.state = state
      BY <3>1 DEF Released, Doc
    <3>3. d.cooling = cooling
      BY <3>1 DEF Released, Doc
    <3> QED BY <1>3, <3>2, <3>3 DEF Requeue
  <2>2. Phase(state) = "waiting" /\ Phase(doc[t].state) = "active"
    BY <1>3, PhaseOf DEF IsRunning
  <2>3. phaseBar' = [phaseBar EXCEPT ![t] = "waiting"] /\ phaseBar[t] = "active"
    <3> HIDE DEF d
    <3> QED BY <1>1, <2>1, <2>2, OneMoves DEF phaseBar
  <2>4. openBar' = [openBar EXCEPT ![t] = ~cooling]
    <3> HIDE DEF d
    <3> QED BY <1>1, <2>1, OneMoves
  <2>5. Queue!Join({t})
    BY <1>3, JoinIsMoveToTail DEF Requeue
  <2>6. Queue!GiveBack(t, ~cooling)
    BY <2>3, <2>4, <2>5 DEF Queue!GiveBack, phaseBar, openBar
  <2> QED BY <2>6 DEF Queue!Next
<1> QED BY <1>2, <1>3

\* Several torrents at once join the line.
LEMMA PutBackEnqueues ==
    ASSUME TypeInv, NEW S \in SUBSET Torrent, MoveToTail(S),
           \A t \in S : doc'[t].state = "queued" /\ ~doc'[t].cooling,
           \A t \in Torrent \ S : doc'[t] = doc[t]
    PROVE  Queue!Next
<1>1. phaseBar' = [t \in Torrent |-> IF t \in S THEN "waiting" ELSE phaseBar[t]]
  BY PhaseOf DEF phaseBar
<1>2. openBar' = [t \in Torrent |-> t \in S \/ openBar[t]]
  <2>1. \A t \in Torrent : (~doc'[t].cooling) = (t \in S \/ openBar[t])
    BY DEF openBar, TypeInv, TypeOK, Doc
  <2> QED BY <2>1 DEF openBar
<1>3. Queue!Join(S)
  BY JoinIsMoveToTail
<1>4. Queue!Enqueue(S)
  BY <1>1, <1>2, <1>3 DEF Queue!Enqueue, phaseBar, openBar
<1> QED BY <1>4 DEF Queue!Next

\* What a session step can be to the queue: it settles its torrent, gives it
\* back, or changes neither states, cooldowns nor ranks.
QuietStep ==
    /\ before' = before
    /\ \A t \in Torrent : /\ doc'[t].state = doc[t].state
                          /\ doc'[t].cooling = doc[t].cooling

LEMMA SessionStepKinds ==
    ASSUME TypeInv, NEW s \in Slot, SessionStep(s)
    PROVE  \/ \E state \in {"complete", "exhausted"} : \E n : Finish(s, state, n)
           \/ \E state \in {"queued", "partial"} : \E n : \E cooling \in BOOLEAN :
                 Requeue(s, state, n, cooling)
           \/ QuietStep
<1> DEFINE t == sess[s].torrent
<1>1. t \in Torrent /\ doc \in [Torrent -> Doc]
  BY SessionStepFrame DEF TypeInv, TypeOK
<1>2. CASE FailOrRequeue(s)
  BY <1>2 DEF FailOrRequeue
<1>3. CASE MetadataInvalid(s) \/ StopSession(s) \/ Yield(s)
  BY <1>3 DEF MetadataInvalid, StopSession, Yield
<1>4. CASE Settle(s)
  BY <1>2, <1>4 DEF Settle
<1>5. CASE MetadataResolved(s)
  <2> DEFINE d == [doc[t] EXCEPT !.raw = @ \/ IsRunning(s)]
  <2>1. d.state = doc[t].state /\ d.cooling = doc[t].cooling
    BY <1>1 DEF Doc
  <2>2. doc' = [doc EXCEPT ![t] = d] /\ before' = before
    BY <1>5 DEF MetadataResolved
  <2> HIDE DEF d
  <2> QED BY <1>1, <2>1, <2>2 DEF QuietStep
<1>6. CASE StartAttempt(s)
  <2> DEFINE d == [doc[t] EXCEPT !.lease = "live"]
  <2>1. d.state = doc[t].state /\ d.cooling = doc[t].cooling
    BY <1>1 DEF Doc
  <2>2. before' = before /\ (doc' = doc \/ doc' = [doc EXCEPT ![t] = d])
    BY <1>6 DEF StartAttempt
  <2> HIDE DEF d
  <2> QED BY <1>1, <2>1, <2>2 DEF QuietStep
<1>7. CASE AttemptWaits(s) \/ Continue(s) \/ GiveWay(s)
  BY <1>7 DEF AttemptWaits, Continue, GiveWay, QuietStep
<1>8. CASE AttemptEnds(s)
  <2>1. PICK r \in Result, replace \in BOOLEAN :
            doc' = IF IsRunning(s) THEN [doc EXCEPT ![t] = Stamped(@, r, replace)] ELSE doc
    BY <1>8 DEF AttemptEnds
  <2> DEFINE d == Stamped(doc[t], r, replace)
  <2>2. d.state = doc[t].state /\ d.cooling = doc[t].cooling
    BY <1>1, StampedKeeps
  <2>3. before' = before /\ (doc' = doc \/ doc' = [doc EXCEPT ![t] = d])
    BY <1>8, <2>1 DEF AttemptEnds
  <2> HIDE DEF d
  <2> QED BY <1>1, <2>2, <2>3 DEF QuietStep
<1> QED BY <1>2, <1>3, <1>4, <1>5, <1>6, <1>7, <1>8
        DEF SessionStep, MetadataUnavailable, WaitRaises, AttemptRaises, CleanupRaises

\* A finish or a requeue leaves its torrent as it was, or no longer running.
LEMMA ReleaseStops ==
    ASSUME TypeInv, NEW s \in Slot, sess[s].torrent \in Torrent,
           NEW state \in States \ {"running"}, NEW n, NEW cooling \in BOOLEAN,
           Finish(s, state, n) \/ Requeue(s, state, n, cooling),
           NEW t \in Torrent
    PROVE  doc'[t] = doc[t] \/ doc'[t].state # "running"
<1> DEFINE u == sess[s].torrent
<1>1. doc \in [Torrent -> Doc]
  BY DEF TypeInv, TypeOK
<1>2. CASE Finish(s, state, n)
  <2> DEFINE d == Released(doc[u], state, n)
  <2>1. d.state = state
    BY <1>1 DEF Released, Doc
  <2>2. doc' = doc \/ doc' = [doc EXCEPT ![u] = d]
    BY <1>2 DEF Finish
  <2> HIDE DEF d
  <2> QED BY <1>1, <2>1, <2>2
<1>3. CASE Requeue(s, state, n, cooling)
  <2> DEFINE d == [Released(doc[u], state, n) EXCEPT !.cooling = cooling]
  <2>1. d.state = state
    BY <1>1 DEF Released, Doc
  <2>2. doc' = doc \/ doc' = [doc EXCEPT ![u] = d]
    BY <1>3 DEF Requeue
  <2> HIDE DEF d
  <2> QED BY <1>1, <2>1, <2>2
<1> QED BY <1>2, <1>3

LEMMA RunningIsOpenNext == TypeInv /\ RunningIsOpen /\ [Next]_vars => RunningIsOpen'
<1> SUFFICES ASSUME TypeInv, RunningIsOpen, [Next]_vars, NEW t \in Torrent,
                    doc'[t].state = "running"
             PROVE  ~doc'[t].cooling
  BY DEF RunningIsOpen
<1>1. doc[t] \in Doc
  BY DEF TypeInv, TypeOK
<1>2. \/ doc'[t] = doc[t]
      \/ doc'[t].state = doc[t].state /\ doc'[t].cooling = doc[t].cooling
      => ~doc'[t].cooling
  BY DEF RunningIsOpen
<1>3. CASE \E s \in Slot : Claim(s)
  BY <1>1, <1>2, <1>3, ClaimedKeeps DEF Claim, TypeInv, TypeOK
<1>4. Queued(doc[t]).state # "running" /\ Reset(doc[t]).state # "running"
  BY <1>1, QueuedKeeps, ResetKeeps
<1>5. CASE RepairStaleRunning
  BY <1>2, <1>4, <1>5 DEF RepairStaleRunning
<1>6. CASE QueueStaleArtifacts
  BY <1>2, <1>4, <1>6 DEF QueueStaleArtifacts
<1>7. CASE \E s \in Slot : SessionStep(s)
  <2>1. PICK s \in Slot : SessionStep(s)
    BY <1>7
  <2>2. sess[s].torrent \in Torrent
    BY <2>1, SessionStepFrame
  <2>3. ASSUME NEW state \in {"complete", "exhausted"}, NEW n, Finish(s, state, n)
        PROVE  doc'[t] = doc[t] \/ doc'[t].state # "running"
    BY <2>2, <2>3, ReleaseStops DEF States
  <2>4. ASSUME NEW state \in {"queued", "partial"}, NEW n, NEW cooling \in BOOLEAN,
               Requeue(s, state, n, cooling)
        PROVE  doc'[t] = doc[t] \/ doc'[t].state # "running"
    BY <2>2, <2>4, ReleaseStops DEF States
  <2>5. CASE QuietStep
    BY <1>2, <2>5 DEF QuietStep
  <2> QED BY <1>2, <2>1, <2>3, <2>4, <2>5, SessionStepKinds
<1>8. CASE ClockStep
  <2>1. \/ doc'[t] = doc[t]
        \/ doc'[t] = [doc[t] EXCEPT !.cooling = FALSE]
        \/ doc'[t] = [doc[t] EXCEPT !.lease = "lapsed"]
    BY <1>8 DEF ClockStep, CooldownElapses, LeaseLapses, TypeInv, TypeOK
  <2>2. [doc[t] EXCEPT !.cooling = FALSE].cooling = FALSE
    BY <1>1 DEF Doc
  <2>3. /\ [doc[t] EXCEPT !.lease = "lapsed"].cooling = doc[t].cooling
        /\ [doc[t] EXCEPT !.lease = "lapsed"].state = doc[t].state
    BY <1>1 DEF Doc
  <2>4. CASE doc'[t] = [doc[t] EXCEPT !.cooling = FALSE]
    BY <2>2, <2>4
  <2>5. CASE doc'[t] = [doc[t] EXCEPT !.lease = "lapsed"]
    BY <1>2, <2>3, <2>5
  <2> QED BY <1>2, <2>1, <2>4, <2>5
<1>9. CASE WorkerStops \/ WorkerExits \/ UNCHANGED vars
  BY <1>2, <1>9 DEF WorkerStops, WorkerExits, vars
<1>10. CASE \E upgrade \in BOOLEAN : WorkerStarts(upgrade)
  BY <1>2, <1>10, WorkerStartsFrame
<1>11. CASE WebStep
  <2>1. doc'[t] \in {doc[t], Reset(doc[t]), Cancelled(doc[t])}
    BY <1>11 DEF WebStep, AdminQueuesAgain, EnsureWrites, QueueAgain, AdminCancels,
                 EnsureReads, TypeInv, TypeOK
  <2> QED BY <1>1, <1>2, <1>4, <2>1, CancelledKeeps
<1> QED BY <1>3, <1>5, <1>6, <1>7, <1>8, <1>9, <1>10, <1>11
        DEF Next, SchedulerStep, ProcessStep

LEMMA RunningIsOpenInit == Init => RunningIsOpen
  BY DEF Init, NewDoc, RunningIsOpen

LEMMA CancelWithdraws ==
    ASSUME TypeInv, NEW t \in Torrent, AdminCancels(t) PROVE Queue!Next
<1>1. doc \in [Torrent -> Doc] /\ before' = before
  BY DEF AdminCancels, TypeInv, TypeOK
<1> DEFINE d == Cancelled(doc[t])
<1>2. d.state = "cancelled" /\ d.cooling = doc[t].cooling
  BY <1>1, CancelledKeeps
<1>3. doc' = [doc EXCEPT ![t] = d]
  BY DEF AdminCancels
<1> HIDE DEF d
<1>4. phaseBar' = [phaseBar EXCEPT ![t] = "settled"]
  <2>1. phaseBar' = [phaseBar EXCEPT ![t] = Phase(d.state)]
    BY <1>1, <1>3, OneMoves
  <2> QED BY <1>2, <2>1, PhaseOf
<1>5. openBar' = openBar
  BY <1>1, <1>2, <1>3 DEF openBar
<1>6. Queue!Withdraw(t)
  BY <1>1, <1>4, <1>5 DEF Queue!Withdraw, phaseBar, openBar
<1> QED BY <1>6 DEF Queue!Next

LEMMA CooldownOpens ==
    ASSUME TypeInv, NEW t \in Torrent, CooldownElapses(t) PROVE Queue!Next
<1>1. doc \in [Torrent -> Doc] /\ before' = before
  BY DEF CooldownElapses, TypeInv, TypeOK
<1> DEFINE d == [doc[t] EXCEPT !.cooling = FALSE]
<1>2. d.state = doc[t].state
  BY <1>1 DEF Doc
<1>3. ~d.cooling
  BY <1>1 DEF Doc
<1>4. doc' = [doc EXCEPT ![t] = d]
  BY DEF CooldownElapses
<1> HIDE DEF d
<1>5. phaseBar' = phaseBar
  BY <1>1, <1>2, <1>4 DEF phaseBar
<1>6. openBar' = [openBar EXCEPT ![t] = TRUE]
  <2>1. openBar' = [openBar EXCEPT ![t] = ~d.cooling]
    BY <1>1, <1>4, OneMoves
  <2> QED BY <1>3, <2>1
<1>7. Queue!Open(t)
  BY <1>1, <1>5, <1>6 DEF Queue!Open, phaseBar, openBar
<1> QED BY <1>7 DEF Queue!Next

LEMMA QueueAgainEnqueues ==
    ASSUME TypeInv, NEW t \in Torrent, QueueAgain(t) PROVE Queue!Next
<1>1. doc \in [Torrent -> Doc] /\ doc[t] \in Doc
  BY DEF TypeInv, TypeOK
<1> DEFINE d == Reset(doc[t])
<1>2. d.state = "queued" /\ ~d.cooling
  BY <1>1, ResetKeeps
<1>3. doc' = [doc EXCEPT ![t] = d] /\ MoveToTail({t})
  BY DEF QueueAgain
<1> HIDE DEF d
<1>4. /\ \A u \in {t} : doc'[u].state = "queued" /\ ~doc'[u].cooling
      /\ \A u \in Torrent \ {t} : doc'[u] = doc[u]
  BY <1>1, <1>2, <1>3
<1> QED BY <1>3, <1>4, PutBackEnqueues

LEMMA QueueNext ==
    TypeInv /\ RunningIsOpen /\ [Next]_vars => [Queue!Next]_(Queue!vars)
<1> SUFFICES ASSUME TypeInv, RunningIsOpen, [Next]_vars
             PROVE  Queue!Next \/ UNCHANGED Queue!vars
  OBVIOUS
<1>1. doc \in [Torrent -> Doc]
  BY DEF TypeInv, TypeOK
<1>2. QuietStep => UNCHANGED Queue!vars
  BY <1>1, StutterIsAllowed DEF QuietStep
<1>3. CASE \E s \in Slot : Claim(s)
  BY <1>3, ClaimTakes
<1>4. \A t \in Torrent : Queued(doc[t]).state = "queued" /\ ~Queued(doc[t]).cooling
  BY <1>1, QueuedKeeps
<1>5. CASE RepairStaleRunning
  <2>1. /\ LeaseLost \in SUBSET Torrent /\ MoveToTail(LeaseLost)
        /\ \A t \in LeaseLost : doc'[t].state = "queued" /\ ~doc'[t].cooling
        /\ \A t \in Torrent \ LeaseLost : doc'[t] = doc[t]
    BY <1>4, <1>5 DEF RepairStaleRunning, LeaseLost
  <2> QED BY <2>1, PutBackEnqueues
<1>6. CASE QueueStaleArtifacts
  <2>1. /\ Outdated \in SUBSET Torrent /\ MoveToTail(Outdated)
        /\ \A t \in Outdated : doc'[t].state = "queued" /\ ~doc'[t].cooling
        /\ \A t \in Torrent \ Outdated : doc'[t] = doc[t]
    BY <1>4, <1>6 DEF QueueStaleArtifacts, Outdated
  <2> QED BY <2>1, PutBackEnqueues
<1>7. CASE \E s \in Slot : SessionStep(s)
  <2>1. PICK s \in Slot : SessionStep(s)
    BY <1>7
  <2>2. sess[s].torrent \in Torrent
    BY <2>1, SessionStepFrame
  <2>3. ASSUME NEW state \in {"complete", "exhausted"}, NEW n, Finish(s, state, n)
        PROVE  Queue!Next \/ UNCHANGED Queue!vars
    BY <2>2, <2>3, FinishSettles
  <2>4. ASSUME NEW state \in {"queued", "partial"}, NEW n, NEW cooling \in BOOLEAN,
               Requeue(s, state, n, cooling)
        PROVE  Queue!Next \/ UNCHANGED Queue!vars
    BY <2>2, <2>4, RequeueGivesBack
  <2> QED BY <1>2, <2>1, <2>3, <2>4, SessionStepKinds
<1>8. CASE ClockStep
  <2>1. PICK t \in Torrent : CooldownElapses(t) \/ LeaseLapses(t)
    BY <1>8 DEF ClockStep
  <2>2. CASE LeaseLapses(t)
    <3> DEFINE d == [doc[t] EXCEPT !.lease = "lapsed"]
    <3>1. d.state = doc[t].state /\ d.cooling = doc[t].cooling
      BY <1>1 DEF Doc
    <3>2. doc' = [doc EXCEPT ![t] = d] /\ before' = before
      BY <2>2 DEF LeaseLapses
    <3> HIDE DEF d
    <3> QED BY <1>1, <1>2, <3>1, <3>2 DEF QuietStep
  <2> QED BY <2>1, <2>2, CooldownOpens
<1>9. CASE WorkerStops \/ WorkerExits \/ UNCHANGED vars
  BY <1>2, <1>9 DEF WorkerStops, WorkerExits, vars, QuietStep
<1>10. CASE \E upgrade \in BOOLEAN : WorkerStarts(upgrade)
  <2>1. QuietStep
    BY <1>10, WorkerStartsFrame DEF WorkerStarts, QuietStep
  <2> QED BY <1>2, <2>1
<1>11. CASE WebStep
  <2>1. PICK t \in Torrent : QueueAgain(t) \/ AdminCancels(t) \/ EnsureReads(t)
    BY <1>11 DEF WebStep, AdminQueuesAgain, EnsureWrites
  <2>2. CASE EnsureReads(t)
    BY <1>2, <2>2 DEF EnsureReads, QuietStep
  <2> QED BY <2>1, <2>2, QueueAgainEnqueues, CancelWithdraws
<1> QED BY <1>3, <1>5, <1>6, <1>7, <1>8, <1>9, <1>10, <1>11
        DEF Next, SchedulerStep, ProcessStep

\* The scheduler, with every race between its sessions, the web application,
\* crashes and the clock, is a first-come-first-served queue: no step serves a
\* torrent that stands behind another open one, and none moves a torrent except
\* to the tail.
THEOREM ImplementsFifo == Spec => ImplementsQueue
<1>1. Init => Queue!Init
  BY QueueInit
<1>2. TypeInv /\ RunningIsOpen /\ [Next]_vars => [Queue!Next]_(Queue!vars)
  BY QueueNext
<1> QED BY <1>1, <1>2, TypeInvInit, TypeInvNext, RunningIsOpenInit, RunningIsOpenNext, PTL
        DEF Spec, ImplementsQueue, Queue!Spec

=============================================================================
