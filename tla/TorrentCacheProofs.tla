-------------------------- MODULE TorrentCacheProofs --------------------------
(***************************************************************************)
(* TorrentCache, for every number of sessions, torrents and handles: a     *)
(* torrent that one session at a time has keeps its handle while it is     *)
(* downloaded and loses it with its slot, and a prune takes no active      *)
(* entry but the least recently used of the others.                        *)
(***************************************************************************)
EXTENDS TorrentCache, FiniteSetTheorems, WellFoundedInduction, TLAPS

Pcs == {"idle", "between", "trim", "run", "save", "await", "retouch", "retrim", "remove"}

\* The places at which a session has no handle.
Free == {"idle", "between", "trim"}

Others(s) == \A q \in Session \ {s} : ses'[q] = ses[q]

\* Session s has come to be at pc, with handle n and the list V.
At(s, pc, n, V) ==
    /\ Others(s) /\ ses'[s].pc = pc /\ ses'[s].hash = ses[s].hash /\ ses'[s].handle = n
    /\ ses'[s].victims = V

\* The sessions keep their types.
Typed ==
    /\ ses' \in [Session -> SessionState]
    /\ \A q \in Session : ses'[q].pc \notin {"idle", "between", "trim"} => ses'[q].handle # 0

LEMMA Types ==
  ASSUME TypeOK
  PROVE  /\ lt \in [Hash -> Handle] /\ active \in [Hash -> Handle] /\ kept \subseteq Hash
         /\ disk \in [Hash -> Entry] /\ shared \subseteq Hash /\ caught \subseteq Hash
         /\ 0 \in Handle /\ NoHash \notin Hash
         /\ \A s \in Session : /\ ses[s].pc \in Pcs /\ ses[s].hash \in Hash
                               /\ ses[s].handle \in Handle /\ ses[s].victims \subseteq Hash
                               /\ ses[s].releasing \in BOOLEAN
                               /\ ses[s].pc \notin Free => ses[s].handle # 0
BY CacheAssumption DEF TypeOK, Handle, SessionState, Pcs, Free

LEMMA TypedByFields ==
  ASSUME TypeOK, NEW s \in Session, ses' \in [Session -> SessionState],
         Others(s), ses'[s].pc \notin Free => ses'[s].handle # 0
  PROVE  Typed
BY Types DEF Typed, Others, Free

\* A session takes another state.
LEMMA Becomes ==
  ASSUME TypeOK, NEW s \in Session, NEW x \in SessionState, ses' = [ses EXCEPT ![s] = x],
         x.pc \notin Free => x.handle # 0
  PROVE  Others(s) /\ ses'[s] = x /\ Typed
<1>1. Others(s) /\ ses'[s] = x /\ ses' \in [Session -> SessionState]
  BY DEF Others, TypeOK
<1> QED BY <1>1, TypedByFields

\* Changes of a session's state.
LEMMA StateTypes ==
  ASSUME NEW x \in SessionState, NEW pc \in Pcs, NEW n \in Handle, NEW V \in SUBSET Hash,
         NEW h \in Hash, NEW b \in BOOLEAN
  PROVE  /\ [x EXCEPT !.pc = pc, !.victims = V] \in SessionState
         /\ [x EXCEPT !.pc = pc, !.hash = h] \in SessionState
         /\ [x EXCEPT !.pc = pc, !.handle = n] \in SessionState
         /\ [x EXCEPT !.pc = pc, !.handle = n, !.releasing = b] \in SessionState
BY DEF SessionState, Pcs

LEMMA GoesStep ==
  ASSUME TypeOK, NEW s \in Session, NEW pc \in Pcs, Goes(s, pc),
         pc \notin Free => ses[s].handle # 0
  PROVE  /\ At(s, pc, ses[s].handle, ses[s].victims) /\ ses'[s].releasing = ses[s].releasing
         /\ Typed
<1>1. /\ At(s, pc, ses[s].handle, ses[s].victims) /\ ses'[s].releasing = ses[s].releasing
      /\ ses' \in [Session -> SessionState]
  BY DEF Goes, At, Others, TypeOK, SessionState, Pcs
<1> QED BY <1>1, TypedByFields DEF At

LEMMA SavedStep ==
  ASSUME TypeOK, NEW s \in Session, Saved(s), ses[s].handle # 0
  PROVE  /\ At(s, IF ses[s].releasing THEN "remove" ELSE "retouch", ses[s].handle,
               ses[s].victims)
         /\ ses'[s].releasing = ses[s].releasing /\ Typed
BY GoesStep DEF Saved, Pcs

LEMMA DiskTypes ==
  ASSUME TypeOK, NEW h \in Hash
  PROVE  /\ [disk EXCEPT ![h].there = TRUE] \in [Hash -> Entry]
         /\ [disk EXCEPT ![h] = NoEntry] \in [Hash -> Entry]
         /\ \A g \in Hash \cup {NoHash} : [disk EXCEPT ![h].resume = g] \in [Hash -> Entry]
         /\ disk[h].size < Full =>
               [disk EXCEPT ![h].there = TRUE, ![h].size = @ + 1] \in [Hash -> Entry]
         /\ Newest(h) \subseteq Hash \X Hash
<1>1. disk[h] \in Entry /\ disk \in [Hash -> Entry] /\ disk[h].size \in 0 .. Full
  BY DEF TypeOK, Entry
<1>2. /\ [disk[h] EXCEPT !.there = TRUE] \in Entry
      /\ \A g \in Hash \cup {NoHash} : [disk[h] EXCEPT !.resume = g] \in Entry
  BY <1>1 DEF Entry
<1>3. NoEntry \in Entry
  BY CacheAssumption DEF Entry, NoEntry
<1>4. disk[h].size < Full =>
         [disk[h] EXCEPT !.there = TRUE, !.size = disk[h].size + 1] \in Entry
  <2>1. disk[h].size < Full => disk[h].size + 1 \in 0 .. Full
    BY <1>1, CacheAssumption
  <2> QED BY <1>1, <2>1 DEF Entry
<1>5. Newest(h) \subseteq Hash \X Hash
  BY DEF Newest, TypeOK
<1>6. \A e \in Entry : [disk EXCEPT ![h] = e] \in [Hash -> Entry]
  BY <1>1
<1> QED BY <1>1, <1>2, <1>3, <1>4, <1>5, <1>6

LEMMA TouchStep ==
  ASSUME TypeOK, NEW s \in Session, NEW pc \in {"trim", "retrim"}, Touch(s, ses[s].hash, pc),
         pc = "retrim" => ses[s].handle # 0
  PROVE  /\ At(s, pc, ses[s].handle, ses'[s].victims) /\ ses'[s].releasing = ses[s].releasing
         /\ ses'[s].victims \cap kept = {}
         /\ Typed
         /\ disk' = [disk EXCEPT ![ses[s].hash].there = TRUE]
         /\ disk' \in [Hash -> Entry] /\ older' \subseteq Hash \X Hash
<1> DEFINE V == Victims(disk', older', ses[s].hash)
<1>1. V \subseteq Hash /\ V \cap kept = {}
  BY DEF Victims, Entries, Preserved
<1>2. /\ ses' = [ses EXCEPT ![s].pc = pc, ![s].victims = V]
      /\ disk' = [disk EXCEPT ![ses[s].hash].there = TRUE] /\ older' = Newest(ses[s].hash)
  BY DEF Touch
<1> HIDE DEF V
<1> DEFINE x == [ses[s] EXCEPT !.pc = pc, !.victims = V]
<1>3. ses[s] \in SessionState /\ pc \in Pcs
  BY DEF TypeOK, Pcs
<1>4. /\ x.pc = pc /\ x.hash = ses[s].hash /\ x.handle = ses[s].handle /\ x.victims = V
      /\ x.releasing = ses[s].releasing
  BY <1>3 DEF SessionState
<1>5. x \in SessionState
  BY <1>1, <1>3 DEF SessionState, Pcs
<1>6. ses' = [ses EXCEPT ![s] = x]
  BY <1>2
<1> HIDE DEF x
<1>7. Others(s) /\ ses'[s] = x /\ Typed
  BY <1>4, <1>5, <1>6, Becomes DEF Free
<1> QED BY <1>1, <1>2, <1>4, <1>7, Types, DiskTypes DEF At

LEMMA PruneStep ==
  ASSUME TypeOK, NEW s \in Session, NEW v \in Hash, Prune(s, v)
  PROVE  /\ At(s, ses[s].pc, ses[s].handle, ses[s].victims \ {v}) /\ v \in ses[s].victims
         /\ ses'[s].releasing = ses[s].releasing /\ Typed
         /\ disk' = [disk EXCEPT ![v] = NoEntry]
         /\ UNCHANGED <<memory, older, shared, caught>>
<1>1. /\ At(s, ses[s].pc, ses[s].handle, ses[s].victims \ {v})
      /\ ses'[s].releasing = ses[s].releasing /\ ses' \in [Session -> SessionState]
  BY DEF Prune, At, Others, TypeOK, SessionState
<1> QED BY <1>1, Types, TypedByFields DEF At, Prune

LEMMA BeginStep ==
  ASSUME TypeOK, NEW s \in Session, NEW h \in Hash, Begin(s, h)
  PROVE  /\ ses[s].pc = "idle" /\ Others(s) /\ ses'[s].pc = "between" /\ ses'[s].hash = h
         /\ ses'[s].handle = ses[s].handle /\ ses'[s].victims = ses[s].victims /\ Typed
         /\ shared' = IF \E q \in Session : ses[q].pc # "idle" /\ ses[q].hash = h
                      THEN shared \cup {h} ELSE shared
         /\ UNCHANGED <<memory, disk, older, caught>>
<1> DEFINE x == [ses[s] EXCEPT !.pc = "between", !.hash = h]
<1>3. ses[s] \in SessionState
  BY DEF TypeOK
<1>4. /\ x.pc = "between" /\ x.hash = h /\ x.handle = ses[s].handle
      /\ x.victims = ses[s].victims
  BY <1>3 DEF SessionState
<1>5. x \in SessionState
  BY <1>3 DEF SessionState
<1>6. ses' = [ses EXCEPT ![s] = x]
  BY DEF Begin
<1> HIDE DEF x
<1>7. Others(s) /\ ses'[s] = x /\ Typed
  BY <1>4, <1>5, <1>6, Becomes DEF Free
<1> QED BY <1>4, <1>7 DEF Begin

LEMMA AddStep ==
  ASSUME TypeOK, NEW s \in Session, AddTorrent(s), NEW h, h = ses[s].hash
  PROVE  /\ ses[s].pc = "trim" /\ ses[s].victims = {}
         /\ ses'[s].handle # 0 /\ ses'[s].handle \in Handle
         /\ At(s, "run", ses'[s].handle, {}) /\ Typed
         /\ \/ active[h] # 0 /\ ses'[s].handle = active[h] /\ lt' = lt
            \/ /\ active[h] = 0 /\ lt' = [lt EXCEPT ![h] = ses'[s].handle]
               /\ lt[h] # 0 => ses'[s].handle = lt[h]
         /\ disk' \in [Hash -> Entry] /\ \A g \in Hash : disk'[g].there = disk[g].there
         /\ kept' = kept \cup {h}
         /\ caught' = IF (\E q \in Session : h \in ses[q].victims) \/ ~disk[h].there
                      THEN caught \cup {h} ELSE caught
         /\ UNCHANGED <<asked, alerts, active, older, shared>>
<1> DEFINE n == Obtained(h)
<1>1. /\ ses' = [ses EXCEPT ![s].pc = "run", ![s].handle = n]
      /\ ses[s].pc = "trim" /\ ses[s].victims = {}
      /\ active[h] = 0 /\ lt[h] = 0 => Fresh(h) # {}
      /\ IF active[h] # 0 THEN UNCHANGED <<lt, disk>>
         ELSE lt' = [lt EXCEPT ![h] = n] /\ disk' = Loaded(h)
      /\ kept' = kept \cup {h}
      /\ caught' = IF (\E q \in Session : h \in ses[q].victims) \/ ~disk[h].there
                   THEN caught \cup {h} ELSE caught
      /\ UNCHANGED <<asked, alerts, active, older, shared>>
  BY DEF AddTorrent, Reused
<1>2. Fresh(h) # {} => (CHOOSE m \in Fresh(h) : TRUE) \in Fresh(h)
  OBVIOUS
<1>3. Fresh(h) \subseteq Handle \ {0}
  BY CacheAssumption DEF Fresh, Handle
<1>4. /\ n # 0 /\ n \in Handle
      /\ active[h] # 0 => n = active[h]
      /\ active[h] = 0 /\ lt[h] # 0 => n = lt[h]
  BY <1>1, <1>2, <1>3, Types DEF Obtained, Reused, Added
<1> HIDE DEF n
<1>5. At(s, "run", n, {}) /\ Typed
  <2> DEFINE x == [ses[s] EXCEPT !.pc = "run", !.handle = n]
  <2>1. ses[s] \in SessionState
    BY DEF TypeOK
  <2>2. x.pc = "run" /\ x.hash = ses[s].hash /\ x.handle = n /\ x.victims = ses[s].victims
    BY <2>1 DEF SessionState
  <2>3. x \in SessionState
    BY <1>4, <2>1, x = [ses[s] EXCEPT !.pc = "run", !.handle = n] DEF SessionState
  <2>4. ses' = [ses EXCEPT ![s] = x]
    BY <1>1
  <2> HIDE DEF x
  <2>5. Others(s) /\ ses'[s] = x /\ Typed
    <3>1. n # 0
      BY <1>4
    <3>2. x.pc \notin Free => x.handle # 0
      BY <3>1, <2>2
    <3> QED BY <2>3, <2>4, <3>2, Becomes
  <2> QED BY <1>1, <2>2, <2>5 DEF At
<1>6. disk' \in [Hash -> Entry] /\ \A g \in Hash : disk'[g].there = disk[g].there
  <2>1. disk' = disk \/ disk' = [disk EXCEPT ![h].resume = NoHash]
    BY <1>1 DEF Loaded
  <2>2. [disk EXCEPT ![h].resume = NoHash] \in [Hash -> Entry]
    BY Types, DiskTypes
  <2>3. \A g \in Hash : [disk EXCEPT ![h].resume = NoHash][g].there = disk[g].there
    BY Types DEF Entry
  <2> QED BY <2>1, <2>2, <2>3, Types
<1> QED BY <1>1, <1>4, <1>5, <1>6 DEF At

LEMMA DownloadEndsStep ==
  ASSUME TypeOK, NEW s \in Session, DownloadEnds(s)
  PROVE  /\ ses[s].pc = "run" /\ At(s, "save", ses[s].handle, ses[s].victims)
         /\ ses'[s].releasing = FALSE /\ Typed /\ alerts' = <<>>
         /\ UNCHANGED <<lt, asked, active, kept, disk, older, shared, caught>>
<1> DEFINE x == [ses[s] EXCEPT !.pc = "save", !.releasing = FALSE]
<1>1. ses[s] \in SessionState /\ ses[s].handle # 0 /\ ses[s].pc = "run"
  BY Types DEF DownloadEnds, TypeOK, Free
<1>2. /\ x.pc = "save" /\ x.hash = ses[s].hash /\ x.handle = ses[s].handle
      /\ x.victims = ses[s].victims /\ x.releasing = FALSE
  BY <1>1 DEF SessionState
<1>3. x \in SessionState
  BY <1>1 DEF SessionState
<1>4. ses' = [ses EXCEPT ![s] = x]
  BY DEF DownloadEnds
<1> HIDE DEF x
<1>5. Others(s) /\ ses'[s] = x /\ Typed
  <2>1. x.pc \notin Free => x.handle # 0
    BY <1>1, <1>2
  <2> QED BY <1>3, <1>4, <2>1, Becomes
<1> QED BY <1>2, <1>5 DEF At, DownloadEnds

LEMMA RetainStep ==
  ASSUME TypeOK, NEW s \in Session, Retain(s)
  PROVE  /\ ses[s].pc = "retrim" /\ At(s, "between", 0, ses[s].victims) /\ Typed
         /\ active' = [active EXCEPT ![ses[s].hash] = ses[s].handle]
         /\ UNCHANGED <<lt, asked, alerts, kept, disk, older, shared, caught>>
<1> DEFINE x == [ses[s] EXCEPT !.pc = "between", !.handle = 0]
<1>1. ses[s] \in SessionState /\ 0 \in Handle
  BY Types DEF TypeOK
<1>2. x.pc = "between" /\ x.hash = ses[s].hash /\ x.handle = 0 /\ x.victims = ses[s].victims
  BY <1>1 DEF SessionState
<1>3. x \in SessionState
  BY <1>1 DEF SessionState
<1>4. ses' = [ses EXCEPT ![s] = x]
  BY DEF Retain
<1> HIDE DEF x
<1>5. Others(s) /\ ses'[s] = x /\ Typed
  BY <1>2, <1>3, <1>4, Becomes DEF Free
<1> QED BY <1>2, <1>5 DEF At, Retain

LEMMA ReleaseStep ==
  ASSUME TypeOK, NEW s \in Session, Release(s), NEW h, h = ses[s].hash
  PROVE  /\ ses[s].pc = "between"
         /\ At(s, IF active[h] = 0 THEN "idle" ELSE "save", active[h], ses[s].victims)
         /\ ses'[s].releasing = TRUE /\ Typed
         /\ active' = [active EXCEPT ![h] = 0]
         /\ UNCHANGED <<lt, asked, alerts, kept, disk, older, shared, caught>>
<1> DEFINE pc == IF active[h] = 0 THEN "idle" ELSE "save"
           x  == [ses[s] EXCEPT !.pc = pc, !.handle = active[h], !.releasing = TRUE]
<1>1. ses[s] \in SessionState /\ active[h] \in Handle /\ pc \in Pcs
  BY Types DEF TypeOK, Pcs
<1>2. pc \notin Free => active[h] # 0
  BY DEF Free
<1>3. ses' = [ses EXCEPT ![s] = x]
  BY DEF Release
<1> HIDE DEF pc
<1>4. /\ x.pc = pc /\ x.hash = ses[s].hash /\ x.handle = active[h]
      /\ x.victims = ses[s].victims /\ x.releasing = TRUE
  BY <1>1 DEF SessionState
<1>5. x \in SessionState
  BY <1>1 DEF SessionState, Pcs
<1> HIDE DEF x
<1>6. Others(s) /\ ses'[s] = x /\ Typed
  BY <1>2, <1>3, <1>4, <1>5, Becomes
<1> QED BY <1>4, <1>6 DEF At, Release, Taken, pc

LEMMA RemoveStep ==
  ASSUME TypeOK, NEW s \in Session, RemoveTorrent(s), NEW h, h = ses[s].hash
  PROVE  /\ ses[s].pc = "remove" /\ At(s, "idle", 0, ses[s].victims) /\ Typed
         /\ lt' = IF lt[h] = ses[s].handle THEN [lt EXCEPT ![h] = 0] ELSE lt
         /\ kept' = kept \ {h} /\ caught' = caught \ {h}
         /\ UNCHANGED <<asked, alerts, active, disk, older, shared>>
<1> DEFINE x == [ses[s] EXCEPT !.pc = "idle", !.handle = 0]
<1>1. ses[s] \in SessionState /\ 0 \in Handle
  BY Types DEF TypeOK
<1>2. x.pc = "idle" /\ x.hash = ses[s].hash /\ x.handle = 0 /\ x.victims = ses[s].victims
  BY <1>1 DEF SessionState
<1>3. x \in SessionState
  BY <1>1 DEF SessionState
<1>4. ses' = [ses EXCEPT ![s] = x]
  BY DEF RemoveTorrent
<1> HIDE DEF x
<1>5. Others(s) /\ ses'[s] = x /\ Typed
  BY <1>2, <1>3, <1>4, Becomes DEF Free
<1> QED BY <1>2, <1>5 DEF At, RemoveTorrent, Unregistered

LEMMA AskStep ==
  ASSUME TypeOK, NEW s \in Session, AskResumeData(s)
  PROVE  /\ ses[s].pc = "save"
         /\ \E pc \in {"await", "remove", "retouch"} :
               /\ At(s, pc, ses[s].handle, ses[s].victims)
               /\ pc = "remove" => ses[s].releasing
               /\ pc = "retouch" => ~ses[s].releasing
         /\ ses'[s].releasing = ses[s].releasing /\ Typed
         /\ asked' \subseteq asked \cup {ses[s].hash}
         /\ UNCHANGED <<lt, alerts, active, kept, disk, older, shared, caught>>
<1>1. ses[s].handle # 0
  BY Types DEF AskResumeData, Free
<1>2. CASE Goes(s, "await")
  BY <1>1, <1>2, GoesStep DEF AskResumeData, Pcs
<1>3. CASE Saved(s) /\ asked' = asked
  BY <1>1, <1>3, SavedStep DEF AskResumeData
<1> QED BY <1>2, <1>3 DEF AskResumeData

LEMMA HeadType ==
  ASSUME NEW S, NEW q \in Seq(S), q # <<>>
  PROVE  Head(q) \in S
OBVIOUS

LEMMA AnswerStep ==
  ASSUME TypeOK, NEW s \in Session, TakeAnswer(s) \/ AnswerTimesOut(s)
  PROVE  /\ ses[s].pc = "await"
         /\ At(s, IF ses[s].releasing THEN "remove" ELSE "retouch", ses[s].handle,
               ses[s].victims)
         /\ ses'[s].releasing = ses[s].releasing /\ Typed
         /\ disk' \in [Hash -> Entry] /\ \A g \in Hash : disk'[g].there = disk[g].there
         /\ older' \subseteq Hash \X Hash /\ alerts' \in {<<>>, alerts}
         /\ UNCHANGED <<lt, asked, active, kept, shared, caught>>
<1>1. ses[s].pc = "await" /\ Saved(s) /\ ses[s].handle # 0
  BY Types DEF TakeAnswer, AnswerTimesOut, Free
<1>2. CASE AnswerTimesOut(s)
  BY <1>1, <1>2, SavedStep, Types DEF AnswerTimesOut, memory, TypeOK
<1>3. CASE TakeAnswer(s)
  <2>1. Head(alerts).hash \in Hash
    <3>1. alerts \in Seq([hash : Hash, ok : BOOLEAN]) /\ alerts # <<>>
      BY <1>3 DEF TakeAnswer, TypeOK
    <3>2. Head(alerts) \in [hash : Hash, ok : BOOLEAN]
      BY <3>1, HeadType
    <3> QED BY <3>2
  <2>2. \/ disk' = disk
        \/ disk' = [disk EXCEPT ![ses[s].hash].resume = Head(alerts).hash]
    BY <1>3 DEF TakeAnswer
  <2>3. disk' \in [Hash -> Entry] /\ \A g \in Hash : disk'[g].there = disk[g].there
    <3>1. [disk EXCEPT ![ses[s].hash].resume = Head(alerts).hash] \in [Hash -> Entry]
      BY <2>1, Types, DiskTypes
    <3>2. \A g \in Hash :
             [disk EXCEPT ![ses[s].hash].resume = Head(alerts).hash][g].there = disk[g].there
      BY Types DEF Entry
    <3> QED BY <2>2, <3>1, <3>2, Types
  <2>4. older' \subseteq Hash \X Hash
    BY <1>3, Types, DiskTypes DEF TakeAnswer, TypeOK
  <2> QED BY <1>1, <1>3, <2>3, <2>4, SavedStep DEF TakeAnswer
<1> QED BY <1>2, <1>3
-----------------------------------------------------------------------------
(***************************************************************************)
(* The invariant.                                                          *)
(***************************************************************************)

\* One session at a time has a torrent that never had two.
SoleInv == \A h \in Hash \ shared : \A s, q \in Hold(h) : s = q

\* What a session's place says of its torrent: between two attempts the handle is
\* the retained one, in an attempt and in release() it is the session's own, and
\* what release() has taken is no longer in the table.
Own(s) ==
    LET h == ses[s].hash IN
    /\ ses[s].pc \in {"between", "trim"} => lt[h] = active[h] /\ (lt[h] = 0 => h \notin kept)
    /\ ses[s].pc \notin Free => lt[h] = ses[s].handle
    /\ ses[s].pc = "remove" \/ (ses[s].pc \in {"save", "await"} /\ ses[s].releasing) =>
          active[h] = 0

OwnInv ==
    \A s \in Session : ses[s].pc # "idle" /\ ses[s].hash \notin shared => Own(s)

\* An active entry is on disk and on no prune's list.
EntryInv ==
    \A h \in kept \ caught : disk[h].there /\ \A q \in Session : h \notin ses[q].victims

HandleInv == SoleInv /\ OwnInv /\ ReleasedWithSlot

IInv == TypeOK /\ HandleInv /\ EntryInv

\* A step of session s that touches the memory of its own torrent only.
LEMMA OwnStep ==
  ASSUME TypeOK, HandleInv, NEW s \in Session, NEW h, h = ses[s].hash,
         ses[s].pc # "idle", Others(s), ses'[s].hash = h, shared' = shared,
         \A g \in Hash \ {h} : lt'[g] = lt[g] /\ active'[g] = active[g] /\ (g \in kept' <=> g \in kept),
         h \notin shared =>
            IF ses'[s].pc = "idle" THEN lt'[h] = 0 /\ active'[h] = 0 /\ h \notin kept'
                                   ELSE Own(s)'
  PROVE  HandleInv'
<1>1. h \in Hash /\ \A q \in Session : ses[q].hash \in Hash
  BY Types
<1>2. \A g : Hold(g)' \subseteq Hold(g)
  BY DEF Hold, Others
<1>3. SoleInv'
  BY <1>2 DEF HandleInv, SoleInv
<1>4. OwnInv'
  <2> SUFFICES ASSUME NEW q \in Session, ses'[q].pc # "idle", ses'[q].hash \notin shared
               PROVE  Own(q)'
    BY DEF OwnInv
  <2>1. CASE q = s
    BY <2>1
  <2>2. CASE q # s
    <3>1. ses'[q] = ses[q]
      BY <2>2 DEF Others
    <3>2. ses[q].hash # h
      <4> SUFFICES ASSUME ses[q].hash = h PROVE FALSE
        OBVIOUS
      <4>1. q \in Hold(h) /\ s \in Hold(h)
        BY <3>1 DEF Hold
      <4> QED BY <1>1, <2>2, <3>1, <4>1 DEF HandleInv, SoleInv
    <3>3. Own(q)
      BY <3>1 DEF HandleInv, OwnInv
    <3>4. ses[q].hash \in Hash \ {h}
      BY <1>1, <3>2
    <3> QED BY <3>1, <3>3, <3>4 DEF Own
  <2> QED BY <2>1, <2>2
<1>5. ReleasedWithSlot'
  <2> SUFFICES ASSUME NEW g \in Hash \ shared, Hold(g)' = {}
               PROVE  lt'[g] = 0 /\ active'[g] = 0 /\ g \notin kept'
    BY DEF ReleasedWithSlot
  <2>1. CASE g = h
    BY <2>1 DEF Hold
  <2>2. CASE g # h
    <3>1. Hold(g) = {}
      BY <2>2 DEF Hold, Others
    <3> QED BY <2>2, <3>1 DEF HandleInv, ReleasedWithSlot
  <2> QED BY <2>1, <2>2
<1> QED BY <1>3, <1>4, <1>5 DEF HandleInv

LEMMA HandleNext ==
  ASSUME TypeOK, HandleInv, Next
  PROVE  HandleInv'
<1>1. ASSUME NEW s \in Session, NEW h \in Hash, Begin(s, h)
      PROVE  HandleInv'
  <2>1. /\ ses[s].pc = "idle" /\ Others(s) /\ ses'[s].pc = "between" /\ ses'[s].hash = h
        /\ shared' = IF \E q \in Session : ses[q].pc # "idle" /\ ses[q].hash = h
                     THEN shared \cup {h} ELSE shared
        /\ lt' = lt /\ active' = active /\ kept' = kept
    BY <1>1, BeginStep DEF memory
  <2>2. h \notin shared' => h \notin shared /\ Hold(h) = {}
    BY <2>1 DEF Hold
  <2>3. \A g : Hold(g)' \subseteq Hold(g) \cup {s} /\ (g # h => Hold(g)' = Hold(g))
    BY <2>1 DEF Hold, Others
  <2>4. shared \subseteq shared' /\ (\A g \in Hash : g # h /\ g \notin shared' => g \notin shared)
    BY <2>1
  <2>5. s \in Hold(h)'
    BY <2>1 DEF Hold
  <2>6. SoleInv'
    <3> SUFFICES ASSUME NEW g \in Hash \ shared', NEW q \in Hold(g)', NEW r \in Hold(g)'
                 PROVE  q = r
      BY DEF SoleInv
    <3>1. CASE g = h
      BY <2>2, <2>3, <3>1
    <3>2. CASE g # h
      BY <2>3, <2>4, <3>2 DEF HandleInv, SoleInv
    <3> QED BY <3>1, <3>2
  <2>7. OwnInv'
    <3> SUFFICES ASSUME NEW q \in Session, ses'[q].pc # "idle", ses'[q].hash \notin shared'
                 PROVE  Own(q)'
      BY DEF OwnInv
    <3>1. CASE q = s
      <4>1. lt[h] = 0 /\ active[h] = 0 /\ h \notin kept
        BY <2>1, <2>2, <3>1 DEF HandleInv, ReleasedWithSlot
      <4> QED BY <2>1, <3>1, <4>1 DEF Own, Free
    <3>2. CASE q # s
      <4>1. ses'[q] = ses[q]
        BY <2>1, <3>2 DEF Others
      <4>2. Own(q)
        BY <2>4, <4>1 DEF HandleInv, OwnInv
      <4> QED BY <2>1, <4>1, <4>2 DEF Own
    <3> QED BY <3>1, <3>2
  <2>8. ReleasedWithSlot'
    <3> SUFFICES ASSUME NEW g \in Hash \ shared', Hold(g)' = {}
                 PROVE  lt[g] = 0 /\ active[g] = 0 /\ g \notin kept
      BY <2>1 DEF ReleasedWithSlot
    <3>1. g # h
      BY <2>5
    <3> QED BY <2>3, <2>4, <3>1 DEF HandleInv, ReleasedWithSlot
  <2> QED BY <2>6, <2>7, <2>8 DEF HandleInv
<1>2. ASSUME NEW s \in Session, NEW v \in Hash, Prune(s, v)
      PROVE  HandleInv'
  <2>1. /\ ses[s].pc \in {"trim", "retrim"} /\ At(s, ses[s].pc, ses[s].handle, ses[s].victims \ {v})
        /\ ses'[s].releasing = ses[s].releasing
        /\ lt' = lt /\ active' = active /\ kept' = kept /\ shared' = shared
    BY <1>2, PruneStep DEF memory, Prune
  <2> QED BY <2>1, OwnStep DEF At, Own, Free, HandleInv, OwnInv
<1>3. ASSUME NEW s \in Session, NEW pc \in {"trim", "retrim"}, Touch(s, ses[s].hash, pc),
             ses[s].pc = IF pc = "trim" THEN "between" ELSE "retouch",
             UNCHANGED <<memory, shared>>
      PROVE  HandleInv'
  <2>1. pc = "retrim" => ses[s].handle # 0
    BY <1>3, Types DEF Free
  <2>2. At(s, pc, ses[s].handle, ses'[s].victims)
    BY <1>3, <2>1, TouchStep
  <2> QED BY <1>3, <2>2, OwnStep DEF At, Own, Free, HandleInv, OwnInv, memory
<1>4. ASSUME NEW s \in Session, AddTorrent(s)
      PROVE  HandleInv'
  <2> DEFINE h == ses[s].hash
  <2>1. /\ ses[s].pc = "trim" /\ ses'[s].handle # 0
        /\ At(s, "run", ses'[s].handle, {})
        /\ \/ active[h] # 0 /\ ses'[s].handle = active[h] /\ lt' = lt
           \/ active[h] = 0 /\ lt' = [lt EXCEPT ![h] = ses'[s].handle]
        /\ kept' = kept \cup {h} /\ active' = active /\ shared' = shared
    BY <1>4, AddStep
  <2>2. h \in Hash /\ lt \in [Hash -> Handle]
    BY Types
  <2>3. h \notin shared => lt'[h] = ses'[s].handle
    BY <2>1, <2>2 DEF HandleInv, OwnInv, Own
  <2> HIDE DEF h
  <2>4. h = ses[s].hash
    BY DEF h
  <2> QED BY <2>1, <2>2, <2>3, <2>4, OwnStep DEF At, Own, Free
<1>5. ASSUME NEW s \in Session, AddRaises(s)
      PROVE  HandleInv'
  <2>1. /\ ses[s].pc = "trim" /\ At(s, "between", ses[s].handle, ses[s].victims)
        /\ lt' = lt /\ active' = active /\ kept' = kept /\ shared' = shared
    BY <1>5, GoesStep DEF AddRaises, memory, Pcs, Free
  <2> QED BY <2>1, OwnStep DEF At, Own, Free, HandleInv, OwnInv
<1>6. ASSUME NEW s \in Session, DownloadEnds(s)
      PROVE  HandleInv'
  BY <1>6, DownloadEndsStep, OwnStep DEF At, Own, Free, HandleInv, OwnInv
<1>7. ASSUME NEW s \in Session, Retain(s)
      PROVE  HandleInv'
  <2> DEFINE h == ses[s].hash
  <2>1. /\ ses[s].pc = "retrim" /\ At(s, "between", 0, ses[s].victims)
        /\ active' = [active EXCEPT ![h] = ses[s].handle]
        /\ lt' = lt /\ kept' = kept /\ shared' = shared
    BY <1>7, RetainStep
  <2>2. h \in Hash /\ active \in [Hash -> Handle] /\ ses[s].handle # 0
    BY <2>1, Types DEF Free
  <2>3. h \notin shared => lt[h] = ses[s].handle
    BY <2>1 DEF HandleInv, OwnInv, Own, Free
  <2> HIDE DEF h
  <2>4. h = ses[s].hash
    BY DEF h
  <2> QED BY <2>1, <2>2, <2>3, <2>4, OwnStep DEF At, Own, Free
<1>8. ASSUME NEW s \in Session, AskResumeData(s)
      PROVE  HandleInv'
  <2>1. /\ ses[s].pc = "save" /\ ses'[s].releasing = ses[s].releasing
        /\ lt' = lt /\ active' = active /\ kept' = kept /\ shared' = shared
    BY <1>8, AskStep
  <2>2. PICK pc \in {"await", "remove", "retouch"} :
             /\ At(s, pc, ses[s].handle, ses[s].victims)
             /\ pc = "remove" => ses[s].releasing
             /\ pc = "retouch" => ~ses[s].releasing
    BY <1>8, AskStep
  <2> QED BY <2>1, <2>2, OwnStep DEF At, Own, Free, HandleInv, OwnInv
<1>9. ASSUME NEW s \in Session, TakeAnswer(s) \/ AnswerTimesOut(s)
      PROVE  HandleInv'
  <2>1. /\ ses[s].pc = "await" /\ ses'[s].releasing = ses[s].releasing
        /\ At(s, IF ses[s].releasing THEN "remove" ELSE "retouch", ses[s].handle,
              ses[s].victims)
        /\ lt' = lt /\ active' = active /\ kept' = kept /\ shared' = shared
    BY <1>9, AnswerStep
  <2> QED BY <2>1, OwnStep DEF At, Own, Free, HandleInv, OwnInv
<1>10. ASSUME NEW s \in Session, Release(s)
       PROVE  HandleInv'
  <2> DEFINE h == ses[s].hash
  <2>1. /\ ses[s].pc = "between" /\ active' = [active EXCEPT ![h] = 0]
        /\ At(s, IF active[h] = 0 THEN "idle" ELSE "save", active[h], ses[s].victims)
        /\ ses'[s].releasing = TRUE
        /\ lt' = lt /\ kept' = kept /\ shared' = shared
    BY <1>10, ReleaseStep
  <2>2. h \in Hash /\ active \in [Hash -> Handle]
    BY Types
  <2>3. h \notin shared => lt[h] = active[h] /\ (lt[h] = 0 => h \notin kept)
    BY <2>1 DEF HandleInv, OwnInv, Own
  <2> HIDE DEF h
  <2>4. h = ses[s].hash
    BY DEF h
  <2> QED BY <2>1, <2>2, <2>3, <2>4, OwnStep DEF At, Own, Free
<1>11. ASSUME NEW s \in Session, RemoveTorrent(s)
       PROVE  HandleInv'
  <2> DEFINE h == ses[s].hash
  <2>1. /\ ses[s].pc = "remove" /\ At(s, "idle", 0, ses[s].victims)
        /\ lt' = IF lt[h] = ses[s].handle THEN [lt EXCEPT ![h] = 0] ELSE lt
        /\ kept' = kept \ {h} /\ active' = active /\ shared' = shared
    BY <1>11, RemoveStep
  <2>2. h \in Hash /\ lt \in [Hash -> Handle]
    BY Types
  <2>3. h \notin shared => lt[h] = ses[s].handle /\ active[h] = 0
    BY <2>1 DEF HandleInv, OwnInv, Own, Free
  <2> HIDE DEF h
  <2>4. h = ses[s].hash
    BY DEF h
  <2> QED BY <2>1, <2>2, <2>3, <2>4, OwnStep DEF At
<1>12. ASSUME UNCHANGED <<lt, active, kept, ses, shared>>
       PROVE  HandleInv'
  BY <1>12 DEF HandleInv, SoleInv, OwnInv, ReleasedWithSlot, Hold, Own
<1>13. ASSUME WorkerRestarts
       PROVE  HandleInv'
  <2>1. /\ \A h \in Hash : lt'[h] = 0 /\ active'[h] = 0
        /\ kept' = {} /\ \A s \in Session : ses'[s].pc = "idle"
    BY <1>13 DEF WorkerRestarts, TypeOK, SessionState
  <2>2. \A h : Hold(h)' = {}
    BY <2>1 DEF Hold
  <2> QED BY <2>1, <2>2 DEF HandleInv, SoleInv, OwnInv, ReleasedWithSlot
<1>14. CASE \E s \in Session : SessionStep(s)
  <2> PICK s \in Session : SessionStep(s)
    BY <1>14
  <2>1. CASE StartDownload(s)
    BY <1>3, <2>1 DEF StartDownload
  <2>2. CASE FinishDownload(s)
    BY <1>3, <2>2 DEF FinishDownload
  <2>3. CASE CollectAlerts(s)
    BY <1>12, <2>3 DEF CollectAlerts
  <2> QED
    BY <1>1, <1>2, <1>4, <1>5, <1>6, <1>7, <1>8, <1>9, <1>10, <1>11, <2>1, <2>2, <2>3
       DEF SessionStep
<1>15. ASSUME NEW h \in Hash, PieceArrives(h)
       PROVE  HandleInv'
  BY <1>12, <1>15 DEF PieceArrives, memory
<1>16. ASSUME NEW h \in Hash, NEW ok \in BOOLEAN, AnswerResumeData(h, ok)
       PROVE  HandleInv'
  BY <1>12, <1>16 DEF AnswerResumeData
<1> QED BY <1>13, <1>14, <1>15, <1>16 DEF Next

\* No step but those of AddTorrent and RemoveTorrent changes what is active, and a
\* step that deletes nothing and lists only what is not active keeps the entries.
LEMMA KeepsEntries ==
  ASSUME EntryInv, kept' = kept, caught' = caught,
         \A g \in kept : disk[g].there => disk'[g].there,
         \A q \in Session : ses'[q].victims \subseteq ses[q].victims
                             \/ ses'[q].victims \cap kept = {}
  PROVE  EntryInv'
BY DEF EntryInv

LEMMA EntryNext ==
  ASSUME TypeOK, EntryInv, Next
  PROVE  EntryInv'
<1>1. ASSUME NEW s \in Session, NEW h \in Hash, Begin(s, h)
      PROVE  EntryInv'
  BY <1>1, BeginStep, KeepsEntries DEF Others, memory
<1>2. ASSUME NEW s \in Session, NEW v \in Hash, Prune(s, v)
      PROVE  EntryInv'
  <2>1. /\ Others(s) /\ ses'[s].victims = ses[s].victims \ {v} /\ v \in ses[s].victims
        /\ kept' = kept /\ caught' = caught /\ disk' = [disk EXCEPT ![v] = NoEntry]
    BY <1>2, PruneStep DEF At, memory
  <2>2. \A h \in kept \ caught : h # v
    BY <2>1 DEF EntryInv
  <2>3. \A h \in kept \ caught : disk'[h] = disk[h]
    BY <2>1, <2>2, Types
  <2>4. \A q \in Session : ses'[q].victims \subseteq ses[q].victims
    BY <2>1 DEF Others
  <2> QED BY <2>1, <2>3, <2>4 DEF EntryInv
<1>3. ASSUME NEW s \in Session, NEW pc \in {"trim", "retrim"}, Touch(s, ses[s].hash, pc),
             ses[s].pc = IF pc = "trim" THEN "between" ELSE "retouch",
             UNCHANGED <<memory, caught>>
      PROVE  EntryInv'
  <2>1. pc = "retrim" => ses[s].handle # 0
    BY <1>3, Types DEF Free
  <2>2. /\ Others(s) /\ ses'[s].victims \cap kept = {}
        /\ disk' = [disk EXCEPT ![ses[s].hash].there = TRUE]
    BY <1>3, <2>1, TouchStep DEF At
  <2>3. \A g \in kept : disk[g].there => disk'[g].there
    BY <2>2, Types DEF Entry
  <2> QED BY <1>3, <2>2, <2>3, KeepsEntries DEF Others, memory
<1>4. ASSUME NEW s \in Session, AddTorrent(s)
      PROVE  EntryInv'
  <2> DEFINE h == ses[s].hash
  <2>1. /\ Others(s) /\ ses'[s].victims = {}
        /\ \A g \in Hash : disk'[g].there = disk[g].there
        /\ kept' = kept \cup {h}
        /\ caught' = IF (\E q \in Session : h \in ses[q].victims) \/ ~disk[h].there
                     THEN caught \cup {h} ELSE caught
    BY <1>4, AddStep DEF At
  <2>2. h \in Hash /\ kept \subseteq Hash
    BY Types
  <2> HIDE DEF h
  <2>3. \A q \in Session : ses'[q].victims \subseteq ses[q].victims
    BY <2>1 DEF Others
  <2> QED BY <2>1, <2>2, <2>3 DEF EntryInv
<1>5. ASSUME NEW s \in Session,
             AddRaises(s) \/ DownloadEnds(s) \/ Retain(s) \/ AskResumeData(s) \/ Release(s)
      PROVE  EntryInv'
  <2>1. CASE AddRaises(s)
    BY <2>1, GoesStep, KeepsEntries DEF AddRaises, At, Others, memory, Pcs, Free
  <2>2. CASE DownloadEnds(s)
    BY <2>2, DownloadEndsStep, KeepsEntries DEF At, Others
  <2>3. CASE Retain(s)
    BY <2>3, RetainStep, KeepsEntries DEF At, Others
  <2>4. CASE AskResumeData(s)
    BY <2>4, AskStep, KeepsEntries DEF At, Others
  <2>5. CASE Release(s)
    BY <2>5, ReleaseStep, KeepsEntries DEF At, Others
  <2> QED BY <1>5, <2>1, <2>2, <2>3, <2>4, <2>5
<1>6. ASSUME NEW s \in Session, TakeAnswer(s) \/ AnswerTimesOut(s)
      PROVE  EntryInv'
  BY <1>6, AnswerStep, Types, KeepsEntries DEF At, Others
<1>7. ASSUME NEW s \in Session, RemoveTorrent(s)
      PROVE  EntryInv'
  <2>1. /\ Others(s) /\ ses'[s].victims = ses[s].victims /\ disk' = disk
        /\ kept' = kept \ {ses[s].hash} /\ caught' = caught \ {ses[s].hash}
    BY <1>7, RemoveStep DEF At
  <2>2. \A q \in Session : ses'[q].victims = ses[q].victims
    BY <2>1 DEF Others
  <2> QED BY <2>1, <2>2 DEF EntryInv
<1>8. ASSUME UNCHANGED <<kept, disk, ses, caught>>
      PROVE  EntryInv'
  BY <1>8 DEF EntryInv
<1>9. ASSUME NEW h \in Hash, PieceArrives(h)
      PROVE  EntryInv'
  <2>1. /\ disk' = [disk EXCEPT ![h].there = TRUE, ![h].size = @ + 1]
        /\ kept' = kept /\ caught' = caught /\ ses' = ses
    BY <1>9 DEF PieceArrives, memory
  <2>2. \A g \in kept : disk[g].there => disk'[g].there
    BY <2>1, Types DEF Entry
  <2> QED BY <2>1, <2>2, KeepsEntries
<1>10. CASE \E s \in Session : SessionStep(s)
  <2> PICK s \in Session : SessionStep(s)
    BY <1>10
  <2>1. CASE StartDownload(s)
    BY <1>3, <2>1 DEF StartDownload
  <2>2. CASE FinishDownload(s)
    BY <1>3, <2>2 DEF FinishDownload
  <2>3. CASE CollectAlerts(s)
    BY <1>8, <2>3 DEF CollectAlerts
  <2> QED
    BY <1>1, <1>2, <1>4, <1>5, <1>6, <1>7, <2>1, <2>2, <2>3 DEF SessionStep
<1>11. ASSUME NEW h \in Hash, NEW ok \in BOOLEAN, AnswerResumeData(h, ok)
       PROVE  EntryInv'
  BY <1>8, <1>11 DEF AnswerResumeData
<1>12. CASE WorkerRestarts
  BY <1>12 DEF WorkerRestarts, EntryInv
<1> QED BY <1>9, <1>10, <1>11, <1>12 DEF Next

\* What is left of TypeOK when the sessions keep theirs.
LEMMA TypesLeft ==
  ASSUME Typed, lt' \in [Hash -> Handle], asked' \subseteq Hash,
         alerts' \in Seq([hash : Hash, ok : BOOLEAN]), active' \in [Hash -> Handle],
         kept' \subseteq Hash, disk' \in [Hash -> Entry], older' \subseteq Hash \X Hash,
         shared' \subseteq Hash, caught' \subseteq Hash
  PROVE  TypeOK'
BY DEF TypeOK, Typed, Free

LEMMA TypeNext ==
  ASSUME TypeOK, Next
  PROVE  TypeOK'
<1>0. /\ lt \in [Hash -> Handle] /\ asked \subseteq Hash
      /\ alerts \in Seq([hash : Hash, ok : BOOLEAN])
      /\ <<>> \in Seq([hash : Hash, ok : BOOLEAN])
      /\ active \in [Hash -> Handle] /\ kept \subseteq Hash /\ disk \in [Hash -> Entry]
      /\ older \subseteq Hash \X Hash /\ shared \subseteq Hash /\ caught \subseteq Hash
      /\ 0 \in Handle
  BY Types DEF TypeOK
<1>1. ASSUME NEW s \in Session, NEW h \in Hash, Begin(s, h)
      PROVE  TypeOK'
  BY <1>0, <1>1, BeginStep, TypesLeft DEF memory
<1>2. ASSUME NEW s \in Session, NEW v \in Hash, Prune(s, v)
      PROVE  TypeOK'
  <2>1. Typed /\ disk' = [disk EXCEPT ![v] = NoEntry] /\ UNCHANGED <<memory, older, shared, caught>>
    BY <1>2, PruneStep
  <2>2. disk' \in [Hash -> Entry]
    BY <2>1, DiskTypes
  <2> QED BY <1>0, <2>1, <2>2, TypesLeft DEF memory
<1>3. ASSUME NEW s \in Session, NEW pc \in {"trim", "retrim"}, Touch(s, ses[s].hash, pc),
             ses[s].pc = IF pc = "trim" THEN "between" ELSE "retouch",
             UNCHANGED <<memory, shared, caught>>
      PROVE  TypeOK'
  <2>1. pc = "retrim" => ses[s].handle # 0
    BY <1>3, Types DEF Free
  <2>2. Typed /\ disk' \in [Hash -> Entry] /\ older' \subseteq Hash \X Hash
    BY <1>3, <2>1, TouchStep
  <2> QED BY <1>0, <1>3, <2>2, TypesLeft DEF memory
<1>4. ASSUME NEW s \in Session, AddTorrent(s)
      PROVE  TypeOK'
  <2> DEFINE h == ses[s].hash
             n == ses'[s].handle
  <2>1. /\ n \in Handle /\ Typed /\ (lt' = lt \/ lt' = [lt EXCEPT ![h] = n])
        /\ disk' \in [Hash -> Entry] /\ kept' = kept \cup {h}
        /\ caught' \in {caught, caught \cup {h}}
        /\ UNCHANGED <<asked, alerts, active, older, shared>>
    BY <1>4, AddStep
  <2>2. h \in Hash
    BY Types
  <2> HIDE DEF h, n
  <2>3. lt' \in [Hash -> Handle]
    BY <1>0, <2>1
  <2> QED BY <1>0, <2>1, <2>2, <2>3, TypesLeft
<1>5. ASSUME NEW s \in Session, AddRaises(s)
      PROVE  TypeOK'
  <2>1. Typed /\ UNCHANGED <<memory, disk, older, shared, caught>>
    BY <1>5, GoesStep DEF AddRaises, Pcs, Free
  <2> QED BY <1>0, <2>1, TypesLeft DEF memory
<1>6. ASSUME NEW s \in Session, DownloadEnds(s)
      PROVE  TypeOK'
  BY <1>0, <1>6, DownloadEndsStep, TypesLeft
<1>7. ASSUME NEW s \in Session, Retain(s)
      PROVE  TypeOK'
  <2>1. active' \in [Hash -> Handle]
    BY <1>0, <1>7, RetainStep, Types
  <2> QED BY <1>0, <1>7, <2>1, RetainStep, TypesLeft
<1>8. ASSUME NEW s \in Session, AskResumeData(s)
      PROVE  TypeOK'
  <2>1. asked' \subseteq Hash
    BY <1>0, <1>8, AskStep, Types
  <2> QED BY <1>0, <1>8, <2>1, AskStep, TypesLeft
<1>9. ASSUME NEW s \in Session, TakeAnswer(s) \/ AnswerTimesOut(s)
      PROVE  TypeOK'
  <2>1. alerts' \in Seq([hash : Hash, ok : BOOLEAN])
    BY <1>0, <1>9, AnswerStep
  <2> QED BY <1>0, <1>9, <2>1, AnswerStep, TypesLeft
<1>10. ASSUME NEW s \in Session, Release(s)
       PROVE  TypeOK'
  <2>1. active' \in [Hash -> Handle]
    BY <1>0, <1>10, ReleaseStep
  <2> QED BY <1>0, <1>10, <2>1, ReleaseStep, TypesLeft
<1>11. ASSUME NEW s \in Session, RemoveTorrent(s)
       PROVE  TypeOK'
  <2>1. lt' \in [Hash -> Handle]
    BY <1>0, <1>11, RemoveStep
  <2>2. kept' \subseteq Hash /\ caught' \subseteq Hash
    BY <1>0, <1>11, RemoveStep
  <2> QED BY <1>0, <1>11, <2>1, <2>2, RemoveStep, TypesLeft
<1>12. ASSUME ses' = ses
       PROVE  Typed
  BY <1>12 DEF Typed, TypeOK
<1>13. ASSUME NEW h \in Hash, PieceArrives(h)
       PROVE  TypeOK'
  <2>1. /\ disk' \in [Hash -> Entry] /\ older' \subseteq Hash \X Hash
        /\ UNCHANGED <<memory, ses, shared, caught>>
    BY <1>0, <1>13, DiskTypes DEF PieceArrives
  <2> QED BY <1>0, <1>12, <2>1, TypesLeft DEF memory
<1>14. ASSUME NEW h \in Hash, NEW ok \in BOOLEAN, AnswerResumeData(h, ok)
       PROVE  TypeOK'
  <2>1. alerts' \in Seq([hash : Hash, ok : BOOLEAN])
    BY <1>0, <1>14 DEF AnswerResumeData
  <2> QED BY <1>0, <1>12, <1>14, <2>1, TypesLeft DEF AnswerResumeData
<1>15. ASSUME WorkerRestarts
       PROVE  TypeOK'
  <2>1. Typed
    BY <1>15, <1>0 DEF WorkerRestarts, Typed, TypeOK, SessionState
  <2>2. /\ lt' \in [Hash -> Handle] /\ active' \in [Hash -> Handle] /\ asked' = {}
        /\ alerts' = <<>> /\ kept' = {} /\ shared' = {} /\ caught' = {}
        /\ UNCHANGED <<disk, older>>
    BY <1>15, <1>0 DEF WorkerRestarts
  <2> QED BY <1>0, <2>1, <2>2, TypesLeft
<1>16. CASE \E s \in Session : SessionStep(s)
  <2> PICK s \in Session : SessionStep(s)
    BY <1>16
  <2>1. CASE StartDownload(s)
    BY <1>3, <2>1 DEF StartDownload
  <2>2. CASE FinishDownload(s)
    BY <1>3, <2>2 DEF FinishDownload
  <2>3. CASE CollectAlerts(s)
    BY <1>0, <1>12, <2>3, TypesLeft DEF CollectAlerts
  <2> QED
    BY <1>1, <1>2, <1>4, <1>5, <1>6, <1>7, <1>8, <1>9, <1>10, <1>11, <2>1, <2>2, <2>3
       DEF SessionStep
<1> QED BY <1>13, <1>14, <1>15, <1>16 DEF Next
-----------------------------------------------------------------------------
(***************************************************************************)
(* Sums of sizes, along the recursion of MapThenSumSet.                    *)
(***************************************************************************)

\* What holds of 0 and goes from each number to the next holds up to n.
LEMMA Induction ==
  ASSUME NEW n \in Nat, NEW S, 0 \in S, \A i \in 0 .. n - 1 : i \in S => i + 1 \in S
  PROVE  0 .. n \subseteq S
<1> DEFINE R == OpToRel(<, Nat)
           T == (0 .. n) \ S
<1> SUFFICES ASSUME T # {} PROVE FALSE
  OBVIOUS
<1>1. PICK x \in T : \A y \in T : <<y, x>> \notin R
  <2>1. IsWellFoundedOn(R, Nat)
    BY NatLessThanWellFounded
  <2>2. T \subseteq Nat
    OBVIOUS
  <2> HIDE DEF R, T
  <2> QED BY <2>1, <2>2, WFMin
<1>2. x - 1 \in 0 .. n - 1
  OBVIOUS
<1>3. <<x - 1, x>> \in R
  BY <1>2 DEF OpToRel
<1>4. x - 1 \notin T
  BY <1>1, <1>3
<1> QED BY <1>2, <1>4

\* Numbers have a least one.
LEMMA LeastOf ==
  ASSUME NEW S \in SUBSET Nat, S # {}
  PROVE  \E x \in S : \A y \in S : x <= y
<1> DEFINE R == OpToRel(<, Nat)
<1>1. PICK x \in S : \A y \in S : <<y, x>> \notin R
  <2>1. IsWellFoundedOn(R, Nat)
    BY NatLessThanWellFounded
  <2> HIDE DEF R
  <2> QED BY <2>1, WFMin
<1>2. \A y \in S : ~(y < x)
  BY <1>1 DEF OpToRel
<1> QED BY <1>2

\* A finite set has an element that is least by some measure.
LEMMA LeastBy ==
  ASSUME NEW S, S # {}, NEW m \in [S -> Nat]
  PROVE  \E x \in S : \A y \in S : m[x] <= m[y]
<1> DEFINE M == {m[x] : x \in S}
<1>1. M \in SUBSET Nat /\ M # {}
  OBVIOUS
<1>2. PICK n \in M : \A k \in M : n <= k
  <2> HIDE DEF M
  <2> QED BY <1>1, LeastOf
<1> QED BY <1>2

\* What holds of a finite set once it holds of the set without any one element.
LEMMA OneMore ==
  ASSUME NEW U, IsFiniteSet(U), NEW W,
         \A s \in SUBSET U : (\A x \in s : s \ {x} \in W) => s \in W
  PROVE  SUBSET U \subseteq W
<1> DEFINE B == (SUBSET U) \ W
<1> SUFFICES ASSUME B # {} PROVE FALSE
  OBVIOUS
<1>1. \A s \in SUBSET U : IsFiniteSet(s) /\ Cardinality(s) \in Nat
  BY FS_Subset, FS_CardinalityType
<1> DEFINE m == [s \in B |-> Cardinality(s)]
<1>2. m \in [B -> Nat]
  BY <1>1
<1>3. PICK s \in B : \A t \in B : m[s] <= m[t]
  <2> HIDE DEF B, m
  <2> QED BY <1>2, LeastBy
<1>4. PICK x \in s : s \ {x} \notin W
  OBVIOUS
<1>5. s \ {x} \in B
  BY <1>4
<1>6. Cardinality(s \ {x}) = Cardinality(s) - 1
  BY <1>1, FS_RemoveElement
<1>7. Cardinality(s) <= Cardinality(s) - 1
  <2>1. m[s] = Cardinality(s) /\ m[s \ {x}] = Cardinality(s \ {x})
    BY <1>3, <1>5
  <2>2. m[s] <= m[s \ {x}]
    <3> HIDE DEF B, m
    <3> QED BY <1>3, <1>5
  <2> HIDE DEF m
  <2> QED BY <1>6, <2>1, <2>2
<1>8. Cardinality(s) \in Nat
  BY <1>1
<1> QED BY <1>7, <1>8

\* Sizes are numbers.
Sized(d, U) == \A h \in U : d[h].size \in Nat

\* The element a sum takes first.
Pick(s) == CHOOSE x \in s : TRUE

\* One step of a sum of sizes.
SumStep(d, g, s) == IF s = {} THEN 0 ELSE d[Pick(s)].size + g[s \ {Pick(s)}]

\* The recursion of a sum, with the values of g.
Sums(d, g, S) == g = [s \in SUBSET S |-> SumStep(d, g, s)]

\* g is the sum of each part of U,
Totals(g, d, U) == g \in [SUBSET U -> Nat] /\ Sums(d, g, U)

\* whichever element is taken first.
AnyOrder(g, d, U) == \A s \in SUBSET U : \A x \in s : g[s] = d[x].size + g[s \ {x}]

\* A sum of sizes is a solution of its recursion.
LEMMA Unfolded ==
  ASSUME NEW S, NEW d
  PROVE  SizeOf(S, d) = (CHOOSE g : Sums(d, g, S))[S]
BY DEF SizeOf, MapThenSumSet, MapThenFoldSet, Sums, SumStep, Pick

\* The recursion of a sum has a solution.
LEMMA SumExists ==
  ASSUME NEW U, IsFiniteSet(U), NEW d, Sized(d, U)
  PROVE  \E g : Totals(g, d, U)
<1> DEFINE N == Cardinality(U)
           Upto(g, n) == \A s \in SUBSET U : Cardinality(s) <= n => g[s] = SumStep(d, g, s)
           T == {n \in 0 .. N : \E g \in [SUBSET U -> Nat] : Upto(g, n)}
<1>1. \A s \in SUBSET U : IsFiniteSet(s) /\ Cardinality(s) \in Nat /\ Cardinality(s) <= N
  BY FS_Subset, FS_CardinalityType
<1>2. N \in Nat
  BY FS_CardinalityType
<1>3. 0 \in T
  <2> DEFINE g == [s \in SUBSET U |-> 0]
  <2>1. ASSUME NEW s \in SUBSET U, Cardinality(s) <= 0 PROVE g[s] = SumStep(d, g, s)
    <3>1. Cardinality(s) = 0
      BY <1>1, <2>1
    <3>2. s = {}
      BY <1>1, <3>1, FS_EmptySet
    <3> QED BY <3>2 DEF SumStep
  <2>2. g \in [SUBSET U -> Nat]
    OBVIOUS
  <2> HIDE DEF g
  <2> QED BY <1>2, <2>1, <2>2
<1>4. ASSUME NEW n \in 0 .. N - 1, n \in T PROVE n + 1 \in T
  <2>1. PICK g \in [SUBSET U -> Nat] : Upto(g, n)
    BY <1>4
  <2> DEFINE k == [s \in SUBSET U |-> IF Cardinality(s) <= n THEN g[s]
                                      ELSE IF Cardinality(s) = n + 1 THEN SumStep(d, g, s) ELSE 0]
  <2>2. ASSUME NEW s \in SUBSET U, s # {}
        PROVE  /\ Pick(s) \in s /\ Pick(s) \in U /\ s \ {Pick(s)} \in SUBSET U
               /\ Cardinality(s \ {Pick(s)}) = Cardinality(s) - 1
    <3>1. Pick(s) \in s
      BY <2>2 DEF Pick
    <3> QED BY <1>1, <3>1, FS_RemoveElement
  <2>3. ASSUME NEW s \in SUBSET U PROVE SumStep(d, g, s) \in Nat
    <3>1. CASE s = {}
      BY <3>1 DEF SumStep
    <3>2. CASE s # {}
      <4>1. d[Pick(s)].size \in Nat /\ g[s \ {Pick(s)}] \in Nat
        BY <2>2, <3>2 DEF Sized
      <4> QED BY <3>2, <4>1 DEF SumStep
    <3> QED BY <3>1, <3>2
  <2>4. k \in [SUBSET U -> Nat]
    BY <2>3
  <2>5. \A s \in SUBSET U : Cardinality(s) <= n => k[s] = g[s]
    OBVIOUS
  <2>6. \A s \in SUBSET U : Cardinality(s) = n + 1 => k[s] = SumStep(d, g, s)
    BY <1>2
  <2> HIDE DEF k
  <2>7. ASSUME NEW s \in SUBSET U, Cardinality(s) <= n + 1 PROVE k[s] = SumStep(d, k, s)
    <3>1. SumStep(d, k, s) = SumStep(d, g, s)
      <4>1. CASE s = {}
        BY <4>1 DEF SumStep
      <4>2. CASE s # {}
        <5>1. Cardinality(s \ {Pick(s)}) <= n /\ s \ {Pick(s)} \in SUBSET U
          BY <1>1, <2>2, <2>7, <4>2
        <5>2. k[s \ {Pick(s)}] = g[s \ {Pick(s)}]
          BY <2>5, <5>1
        <5> QED BY <4>2, <5>2 DEF SumStep
      <4> QED BY <4>1, <4>2
    <3>2. CASE Cardinality(s) <= n
      BY <2>1, <2>5, <3>1, <3>2
    <3>3. CASE Cardinality(s) = n + 1
      BY <2>6, <3>1, <3>3
    <3> QED BY <1>1, <2>7, <3>2, <3>3
  <2>8. Upto(k, n + 1)
    BY <2>7
  <2> HIDE DEF Upto
  <2>9. n + 1 \in 0 .. N
    BY <1>2
  <2> QED BY <2>4, <2>8, <2>9
<1>5. N \in T
  <2> HIDE DEF T, N
  <2>1. 0 .. N \subseteq T
    BY <1>2, <1>3, <1>4, Induction
  <2> QED BY <1>2, <2>1
<1>6. PICK g \in [SUBSET U -> Nat] : Upto(g, N)
  BY <1>5
<1>7. \A s \in SUBSET U : g[s] = SumStep(d, g, s)
  BY <1>1, <1>6
<1>8. Sums(d, g, U)
  <2>1. g = [s \in SUBSET U |-> g[s]]
    OBVIOUS
  <2> QED BY <1>7, <2>1 DEF Sums
<1> QED BY <1>6, <1>8 DEF Totals

\* And one only, whatever set it starts from.
LEMMA SumUnique ==
  ASSUME NEW U, IsFiniteSet(U), NEW S \in SUBSET U, NEW d, NEW g, Totals(g, d, U), NEW k, Sums(d, k, S)
  PROVE  \A s \in SUBSET S : k[s] = g[s]
<1> DEFINE W == {s \in SUBSET S : k[s] = g[s]}
<1>1. IsFiniteSet(S)
  BY FS_Subset
<1>2. ASSUME NEW s \in SUBSET S, \A x \in s : s \ {x} \in W PROVE s \in W
  <2>1. k[s] = SumStep(d, k, s) /\ g[s] = SumStep(d, g, s)
    BY DEF Sums, Totals
  <2>2. CASE s = {}
    BY <2>1, <2>2 DEF SumStep
  <2>3. CASE s # {}
    <3>1. Pick(s) \in s
      BY <2>3 DEF Pick
    <3>2. k[s \ {Pick(s)}] = g[s \ {Pick(s)}]
      BY <1>2, <3>1
    <3> QED BY <2>1, <2>3, <3>2 DEF SumStep
  <2> QED BY <2>2, <2>3
<1>3. SUBSET S \subseteq W
  <2> HIDE DEF W
  <2> QED BY <1>1, <1>2, OneMore
<1> QED BY <1>3

\* So it is a value of the solution for any larger set.
LEMMA SizeOfIs ==
  ASSUME NEW U, IsFiniteSet(U), NEW d, NEW g, Totals(g, d, U), NEW S \in SUBSET U
  PROVE  SizeOf(S, d) = g[S]
<1> DEFINE f == [s \in SUBSET S |-> g[s]]
<1>1. \A s \in SUBSET S : f[s] = SumStep(d, f, s)
  <2> SUFFICES ASSUME NEW s \in SUBSET S PROVE g[s] = SumStep(d, f, s)
    OBVIOUS
  <2>1. g[s] = SumStep(d, g, s)
    BY DEF Sums, Totals
  <2>2. f[s \ {Pick(s)}] = g[s \ {Pick(s)}]
    OBVIOUS
  <2> HIDE DEF f
  <2> QED BY <2>1, <2>2 DEF SumStep
<1>2. f = [s \in SUBSET S |-> f[s]]
  OBVIOUS
<1> HIDE DEF f
<1>3. Sums(d, f, S)
  BY <1>1, <1>2 DEF Sums
<1> DEFINE k == CHOOSE k : Sums(d, k, S)
<1>4. Sums(d, k, S)
  BY <1>3
<1>5. SizeOf(S, d) = k[S]
  BY Unfolded
<1> HIDE DEF k
<1>6. k[S] = g[S]
  BY <1>4, SumUnique
<1> QED BY <1>5, <1>6

\* The order in which a sum is taken does not matter.
LEMMA AnyFirst ==
  ASSUME NEW U, IsFiniteSet(U), NEW d, Sized(d, U),
         NEW g, Totals(g, d, U)
  PROVE  AnyOrder(g, d, U)
<1> DEFINE W == {s \in SUBSET U : \A x \in s : g[s] = d[x].size + g[s \ {x}]}
<1>1. ASSUME NEW s \in SUBSET U, \A x \in s : s \ {x} \in W PROVE s \in W
  <2> SUFFICES ASSUME NEW x \in s PROVE g[s] = d[x].size + g[s \ {x}]
    OBVIOUS
  <2> DEFINE y == Pick(s)
             r == s \ {x, y}
  <2>1. y \in s /\ g[s] = d[y].size + g[s \ {y}]
    <3>1. Pick(s) \in s
      BY DEF Pick
    <3> QED BY <3>1 DEF Totals, Sums, SumStep
  <2> HIDE DEF y
  <2>2. CASE x = y
    BY <2>1, <2>2
  <2>3. CASE x # y
    <3>1. /\ (s \ {x}) \ {y} = r /\ (s \ {y}) \ {x} = r
          /\ x \in s \ {y} /\ y \in s \ {x}
      BY <2>1, <2>3
    <3>2. g[s \ {x}] = d[y].size + g[r] /\ g[s \ {y}] = d[x].size + g[r]
      BY <1>1, <2>1, <3>1
    <3>3. d[x].size \in Nat /\ d[y].size \in Nat /\ g[r] \in Nat
      BY <2>1 DEF Sized, Totals
    <3> QED BY <2>1, <3>2, <3>3
  <2> QED BY <2>2, <2>3
<1>2. SUBSET U \subseteq W
  <2> HIDE DEF W
  <2> QED BY <1>1, OneMore
<1> QED BY <1>2 DEF AnyOrder

\* More entries are no smaller.
LEMMA SizesGrow ==
  ASSUME NEW T, IsFiniteSet(T), NEW d, Sized(d, T), NEW S \in SUBSET T
  PROVE  SizeOf(S, d) \in Nat /\ SizeOf(T, d) \in Nat /\ SizeOf(S, d) <= SizeOf(T, d)
<1>1. PICK g : Totals(g, d, T)
  BY SumExists
<1>2. AnyOrder(g, d, T)
  BY <1>1, AnyFirst
<1> DEFINE W == {s \in SUBSET T : S \subseteq s => g[S] <= g[s]}
<1>3. ASSUME NEW s \in SUBSET T, \A x \in s : s \ {x} \in W PROVE s \in W
  <2> SUFFICES ASSUME S \subseteq s PROVE g[S] <= g[s]
    OBVIOUS
  <2>1. CASE S = s
    <3>1. g[S] \in Nat
      BY <1>1 DEF Totals
    <3> QED BY <2>1, <3>1
  <2>2. CASE S # s
    <3>1. PICK x \in s : x \notin S
      BY <2>2
    <3>2. g[S] <= g[s \ {x}]
      BY <1>3, <3>1
    <3>3. g[s] = d[x].size + g[s \ {x}] /\ g[s \ {x}] \in Nat /\ g[S] \in Nat /\ d[x].size \in Nat
      BY <1>1, <1>2 DEF AnyOrder, Sized, Totals
    <3> QED BY <3>2, <3>3
  <2> QED BY <2>1, <2>2
<1>4. SUBSET T \subseteq W
  <2> HIDE DEF W
  <2> QED BY <1>3, OneMore
<1>5. g[S] <= g[T] /\ g[S] \in Nat /\ g[T] \in Nat
  BY <1>1, <1>4 DEF Totals
<1>6. SizeOf(S, d) = g[S] /\ SizeOf(T, d) = g[T]
  BY <1>1, SizeOfIs
<1> QED BY <1>5, <1>6
-----------------------------------------------------------------------------
(***************************************************************************)
(* What a prune takes.                                                     *)
(***************************************************************************)

\* The more a prune deletes the less is left.
LEMMA RestShrinks ==
  ASSUME NEW d \in [Hash -> Entry], IsFiniteSet(Entries(d)), NEW A, NEW B, A \subseteq B
  PROVE  /\ SizeOf(Entries(d) \ A, d) \in Nat /\ SizeOf(Entries(d) \ B, d) \in Nat
         /\ SizeOf(Entries(d) \ B, d) <= SizeOf(Entries(d) \ A, d)
<1> DEFINE T == Entries(d) \ A
           S == Entries(d) \ B
<1>1. IsFiniteSet(T) /\ S \in SUBSET T
  BY FS_Subset
<1>2. Sized(d, T)
  <2>1. \A h \in Hash : d[h].size \in Nat
    BY CacheAssumption DEF Entry
  <2> QED BY <2>1 DEF Sized, Entries
<1> HIDE DEF T, S
<1>3. SizeOf(S, d) \in Nat /\ SizeOf(T, d) \in Nat /\ SizeOf(S, d) <= SizeOf(T, d)
  BY <1>1, <1>2, SizesGrow
<1> QED BY <1>3 DEF T, S

\* Modification times order the entries.
Recency(d, o) ==
    /\ IsFiniteSet(Entries(d))
    /\ \A h \in Hash : d[h].size # 0 => d[h].there
    /\ \A h \in Hash : <<h, h>> \notin o
    /\ \A f, g, h \in Hash : <<f, g>> \in o /\ <<g, h>> \in o => <<f, h>> \in o
    /\ \A h \in Entries(d), g \in Hash : g = h \/ <<g, h>> \in o \/ <<h, g>> \in o

\* A finite set of entries has an oldest.
LEMMA Oldest ==
  ASSUME NEW d, NEW o, Recency(d, o), NEW X \in SUBSET Entries(d), X # {}
  PROVE  \E g \in X : \A y \in X : <<y, g>> \notin o
<1> DEFINE Before(g) == {y \in X : <<y, g>> \in o}
           m == [g \in X |-> Cardinality(Before(g))]
<1>1. IsFiniteSet(X)
  BY FS_Subset DEF Recency
<1>2. \A g \in X : IsFiniteSet(Before(g)) /\ Cardinality(Before(g)) \in Nat
  BY <1>1, FS_Subset, FS_CardinalityType
<1>3. m \in [X -> Nat]
  BY <1>2
<1>4. PICK g \in X : \A y \in X : m[g] <= m[y]
  <2> HIDE DEF m
  <2> QED BY <1>3, LeastBy
<1>5. ASSUME NEW y \in X, <<y, g>> \in o PROVE FALSE
  <2>1. y \in Hash /\ g \in Hash /\ \A x \in X : x \in Hash
    BY DEF Entries
  <2>2. Before(y) \in SUBSET Before(g) /\ y \in Before(g) /\ y \notin Before(y)
    BY <1>5, <2>1 DEF Recency
  <2> DEFINE A == Before(y)
             B == Before(g)
  <2>3. IsFiniteSet(B)
    BY <1>2
  <2>4. A \in SUBSET B /\ A # B /\ m[g] = Cardinality(B) /\ m[y] = Cardinality(A)
    BY <2>2
  <2>5. m[g] <= m[y] /\ m[g] \in Nat /\ m[y] \in Nat
    <3> HIDE DEF m
    <3> QED BY <1>3, <1>4
  <2> HIDE DEF A, B, m
  <2>6. Cardinality(A) \in Nat /\ Cardinality(B) \in Nat /\ Cardinality(A) <= Cardinality(B)
        /\ (Cardinality(A) = Cardinality(B) => A = B)
    BY <2>3, <2>4, FS_Subset, FS_CardinalityType
  <2> QED BY <2>4, <2>5, <2>6
<1> QED BY <1>5

\* The oldest of the entries a prune may take, as many as it has to.
RightCut(V, loose, d, o) ==
    /\ V \subseteq loose
    /\ \A v \in V, g \in loose \ V : <<v, g>> \in o
    /\ SizeOf(Entries(d) \ V, d) <= Budget \/ V = loose
    /\ \A v \in V : (\A g \in V : g = v \/ <<g, v>> \in o)
         => SizeOf(Entries(d) \ (V \ {v}), d) > Budget

\* The cut of a prune is at the right place of that order.
LEMMA CutIsRight ==
  ASSUME NEW d \in [Hash -> Entry], NEW o, Recency(d, o), NEW h \in Hash,
         NEW loose, loose = Entries(d) \ Preserved(h), NEW V, V = Victims(d, o, h)
  PROVE  RightCut(V, loose, d, o)
<1> DEFINE Before(g) == {y \in loose : <<y, g>> \in o}
           Rest(S) == SizeOf(Entries(d) \ S, d)
<1>1. V = {g \in loose : Rest(Before(g)) > Budget}
  BY DEF Victims
<1>2. loose \subseteq Entries(d) /\ loose \subseteq Hash /\ Budget \in Nat /\ IsFiniteSet(Entries(d))
  BY CacheAssumption DEF Entries, Recency
<1>3. \A A, B : A \subseteq B => Rest(A) \in Nat /\ Rest(B) \in Nat /\ Rest(B) <= Rest(A)
  BY <1>2, RestShrinks
<1> HIDE DEF Rest
<1>4. ASSUME NEW g \in loose, NEW v \in V, <<g, v>> \in o PROVE g \in V
  <2>1. v \in loose /\ Rest(Before(v)) > Budget
    BY <1>1
  <2>2. Before(g) \subseteq Before(v)
    BY <1>2, <1>4, <2>1 DEF Recency
  <2>3. Rest(Before(g)) \in Nat /\ Rest(Before(v)) \in Nat /\ Rest(Before(v)) <= Rest(Before(g))
    BY <1>3, <2>2
  <2>4. Rest(Before(g)) > Budget
    <3> HIDE DEF Before
    <3> QED BY <1>2, <2>1, <2>3
  <2> QED BY <1>1, <2>4
<1>5. V \subseteq loose
  BY <1>1
<1>6. ASSUME NEW v \in V, NEW g \in loose \ V PROVE <<v, g>> \in o
  <2>1. v # g /\ <<g, v>> \notin o
    BY <1>4, <1>6
  <2>2. v \in Entries(d) /\ g \in Hash
    BY <1>2, <1>5
  <2> QED BY <2>1, <2>2 DEF Recency
<1>7. ASSUME V # loose PROVE Rest(V) <= Budget
  <2>1. loose \ V # {} /\ loose \ V \in SUBSET Entries(d)
    BY <1>2, <1>5, <1>7
  <2>2. PICK g \in loose \ V : \A y \in loose \ V : <<y, g>> \notin o
    BY <2>1, Oldest
  <2>3. Before(g) = V
    <3>1. V \subseteq Before(g)
      BY <1>5, <1>6
    <3>2. Before(g) \subseteq V
      BY <2>2
    <3> QED BY <3>1, <3>2
  <2>4. Rest(V) \in Nat
    BY <1>3
  <2>5. ~(Rest(V) > Budget)
    BY <1>1, <2>2, <2>3
  <2> QED BY <1>2, <2>4, <2>5
<1>8. ASSUME NEW v \in V, \A g \in V : g = v \/ <<g, v>> \in o PROVE Rest(V \ {v}) > Budget
  <2>1. v \in loose /\ v \in Hash /\ Rest(Before(v)) > Budget
    BY <1>1, <1>2
  <2>2. Before(v) = V \ {v}
    <3>1. \A g \in Before(v) : g \in V /\ g # v
      BY <1>2, <1>4, <2>1 DEF Recency
    <3>2. \A g \in V \ {v} : g \in Before(v)
      BY <1>5, <1>8
    <3> QED BY <3>1, <3>2
  <2> QED BY <2>1, <2>2
<1> QED BY <1>5, <1>6, <1>7, <1>8 DEF Rest, RightCut

\* Entries that go keep the order of the others.
LEMMA RecencyKept ==
  ASSUME NEW d, NEW o, Recency(d, o), NEW e, Entries(e) \subseteq Entries(d),
         \A h \in Hash : e[h].size # 0 => e[h].there
  PROVE  Recency(e, o)
<1>1. IsFiniteSet(Entries(e))
  BY FS_Subset DEF Recency
<1> QED BY <1>1 DEF Recency

\* An entry that is written comes last.
LEMMA RecencyTouched ==
  ASSUME Recency(disk, older), NEW h \in Hash, NEW e, Entries(e) \subseteq Entries(disk) \cup {h},
         \A g \in Hash : e[g].size # 0 => e[g].there
  PROVE  Recency(e, Newest(h))
<1>1. IsFiniteSet(Entries(e))
  <2>1. IsFiniteSet(Entries(disk) \cup {h})
    BY FS_AddElement DEF Recency
  <2> QED BY <2>1, FS_Subset
<1>2. \A f, g \in Hash : <<f, g>> \in Newest(h) <=> f # h /\ (g = h \/ <<f, g>> \in older)
  BY DEF Newest
<1>3. \A g \in Hash : <<g, g>> \notin Newest(h)
  BY <1>2 DEF Recency
<1>4. \A f, g, k \in Hash : <<f, g>> \in Newest(h) /\ <<g, k>> \in Newest(h) => <<f, k>> \in Newest(h)
  BY <1>2 DEF Recency
<1>5. \A k \in Entries(e), g \in Hash : g = k \/ <<g, k>> \in Newest(h) \/ <<k, g>> \in Newest(h)
  <2> SUFFICES ASSUME NEW k \in Entries(e), NEW g \in Hash, g # k
               PROVE  <<g, k>> \in Newest(h) \/ <<k, g>> \in Newest(h)
    OBVIOUS
  <2>1. k \in Hash
    BY DEF Entries
  <2>2. k = h \/ <<g, k>> \in older \/ <<k, g>> \in older
    BY DEF Recency
  <2> QED BY <1>2, <2>1, <2>2
<1> QED BY <1>1, <1>3, <1>4, <1>5 DEF Recency

\* A step leaves the order as it is, or writes one entry.
LEMMA RecencyNext ==
  ASSUME TypeOK, Recency(disk, older), Next
  PROVE  Recency(disk', older')
<1>1. disk \in [Hash -> Entry] /\ \A s \in Session : ses[s].hash \in Hash
  BY Types
<1>2. ASSUME NEW h \in Hash, NEW e,
             disk' = [disk EXCEPT ![h] = e], e.size # 0 => e.there,
             \/ older' = Newest(h)
             \/ older' = older /\ (e.there => disk[h].there)
      PROVE  Recency(disk', older')
  <2>1. \A g \in Hash : disk'[g] = IF g = h THEN e ELSE disk[g]
    BY <1>1, <1>2
  <2>2. \A g \in Hash : disk'[g].size # 0 => disk'[g].there
    BY <1>2, <2>1 DEF Recency
  <2>3. CASE older' = Newest(h)
    <3>1. Entries(disk') \subseteq Entries(disk) \cup {h}
      BY <2>1 DEF Entries
    <3> QED BY <2>2, <2>3, <3>1, RecencyTouched
  <2>4. CASE older' = older /\ (e.there => disk[h].there)
    <3>1. Entries(disk') \subseteq Entries(disk)
      BY <2>1, <2>4 DEF Entries
    <3> QED BY <2>2, <2>4, <3>1, RecencyKept
  <2> QED BY <1>2, <2>3, <2>4
<1>3. ASSUME UNCHANGED <<disk, older>> PROVE Recency(disk', older')
  BY <1>3
<1>4. \A h \in Hash : disk[h] \in Entry /\ (disk[h].size # 0 => disk[h].there)
  BY <1>1 DEF Recency
<1>5. ASSUME NEW h \in Hash, NEW r, disk' = [disk EXCEPT ![h].resume = r],
             older' = older \/ older' = Newest(h)
      PROVE  Recency(disk', older')
  <2> DEFINE e == [disk[h] EXCEPT !.resume = r]
  <2>1. e.there = disk[h].there /\ e.size = disk[h].size
    BY <1>4 DEF Entry
  <2>2. disk' = [disk EXCEPT ![h] = e]
    BY <1>5
  <2> HIDE DEF e
  <2>3. /\ e.size # 0 => e.there
        /\ older' = Newest(h) \/ (older' = older /\ (e.there => disk[h].there))
    BY <1>4, <1>5, <2>1
  <2> QED BY <1>2, <2>2, <2>3
<1>6. ASSUME NEW s \in Session, NEW pc, Touch(s, ses[s].hash, pc) PROVE Recency(disk', older')
  <2> DEFINE h == ses[s].hash
             e == [disk[h] EXCEPT !.there = TRUE]
  <2>1. disk' = [disk EXCEPT ![h] = e] /\ older' = Newest(h) /\ h \in Hash
    BY <1>1, <1>6 DEF Touch
  <2>2. e.there = TRUE
    BY <1>4, <2>1 DEF Entry
  <2> HIDE DEF e, h
  <2> QED BY <1>2, <2>1, <2>2
<1>7. ASSUME NEW s \in Session, NEW v \in Hash, Prune(s, v) PROVE Recency(disk', older')
  <2>1. disk' = [disk EXCEPT ![v] = NoEntry] /\ older' = older
    BY <1>7 DEF Prune
  <2>2. NoEntry.size = 0 /\ NoEntry.there = FALSE
    BY DEF NoEntry
  <2> QED BY <1>2, <2>1, <2>2
<1>8. ASSUME NEW s \in Session, AddTorrent(s) PROVE Recency(disk', older')
  <2>1. /\ disk' = disk \/ disk' = [disk EXCEPT ![ses[s].hash].resume = NoHash]
        /\ older' = older
    BY <1>8 DEF AddTorrent, Loaded
  <2> QED BY <1>1, <1>3, <1>5, <2>1
<1>9. ASSUME NEW s \in Session, TakeAnswer(s) PROVE Recency(disk', older')
  <2>1. \/ UNCHANGED <<disk, older>>
        \/ /\ disk' = [disk EXCEPT ![ses[s].hash].resume = Head(alerts).hash]
           /\ older' = older \/ older' = Newest(ses[s].hash)
    BY <1>9 DEF TakeAnswer
  <2> QED BY <1>1, <1>3, <1>5, <2>1
<1>10. ASSUME NEW h \in Hash, PieceArrives(h) PROVE Recency(disk', older')
  <2> DEFINE e == [disk[h] EXCEPT !.there = TRUE, !.size = @ + 1]
  <2>1. /\ disk' = [disk EXCEPT ![h] = e]
        /\ older' = IF disk[h].size = 0 THEN Newest(h) ELSE older
    BY <1>10 DEF PieceArrives
  <2>2. e.there = TRUE
    BY <1>4 DEF Entry
  <2> HIDE DEF e
  <2> QED BY <1>2, <1>4, <2>1, <2>2
<1>11. ASSUME NEW s \in Session, SessionStep(s) PROVE Recency(disk', older')
  <2>1. CASE StartDownload(s) \/ FinishDownload(s)
    BY <1>6, <2>1 DEF StartDownload, FinishDownload
  <2>2. CASE UNCHANGED <<disk, older>>
    BY <1>3, <2>2
  <2>3. \/ \E h \in Hash : Prune(s, h)
        \/ StartDownload(s) \/ FinishDownload(s) \/ AddTorrent(s) \/ TakeAnswer(s)
        \/ UNCHANGED <<disk, older>>
    BY <1>11 DEF SessionStep, Begin, AddRaises, CollectAlerts, DownloadEnds, Retain,
                 AskResumeData, AnswerTimesOut, Release, RemoveTorrent
  <2> QED BY <1>7, <1>8, <1>9, <2>1, <2>2, <2>3
<1>12. ASSUME WorkerRestarts \/ \E h \in Hash, ok \in BOOLEAN : AnswerResumeData(h, ok)
       PROVE  Recency(disk', older')
  BY <1>3, <1>12 DEF WorkerRestarts, AnswerResumeData
<1> QED BY <1>10, <1>11, <1>12 DEF Next

\* What PrunesLeastRecent asks of session s.
PrunesRight(s) ==
    LET V == ses'[s].victims
        loose == Entries(disk') \ (kept \cup {ses'[s].hash})
        Rest(S) == SizeOf(Entries(disk') \ S, disk')
    IN ses'[s].pc # ses[s].pc /\ ses'[s].pc \in {"trim", "retrim"} =>
       /\ V \subseteq loose
       /\ \A v \in V, g \in loose \ V : <<v, g>> \in older'
       /\ Rest(V) <= Budget \/ V = loose
       /\ \A v \in V : (\A g \in V : g = v \/ <<g, v>> \in older') => Rest(V \ {v}) > Budget

\* A session that prunes lists the right entries.
LEMMA TouchPrunesRight ==
  ASSUME TypeOK, Recency(disk, older), Next, NEW s \in Session, NEW pc \in {"trim", "retrim"},
         Touch(s, ses[s].hash, pc)
  PROVE  PrunesRight(s)
<1> DEFINE h == ses[s].hash
<1>1. h \in Hash /\ ses[s] \in SessionState
  BY Types DEF TypeOK
<1>2. ses'[s].victims = Victims(disk', older', h) /\ ses'[s].hash = h
  BY <1>1 DEF Touch, TypeOK, SessionState
<1>3. disk' \in [Hash -> Entry]
  BY Types, DiskTypes DEF Touch
<1>4. Recency(disk', older')
  BY RecencyNext
<1> DEFINE V == ses'[s].victims
           loose == Entries(disk') \ (kept \cup {h})
<1>5. loose = Entries(disk') \ Preserved(h)
  BY DEF Preserved
<1>6. V = Victims(disk', older', h)
  BY <1>2
<1>7. RightCut(V, loose, disk', older')
  <2> HIDE DEF V, loose, h
  <2> QED BY <1>1, <1>3, <1>4, <1>5, <1>6, CutIsRight
<1> QED BY <1>2, <1>7 DEF PrunesRight, RightCut

\* No other step makes a session prune.
LEMMA OnlyTouchPrunes ==
  ASSUME TypeOK, Next, NEW s \in Session, ses'[s].pc # ses[s].pc, ses'[s].pc \in {"trim", "retrim"}
  PROVE  \E pc \in {"trim", "retrim"} : Touch(s, ses[s].hash, pc)
<1>1. PICK q \in Session : SessionStep(q)
  <2>1. ~WorkerRestarts
    BY DEF WorkerRestarts, TypeOK, SessionState
  <2>2. ~ \E h \in Hash : PieceArrives(h)
    BY DEF PieceArrives
  <2>3. ~ \E h \in Hash, ok \in BOOLEAN : AnswerResumeData(h, ok)
    BY DEF AnswerResumeData
  <2> QED BY <2>1, <2>2, <2>3 DEF Next
<1>2. ~CollectAlerts(q)
  BY DEF CollectAlerts
<1>3. CASE StartDownload(q) \/ FinishDownload(q)
  <2>1. PICK pc \in {"trim", "retrim"} : Touch(q, ses[q].hash, pc)
    BY <1>3 DEF StartDownload, FinishDownload
  <2>2. q = s
    BY <2>1 DEF Touch, TypeOK
  <2> QED BY <2>1, <2>2
<1>4. ASSUME Others(q), ses'[q].pc \notin {"trim", "retrim"} \/ ses'[q].pc = ses[q].pc
      PROVE  FALSE
  BY <1>4 DEF Others
<1>5. ~ \E h \in Hash : Begin(q, h)
  BY <1>4, BeginStep
<1>6. ~ \E h \in Hash : Prune(q, h)
  BY <1>4, PruneStep DEF At
<1>7. ~AddTorrent(q)
  BY <1>4, AddStep DEF At
<1>8. ~AddRaises(q)
  BY <1>4, GoesStep DEF AddRaises, At, Pcs, Free
<1>9. ~DownloadEnds(q) /\ ~Retain(q)
  BY <1>4, DownloadEndsStep, RetainStep DEF At
<1>10. ~AskResumeData(q)
  BY <1>4, AskStep DEF At
<1>11. ~TakeAnswer(q) /\ ~AnswerTimesOut(q)
  BY <1>4, AnswerStep DEF At
<1>12. ~Release(q)
  BY <1>4, ReleaseStep DEF At
<1>13. ~RemoveTorrent(q)
  BY <1>4, RemoveStep DEF At
<1> QED BY <1>1, <1>2, <1>3, <1>5, <1>6, <1>7, <1>8, <1>9, <1>10, <1>11, <1>12, <1>13
        DEF SessionStep
-----------------------------------------------------------------------------
(***************************************************************************)
(* The theorems.                                                           *)
(***************************************************************************)

LEMMA Initially == Init => IInv
<1> SUFFICES ASSUME Init PROVE IInv
  OBVIOUS
<1>1. 0 \in Handle /\ NoEntry \in Entry
  BY CacheAssumption DEF Handle, NoEntry, Entry
<1>2. PICK g \in Hash : ses = [s \in Session |-> [pc |-> "idle", hash |-> g, handle |-> 0,
                                                  victims |-> {}, releasing |-> FALSE]]
  BY DEF Init
<1>3. ses \in [Session -> SessionState] /\ \A s \in Session : ses[s].pc = "idle"
  BY <1>1, <1>2 DEF SessionState
<1>4. alerts \in Seq([hash : Hash, ok : BOOLEAN])
  BY DEF Init
<1>5. TypeOK
  BY <1>1, <1>3, <1>4 DEF Init, TypeOK
<1>6. \A h : Hold(h) = {}
  BY <1>3 DEF Hold
<1>7. HandleInv
  BY <1>3, <1>6 DEF HandleInv, SoleInv, OwnInv, ReleasedWithSlot, Init
<1>8. EntryInv
  BY DEF EntryInv, Init
<1> QED BY <1>5, <1>7, <1>8 DEF IInv

LEMMA StepKeeps == IInv /\ [Next]_vars => IInv'
<1>1. ASSUME IInv, Next PROVE IInv'
  BY <1>1, TypeNext, HandleNext, EntryNext DEF IInv
<1>2. ASSUME IInv, UNCHANGED vars PROVE IInv'
  BY <1>2 DEF IInv, TypeOK, HandleInv, SoleInv, OwnInv, ReleasedWithSlot, EntryInv, Hold, Own,
              vars
<1> QED BY <1>1, <1>2

\* Every reachable state satisfies the invariant.
THEOREM Inductive == Spec => []IInv
BY Initially, StepKeeps, PTL DEF Spec

\* The state of the client keeps its types; a session that is beyond the handle
\* request has a handle.
THEOREM TypeCorrect == Spec => []TypeOK
<1>1. IInv => TypeOK
  BY DEF IInv
<1> QED BY <1>1, Inductive, PTL

\* client.py:65: a retained handle goes with the slot: no torrent stays in
\* libtorrent, in the table or on the active list after its only session ended.
THEOREM ReleasesAll == Spec => []ReleasedWithSlot
<1>1. IInv => ReleasedWithSlot
  BY DEF IInv, HandleInv
<1> QED BY <1>1, Inductive, PTL

\* A download runs on a handle libtorrent still has, over all attempts of its
\* session and whatever other sessions do.
THEOREM DownloadsLive == Spec => []HandleIsLive
<1>1. IInv => HandleIsLive
  BY DEF IInv, HandleInv, OwnInv, Own, HandleIsLive, Free
<1> QED BY <1>1, Inductive, PTL

\* _prune_torrent_cache spares every entry that is active when it makes its list.
THEOREM SparesActive == Spec => []ActiveEntryKept
<1>1. IInv => ActiveEntryKept
  BY DEF IInv, EntryInv, ActiveEntryKept
<1> QED BY <1>1, Inductive, PTL

\* The entries on disk are in order of modification, in every behaviour.
LEMMA RecencyInv == Spec => []Recency(disk, older)
<1>1. Init => Recency(disk, older)
  <2> SUFFICES ASSUME Init PROVE Recency(disk, older)
    OBVIOUS
  <2>1. disk = [h \in Hash |-> NoEntry] /\ older = {} /\ Entries(disk) = {}
    BY DEF Init, Entries, NoEntry
  <2>2. \A h \in Hash : disk[h].size = 0
    BY <2>1 DEF NoEntry
  <2> QED BY <2>1, <2>2, FS_EmptySet DEF Recency
<1>2. IInv /\ Recency(disk, older) /\ [Next]_vars => Recency(disk, older)'
  <2> SUFFICES ASSUME IInv, Recency(disk, older), [Next]_vars PROVE Recency(disk', older')
    OBVIOUS
  <2>1. CASE Next
    BY <2>1, RecencyNext DEF IInv
  <2>2. CASE UNCHANGED vars
    BY <2>2 DEF vars
  <2> QED BY <2>1, <2>2
<1> QED BY <1>1, <1>2, Inductive, PTL DEF Spec

\* docs/worker.md:243, for every directory and budget: a prune takes the least recently
\* used entries that are not active, as many as it has to and none more.
THEOREM PrunesLru == Spec => PrunesLeastRecent
<1>1. IInv /\ Recency(disk, older) /\ [Next]_vars => [\A s \in Session : PrunesRight(s)]_vars
  <2> SUFFICES ASSUME TypeOK, Recency(disk, older), Next, NEW s \in Session PROVE PrunesRight(s)
    BY DEF IInv
  <2>1. CASE ses'[s].pc # ses[s].pc /\ ses'[s].pc \in {"trim", "retrim"}
    BY <2>1, OnlyTouchPrunes, TouchPrunesRight
  <2>2. CASE ~(ses'[s].pc # ses[s].pc /\ ses'[s].pc \in {"trim", "retrim"})
    BY <2>2 DEF PrunesRight
  <2> QED BY <2>1, <2>2
<1>2. Spec => [][\A s \in Session : PrunesRight(s)]_vars
  BY <1>1, Inductive, RecencyInv, PTL DEF Spec
<1> QED BY <1>2 DEF PrunesLeastRecent, PrunesRight
=============================================================================
