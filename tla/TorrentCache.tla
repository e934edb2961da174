---------------------------- MODULE TorrentCache ----------------------------
(***************************************************************************)
(* LibtorrentTorrentClient: the torrent handles of one shared libtorrent   *)
(* session, the resume data and the cache directory (torrent/client.py).   *)
(*                                                                         *)
(* Scheduler sessions download in threads of their own; a step is what one *)
(* thread does between two points at which another can get in between.     *)
(* The answers of save_resume_data() arrive in the one alert queue of the  *)
(* libtorrent session, of which pop_alerts() takes everything.  libtorrent *)
(* is external: it is here as far as client.py uses it.  What an attempt   *)
(* makes of its pieces is in PreviewSession.  An operator named ..._Fault  *)
(* is a seeded fault and not part of the model.                            *)
(***************************************************************************)
EXTENDS Integers, Sequences, FiniteSetsExt

CONSTANTS
    Session,    \* slots of the scheduler
    Hash,       \* info hashes
    NoHash,
    Full,       \* the size of a torrent's data
    Budget,     \* torrent_cache_max_bytes
    MaxHandles  \* bound: handles of one torrent somebody holds at once

ASSUME CacheAssumption == /\ NoHash \notin Hash
                          /\ Full \in Nat \ {0} /\ Budget \in Nat /\ MaxHandles \in Nat

VARIABLES
    lt,         \* libtorrent: the live handle of a hash, 0 for none
    asked,      \* libtorrent: hashes whose resume data it has yet to answer with
    alerts,     \* libtorrent: the alert queue
    active,     \* _active_torrents: the handle retained for a hash, 0 for none
    kept,       \* _ACTIVE_CACHE_ENTRIES
    disk,       \* the entries of the cache directory
    older,      \* their order by modification time
    ses,        \* the sessions
    shared,     \* history: hashes two sessions had at once
    caught      \* history: hashes registered while a prune had them on its list

memory == <<lt, asked, alerts, active, kept>>
vars == <<lt, asked, alerts, active, kept, disk, older, ses, shared, caught>>

Handle == 0 .. MaxHandles

Entry == [there : BOOLEAN, size : 0 .. Full, resume : Hash \cup {NoHash}]

NoEntry == [there |-> FALSE, size |-> 0, resume |-> NoHash]

SessionState == [pc        : {"idle", "between", "trim", "run", "save", "await", "retouch",
                              "retrim", "remove"},
                 hash      : Hash,
                 handle    : Handle,
                 victims   : SUBSET Hash,   \* entries its prune has yet to delete
                 releasing : BOOLEAN]       \* it saves in release(), not in download()

TypeOK ==
    /\ lt \in [Hash -> Handle]
    /\ asked \subseteq Hash
    /\ alerts \in Seq([hash : Hash, ok : BOOLEAN])
    /\ active \in [Hash -> Handle]
    /\ kept \subseteq Hash
    /\ disk \in [Hash -> Entry]
    /\ older \subseteq Hash \X Hash
    /\ ses \in [Session -> SessionState]
    /\ \A s \in Session : ses[s].pc \notin {"idle", "between", "trim"} => ses[s].handle # 0
    /\ shared \subseteq Hash /\ caught \subseteq Hash

Init ==
    /\ lt = [h \in Hash |-> 0]
    /\ asked = {} /\ alerts = <<>>
    /\ active = [h \in Hash |-> 0] /\ kept = {}
    /\ disk = [h \in Hash |-> NoEntry] /\ older = {}
    /\ \E h \in Hash : ses = [s \in Session |-> [pc |-> "idle", hash |-> h, handle |-> 0,
                                                 victims |-> {}, releasing |-> FALSE]]
    /\ shared = {} /\ caught = {}

Goes(s, pc) == ses' = [ses EXCEPT ![s].pc = pc]

\* h becomes the newest entry.
Newest(h) == {p \in older : p[1] # h} \cup {<<g, h>> : g \in Hash \ {h}}
-----------------------------------------------------------------------------
(***************************************************************************)
(* The cache directory.                                                    *)
(***************************************************************************)

SizeOf(S, d) == MapThenSumSet(LAMBDA h : d[h].size, S)

Preserved_Fault(own) == {own}

Preserved(own) == kept \cup {own}

Entries(d) == {h \in Hash : d[h].there}

Victims_Fault(d, o, own) ==
    LET loose     == Entries(d) \ Preserved(own)
        Before(h) == {g \in loose : <<g, h>> \in o} \cup {h}
    IN {h \in loose : SizeOf(Entries(d) \ Before(h), d) > Budget}

\* _prune_torrent_cache: the entries to delete, the oldest first until the rest
\* is within the budget.  Sizes and active entries are read at once here; the
\* deletions come later, one by one, in any order.
Victims(d, o, own) ==
    LET loose     == Entries(d) \ Preserved(own)
        Before(h) == {g \in loose : <<g, h>> \in o}
    IN {h \in loose : SizeOf(Entries(d) \ Before(h), d) > Budget}

\* _touch_cache_entry and the scan of _prune_torrent_cache.
Touch(s, h, pc) ==
    /\ disk' = [disk EXCEPT ![h].there = TRUE]
    /\ older' = Newest(h)
    /\ ses' = [ses EXCEPT ![s].pc = pc, ![s].victims = Victims(disk', older', h)]

Prune(s, v) ==
    /\ ses[s].pc \in {"trim", "retrim"}
    /\ v \in ses[s].victims
    /\ disk' = [disk EXCEPT ![v] = NoEntry]
    /\ ses' = [ses EXCEPT ![s].victims = @ \ {v}]
    /\ UNCHANGED <<memory, older, shared, caught>>
-----------------------------------------------------------------------------
(***************************************************************************)
(* _download_sync: touch and prune, add the torrent or reuse the retained  *)
(* handle, wait for data, save, touch and prune again, retain the handle.  *)
(***************************************************************************)

\* The scheduler claims a torrent.
Begin(s, h) ==
    /\ ses[s].pc = "idle"
    /\ ses' = [ses EXCEPT ![s].pc = "between", ![s].hash = h]
    /\ shared' = IF \E q \in Session : ses[q].pc # "idle" /\ ses[q].hash = h
                 THEN shared \cup {h} ELSE shared
    /\ UNCHANGED <<memory, disk, older, caught>>

StartDownload(s) ==
    /\ ses[s].pc = "between"
    /\ Touch(s, ses[s].hash, "trim")
    /\ UNCHANGED <<memory, shared, caught>>

Reused_Fault(h) == 0

\* _get_active_torrent
Reused(h) == active[h]

\* A new handle is unlike every handle of the torrent that somebody still has.
Fresh(h) ==
    (1 .. MaxHandles) \ ({active[h]} \cup {ses[s].handle : s \in {q \in Session : ses[q].hash = h}})

\* add_torrent() of a torrent libtorrent has returns the handle it has.
Added(h) == IF lt[h] # 0 THEN lt[h] ELSE CHOOSE n \in Fresh(h) : TRUE

Obtained_Fault(h) == Reused(h)

Obtained(h) == IF Reused(h) # 0 THEN Reused(h) ELSE Added(h)

\* libtorrent refuses resume data of another info hash; the file is unlinked
\* and the torrent added without.
Loaded(h) ==
    IF disk[h].resume \in {h, NoHash} THEN disk ELSE [disk EXCEPT ![h].resume = NoHash]

AddTorrent(s) ==
    LET h == ses[s].hash
        n == Obtained(h)
        listed == \E q \in Session : h \in ses[q].victims
    IN
    /\ ses[s].pc = "trim" /\ ses[s].victims = {}
    /\ Reused(h) = 0 /\ lt[h] = 0 => Fresh(h) # {}     \* the bound
    /\ IF Reused(h) # 0
       THEN UNCHANGED <<lt, disk>>
       ELSE /\ lt' = [lt EXCEPT ![h] = n]
            /\ disk' = Loaded(h)
    /\ kept' = kept \cup {h}
    /\ ses' = [ses EXCEPT ![s].pc = "run", ![s].handle = n]
    /\ caught' = IF listed \/ ~disk[h].there THEN caught \cup {h} ELSE caught
    /\ UNCHANGED <<asked, alerts, active, older, shared>>

\* The torrent cannot be parsed or added: download() raises before its try.
AddRaises(s) ==
    /\ ses[s].pc = "trim" /\ ses[s].victims = {}
    /\ Goes(s, "between")
    /\ UNCHANGED <<memory, disk, older, shared, caught>>

\* _collect_relevant_alerts keeps tracker and DHT messages only.
CollectAlerts(s) ==
    /\ ses[s].pc = "run"
    /\ alerts # <<>>
    /\ alerts' = <<>>
    /\ UNCHANGED <<lt, asked, active, kept, disk, older, ses, shared, caught>>

\* The pieces are complete, progress stalled, time is up, or something raised:
\* each way out has collected the alerts once more and leads to the finally.
DownloadEnds(s) ==
    /\ ses[s].pc = "run"
    /\ alerts' = <<>>
    /\ ses' = [ses EXCEPT ![s].pc = "save", ![s].releasing = FALSE]
    /\ UNCHANGED <<lt, asked, active, kept, disk, older, shared, caught>>

FinishDownload(s) ==
    /\ ses[s].pc = "retouch"
    /\ Touch(s, ses[s].hash, "retrim")
    /\ UNCHANGED <<memory, shared, caught>>

\* _retain_active_torrent
Retain(s) ==
    /\ ses[s].pc = "retrim" /\ ses[s].victims = {}
    /\ active' = [active EXCEPT ![ses[s].hash] = ses[s].handle]
    /\ ses' = [ses EXCEPT ![s].pc = "between", ![s].handle = 0]
    /\ UNCHANGED <<lt, asked, alerts, kept, disk, older, shared, caught>>
-----------------------------------------------------------------------------
(***************************************************************************)
(* _save_resume_data, and release() at the end of a session.               *)
(***************************************************************************)

Saved(s) == Goes(s, IF ses[s].releasing THEN "remove" ELSE "retouch")

\* save_resume_data() raises on a handle that was removed.
AskResumeData(s) ==
    LET h == ses[s].hash IN
    /\ ses[s].pc = "save"
    /\ IF lt[h] = ses[s].handle
       THEN asked' = asked \cup {h} /\ Goes(s, "await")
       ELSE Saved(s) /\ UNCHANGED asked
    /\ UNCHANGED <<lt, alerts, active, kept, disk, older, shared, caught>>

\* The first answer in the queue is taken for one's own, whose ever it is, and
\* what else was in the queue is gone.
TakeAnswer(s) ==
    LET h == ses[s].hash
        a == Head(alerts)
        written == a.ok /\ disk[h].there
    IN
    /\ ses[s].pc = "await"
    /\ alerts # <<>>
    /\ alerts' = <<>>
    /\ disk' = IF written THEN [disk EXCEPT ![h].resume = a.hash] ELSE disk
    /\ older' = IF written /\ disk[h].resume = NoHash THEN Newest(h) ELSE older
    /\ Saved(s)
    /\ UNCHANGED <<lt, asked, active, kept, shared, caught>>

\* timeout_seconds passed.
AnswerTimesOut(s) ==
    /\ ses[s].pc = "await"
    /\ Saved(s)
    /\ UNCHANGED <<memory, disk, older, shared, caught>>

Taken_Fault(h) == active

\* _take_active_torrent: whoever retained it.
Taken(h) == [active EXCEPT ![h] = 0]

Release(s) ==
    LET h == ses[s].hash IN
    /\ ses[s].pc = "between"
    /\ active' = Taken(h)
    /\ ses' = [ses EXCEPT ![s].pc = IF active[h] = 0 THEN "idle" ELSE "save",
                          ![s].handle = active[h], ![s].releasing = TRUE]
    /\ UNCHANGED <<lt, asked, alerts, kept, disk, older, shared, caught>>

Unregistered_Fault(h) == kept

Unregistered(h) == kept \ {h}

\* _remove_torrent, _unregister_active_cache_entry
RemoveTorrent(s) ==
    LET h == ses[s].hash IN
    /\ ses[s].pc = "remove"
    /\ lt' = IF lt[h] = ses[s].handle THEN [lt EXCEPT ![h] = 0] ELSE lt
    /\ kept' = Unregistered(h)
    /\ caught' = caught \ {h}
    /\ ses' = [ses EXCEPT ![s].pc = "idle", ![s].handle = 0]
    /\ UNCHANGED <<asked, alerts, active, disk, older, shared>>
-----------------------------------------------------------------------------
(***************************************************************************)
(* libtorrent and the process.                                             *)
(***************************************************************************)

\* A piece arrives; a directory that was deleted is made again.
PieceArrives(h) ==
    /\ lt[h] # 0
    /\ disk[h].size < Full
    /\ disk' = [disk EXCEPT ![h].there = TRUE, ![h].size = @ + 1]
    /\ older' = IF disk[h].size = 0 THEN Newest(h) ELSE older
    /\ UNCHANGED <<memory, ses, shared, caught>>

AnswerResumeData(h, ok) ==
    /\ h \in asked
    /\ asked' = asked \ {h}
    /\ alerts' = Append(alerts, [hash |-> h, ok |-> ok])
    /\ UNCHANGED <<lt, active, kept, disk, older, ses, shared, caught>>

\* The process ends or is replaced; the cache directory stays.
WorkerRestarts ==
    /\ lt' = [h \in Hash |-> 0]
    /\ asked' = {} /\ alerts' = <<>>
    /\ active' = [h \in Hash |-> 0] /\ kept' = {}
    /\ ses' = [s \in Session |-> [ses[s] EXCEPT !.pc = "idle", !.handle = 0,
                                                  !.victims = {}]]
    /\ shared' = {} /\ caught' = {}
    /\ UNCHANGED <<disk, older>>
-----------------------------------------------------------------------------
SessionStep(s) ==
    \/ \E h \in Hash : Begin(s, h) \/ Prune(s, h)
    \/ StartDownload(s) \/ AddTorrent(s) \/ AddRaises(s)
    \/ CollectAlerts(s) \/ DownloadEnds(s) \/ FinishDownload(s) \/ Retain(s)
    \/ AskResumeData(s) \/ TakeAnswer(s) \/ AnswerTimesOut(s)
    \/ Release(s) \/ RemoveTorrent(s)

Next == \/ \E s \in Session : SessionStep(s)
        \/ \E h \in Hash : PieceArrives(h)
        \/ \E h \in Hash, ok \in BOOLEAN : AnswerResumeData(h, ok)
        \/ WorkerRestarts

Spec == Init /\ [][Next]_vars
-----------------------------------------------------------------------------
(***************************************************************************)
(* Properties.                                                             *)
(***************************************************************************)

Hold(h) == {s \in Session : ses[s].pc # "idle" /\ ses[s].hash = h}

\* client.py:65: "A torrent handle retained only while its scheduler session owns
\* a slot."  When no session has a torrent, libtorrent, the table of retained
\* handles and the list of active entries have let go of it too, unless two
\* sessions had it at once.
ReleasedWithSlot ==
    \A h \in Hash \ shared : Hold(h) = {} => lt[h] = 0 /\ active[h] = 0 /\ h \notin kept

\* A session waits for data on a handle libtorrent still has, over all its
\* attempts: nobody else removed it, unless two sessions had the torrent.
HandleIsLive ==
    \A s \in Session : ses[s].pc = "run" /\ ses[s].hash \notin shared =>
        lt[ses[s].hash] = ses[s].handle

\* tests/preview/test_torrent_cache.py:124: pruning "preserves_all_registered_
\* active_entries".  An active entry stays on disk whichever session prunes; the
\* only exception is one that a prune had listed, or deleted, before the entry
\* was registered.
ActiveEntryKept == \A h \in kept \ caught : disk[h].there

\* docs/worker.md:243: "The cache uses an LRU budget".  A prune lists the least
\* recently used entries that are not active, enough to come within the budget
\* if they suffice, and none that it could have spared.
PrunesLeastRecent ==
    [][\A s \in Session :
         LET V == ses'[s].victims
             loose == Entries(disk') \ (kept \cup {ses'[s].hash})
             Rest(S) == SizeOf(Entries(disk') \ S, disk')
         IN ses'[s].pc # ses[s].pc /\ ses'[s].pc \in {"trim", "retrim"} =>
            /\ V \subseteq loose
            /\ \A v \in V, g \in loose \ V : <<v, g>> \in older'
            /\ Rest(V) <= Budget \/ V = loose
            /\ \A v \in V : (\A g \in V : g = v \/ <<g, v>> \in older') => Rest(V \ {v}) > Budget]_vars

\* docs/worker.md:46: a session that yields "stores libtorrent resume data,
\* releases its handle": when it is about to, the resume data of its torrent is
\* in the torrent's entry.
YieldedIsSaved ==
    \A s \in Session :
        LET h == ses[s].hash IN
        ses[s].pc = "remove" /\ h \notin shared => disk[h].resume = h
=============================================================================
