--------------------------- MODULE MCTorrentCache ---------------------------
(***************************************************************************)
(* TorrentCache for TLC.                                                   *)
(***************************************************************************)
EXTENDS TorrentCache, TLC

Symmetry == Permutations(Session) \cup Permutations(Hash)

\* One answer at a time is on its way, and an entry with resume data is alone in
\* the cache; one torrent is had twice, and then the others are no longer claimed.
MCNext ==
    /\ Next
    /\ Cardinality(asked') + Len(alerts') <= 1
    /\ \A h \in Hash : AnswerResumeData(h, TRUE) => Entries(disk) = {h}
    /\ \A h \in Hash : disk'[h].resume # NoHash => Entries(disk') = {h}
    /\ Cardinality(shared') <= 1
    /\ shared # {} => \A s \in Session, h \in Hash \ shared : ~Begin(s, h)

MCSpec == Init /\ [][MCNext]_vars

\* libtorrent always answers, and in time: a save that times out has lost its
\* answer to another.  Nothing is pruned, restarted or shared.
PromptNext ==
    /\ Next
    /\ \A h \in Hash : ~AnswerResumeData(h, FALSE)
    /\ \A s \in Session :
          AnswerTimesOut(s) => /\ ses[s].hash \notin asked
                               /\ \A i \in DOMAIN alerts : alerts[i].hash # ses[s].hash
    /\ ~WorkerRestarts /\ shared' = {}

PromptSpec == Init /\ [][PromptNext]_vars

\* The hash and handle of a session matter only while it has them in hand.
View == <<memory, disk, {p \in older : disk[p[1]].there /\ disk[p[2]].there}, shared, caught,
          [s \in Session |->
             IF ses[s].pc = "idle" THEN <<>>
             ELSE IF ses[s].pc \in {"between", "trim"} THEN <<ses[s].pc, ses[s].hash, ses[s].victims>>
             ELSE <<ses[s]>>]>>
=============================================================================
