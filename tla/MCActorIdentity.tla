--------------------------- MODULE MCActorIdentity ---------------------------
(***************************************************************************)
(* ActorIdentity for TLC.                                                  *)
(***************************************************************************)
EXTENDS ActorIdentity, TLC

CONSTANT MaxAnalyses    \* bound: analyses of a run, of any torrents

VARIABLE analyses       \* how many there were

Symmetry == Permutations(Torrent) \cup Permutations(Frame)

\* Three faces on the torrent that comes first, two on the next two, then one.
\* A torrent may be analysed again at any time.
Faces == IF analyses = 0 THEN 3 ELSE IF analyses <= 2 THEN 2 ELSE 1

MCInit == Init /\ analyses = 0

MCNext ==
    /\ analyses < MaxAnalyses
    /\ analyses' = analyses + 1
    /\ \E t \in Torrent, clusters \in Analyses :
          Total(clusters, Len) <= Faces /\ Analyse(t, clusters)

MCSpec == MCInit /\ [][MCNext]_<<vars, analyses>>
=============================================================================
