---------------------------- MODULE ActorIdentity ----------------------------
(***************************************************************************)
(* Who is on a torrent's frames: faces are clustered, the main clusters are *)
(* matched with the known actors, and actors keep exemplars (actor/         *)
(* selection.py, identity.py, evaluation.py).                              *)
(*                                                                         *)
(* An embedding is a point of an arc, where cosine similarity falls with    *)
(* the distance and a normalized mean is the mean point; a threshold on     *)
(* similarity is a largest distance.  Faces come best first, the order      *)
(* every step sorts them into.  How the worker stores actors is in          *)
(* ActorCatalog.  An operator named ..._Fault is a seeded fault and not     *)
(* part of the model.                                                       *)
(***************************************************************************)
EXTENDS Integers, Sequences, SequencesExt, FiniteSetsExt, Sequencing

CONSTANTS
    Torrent,
    Frame,          \* frames of a torrent
    Arc,            \* embeddings are 0 .. Arc
    Quality,        \* quality scores are 1 .. Quality
    MaxFaces,       \* bound: faces found on a torrent
    MaxActors,      \* bound: actors
    ClusterWithin,  \* within_torrent_cosine_threshold
    CandidateWithin,\* actor_candidate_cosine_threshold
    MatchWithin,    \* actor_match_cosine_threshold
    AverageWithin,  \* actor_match_average_cosine_threshold
    Margin,         \* actor_match_ambiguity_margin
    MinFrames,      \* min_cluster_distinct_frames
    MaxMain,        \* max_main_actors_per_torrent
    PerActor,       \* max_exemplars_per_actor
    PerTorrent      \* max_exemplars_per_torrent

ASSUME IdentityAssumption ==
    /\ IsFiniteSet(Torrent)
    /\ {Arc, ClusterWithin, CandidateWithin, MatchWithin, AverageWithin} \subseteq Nat
    /\ {Quality, MaxFaces, MaxActors, Margin, MinFrames, MaxMain, PerActor, PerTorrent}
         \subseteq Nat \ {0}

VARIABLES
    actors,     \* _actors: the exemplars of each, in the order they were made
    assigned    \* systemActorIds of each torrent, <<>> for none yet

vars == <<actors, assigned>>

Face == [frame : Frame, point : 0 .. Arc, quality : 1 .. Quality]

Exemplar == [torrent : Torrent, point : 0 .. Arc, quality : 1 .. Quality]

TypeOK ==
    /\ actors \in Seq(Seq(Exemplar) \ {<<>>})
    /\ assigned \in [Torrent -> Seq(DOMAIN actors)]
    /\ \A t \in Torrent : IsInjective(assigned[t])

Init == actors = <<>> /\ assigned = [t \in Torrent |-> <<>>]
-----------------------------------------------------------------------------
(***************************************************************************)
(* Embeddings.                                                             *)
(***************************************************************************)

Away(a, b) == IF a < b THEN b - a ELSE a - b

Total(s, F(_)) == Folded(LAMBDA sum, x : sum + F(x), 0, s)

Points(s) == Total(s, LAMBDA x : x.point)

Qualities(s) == Total(s, LAMBDA x : x.quality)

\* How far the means of two sequences are apart, times both their lengths.
MeansApart(s, u) == Away(Points(s) * Len(u), Points(u) * Len(s))
-----------------------------------------------------------------------------
(***************************************************************************)
(* cluster_observations and select_main_clusters.                          *)
(***************************************************************************)

\* A face joins the first of the clusters whose mean is nearest, if near enough.
Joined(clusters, face) ==
    LET Apart(i) == MeansApart(clusters[i], <<face>>)      \* times Len(clusters[i])
        near     == {i \in DOMAIN clusters : Apart(i) <= ClusterWithin * Len(clusters[i])}
        Nearer(i, j) == Apart(i) * Len(clusters[j]) < Apart(j) * Len(clusters[i])
        best     == CHOOSE i \in near : \A j \in near \ {i} :
                       Nearer(i, j) \/ (~Nearer(j, i) /\ i < j)
    IN IF near = {} THEN Append(clusters, <<face>>)
       ELSE [clusters EXCEPT ![best] = Append(@, face)]

Clusters(faces) == Folded(Joined, <<>>, faces)

Frames(c) == Cardinality({c[i].frame : i \in DOMAIN c})

\* The order of two clusters by frames, then mean quality, then size.
Outranks(c, d) ==
    LET q == Qualities(c) * Len(d) - Qualities(d) * Len(c) IN
    \/ Frames(c) > Frames(d)
    \/ Frames(c) = Frames(d) /\ q > 0
    \/ Frames(c) = Frames(d) /\ q = 0 /\ Len(c) > Len(d)

Ranked(clusters) ==
    LET Before(i, j) == \/ Outranks(clusters[i], clusters[j])
                        \/ ~Outranks(clusters[j], clusters[i]) /\ i < j
        order == Sorted(DOMAIN clusters, Before)
    IN [k \in DOMAIN clusters |-> clusters[order[k]]]

\* Enough frames; not much rarer (3/4) nor worse (9/10) than the first.
MainClusters(clusters) ==
    LET ranked  == Ranked(Passing(clusters, LAMBDA c : Frames(c) >= MinFrames))
        Main(c) == LET d == ranked[1] IN
                   /\ 4 * Frames(c) >= 3 * Frames(d)
                   /\ 10 * Qualities(c) * Len(d) >= 9 * Qualities(d) * Len(c)
        main    == Passing(ranked, Main)
    IN SubSeq(main, 1, Min({Len(main), MaxMain}))
-----------------------------------------------------------------------------
(***************************************************************************)
(* InMemoryActorIndex.                                                     *)
(***************************************************************************)

\* The distance of a face to the nearest exemplar of an actor.
Nearest(face, exemplars) ==
    Min({Away(face.point, exemplars[i].point) : i \in DOMAIN exemplars})

Distances(c, exemplars) == Total(c, LAMBDA face : Nearest(face, exemplars))

IsCandidate(c, exemplars) ==
    /\ MeansApart(c, exemplars) <= CandidateWithin * Len(c) * Len(exemplars)
    /\ 2 * Cardinality({i \in DOMAIN c : Nearest(c[i], exemplars) <= MatchWithin}) >= Len(c)
    /\ Distances(c, exemplars) <= AverageWithin * Len(c)

\* Actor i fits the cluster better than j, by the margin.
Clear(c, known, i, j) ==
    Distances(c, known[j]) - Distances(c, known[i]) >= Margin * Len(c)

\* _match: the actors the cluster may be, reduced to one unless the best two are
\* too close.
Matches(c, known) ==
    LET candidates == {i \in DOMAIN known : IsCandidate(c, known[i])}
        clear == {i \in candidates : \A j \in candidates \ {i} : Clear(c, known, i, j)}
    IN IF clear = {} THEN candidates ELSE clear

OfTorrent(exemplars, t) == Cardinality({i \in DOMAIN exemplars : exemplars[i].torrent = t})

HasShare_Fault(exemplars, t) == FALSE

\* per_torrent_count >= max_exemplars_per_torrent
HasShare(exemplars, t) == OfTorrent(exemplars, t) >= PerTorrent

IsNearDuplicate(face, exemplars) ==
    \E i \in DOMAIN exemplars : exemplars[i].point = face.point

\* The first of the exemplars of the lowest quality.
Lowest(exemplars) ==
    CHOOSE i \in DOMAIN exemplars : \A j \in DOMAIN exemplars :
        \/ exemplars[i].quality < exemplars[j].quality
        \/ exemplars[i].quality = exemplars[j].quality /\ i <= j

Improves_Fault(face, exemplars) == TRUE

Improves(face, exemplars) == face.quality > exemplars[Lowest(exemplars)].quality

\* _retain_exemplars.  When the torrent has its share it has it for good, so
\* leaving the loop and passing over the remaining faces are the same.
Retained(exemplars, t, c) ==
    LET Keep(kept, face) ==
          LET new == [torrent |-> t, point |-> face.point, quality |-> face.quality] IN
          IF HasShare(kept, t) \/ IsNearDuplicate(face, kept) THEN kept
          ELSE IF Len(kept) < PerActor THEN Append(kept, new)
          ELSE IF Improves(face, kept) THEN [kept EXCEPT ![Lowest(kept)] = new]
          ELSE kept
    IN Folded(Keep, exemplars, c)

Listed_Fault(ids, a) == Append(ids, a)

\* An actor matched by several clusters is listed once.
Listed(ids, a) == IF a \in Range(ids) THEN ids ELSE Append(ids, a)

\* assign, for one cluster: a new actor, nobody, or the actor matched.
Assign(t, result, c) ==
    LET matches == Matches(c, result.actors)
        a       == CHOOSE i \in matches : TRUE
    IN IF matches = {}
       THEN [actors |-> Append(result.actors, Retained(<<>>, t, c)),
             ids    |-> Append(result.ids, Len(result.actors) + 1)]
       ELSE IF Cardinality(matches) > 1 THEN result
       ELSE [actors |-> [result.actors EXCEPT ![a] = Retained(@, t, c)],
             ids    |-> Listed(result.ids, a)]

Assignment(t, clusters) ==
    Folded(LAMBDA result, c : Assign(t, result, c), [actors |-> actors, ids |-> <<>>], clusters)

\* The worker analyses a torrent, for the first time or again.
Analyse(t, clusters) ==
    LET result == Assignment(t, clusters) IN
    /\ Len(result.actors) <= MaxActors
    /\ actors' = result.actors
    /\ assigned' = [assigned EXCEPT ![t] = result.ids]

\* Faces best first, whatever the detector found.
Findings == {s \in SeqOf(Face, MaxFaces) :
                \A i \in 1 .. Len(s) - 1 : s[i].quality >= s[i + 1].quality}

\* What the index looks at in a cluster.
Seen(c) == [i \in DOMAIN c |-> [point |-> c[i].point, quality |-> c[i].quality]]

Analyses ==
    {LET main == MainClusters(Clusters(faces)) IN [k \in DOMAIN main |-> Seen(main[k])] :
        faces \in Findings}

Next == \E t \in Torrent, clusters \in Analyses : Analyse(t, clusters)

Spec == Init /\ [][Next]_vars
-----------------------------------------------------------------------------
(***************************************************************************)
(* evaluation.py: actors against the people known to be on the torrents.   *)
(***************************************************************************)

Primary(t) == assigned[t][1]

Missed == {t \in Torrent : assigned[t] = <<>>}

FalseMerges_Fault(truth) == {}

FalseMerges(truth) ==
    {a \in DOMAIN actors :
        Cardinality({truth[t] : t \in {u \in Torrent \ Missed : Primary(u) = a}}) > 1}

Splits(truth) ==
    {p \in Range(truth) :
        Cardinality({Primary(t) : t \in {u \in Torrent \ Missed : truth[u] = p}}) > 1}

Passed(truth) == Missed = {} /\ FalseMerges(truth) = {} /\ Splits(truth) = {}
-----------------------------------------------------------------------------
(***************************************************************************)
(* Properties.                                                             *)
(***************************************************************************)

\* docs/data-model.md:70: an actor keeps few exemplars, fewer of one torrent, and
\* no two alike, whatever is analysed and how often, although a replacement may
\* take an exemplar of the very torrent it counts.
ExemplarsCapped ==
    \A a \in DOMAIN actors :
        /\ Len(actors[a]) <= PerActor
        /\ \A t \in Torrent : OfTorrent(actors[a], t) <= PerTorrent
        /\ \A i, j \in DOMAIN actors[a] : actors[a][i].point = actors[a][j].point => i = j

\* No analysis costs an actor evidence: at every quality it has at least as many
\* exemplars of that quality or better as before.
EvidenceImproves ==
    [][\A a \in DOMAIN actors, q \in 1 .. Quality :
         LET Good(s) == Cardinality({i \in DOMAIN s : s[i].quality >= q})
         IN Good(actors'[a]) >= Good(actors[a])]_vars

\* An evaluation passes exactly when the first actors of the torrents divide them
\* as the people do.
EvaluationIsPartition ==
    \A truth \in [Torrent -> Torrent] :
        Passed(truth) <=>
          /\ Missed = {}
          /\ \A t, u \in Torrent : truth[t] = truth[u] <=> Primary(t) = Primary(u)
=============================================================================
