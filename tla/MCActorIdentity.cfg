CONSTANTS
    Torrent = {t1, t2, t3}
    Frame = {f1, f2}
    Arc = 3
    Quality = 2
    MaxFaces = 3
    MaxActors = 2
    ClusterWithin = 2
    CandidateWithin = 2
    MatchWithin = 2
    AverageWithin = 2
    Margin = 1
    MinFrames = 1
    MaxMain = 2
    PerActor = 3
    PerTorrent = 2
    MaxAnalyses = 5
SPECIFICATION MCSpec
SYMMETRY Symmetry
INVARIANTS TypeOK ExemplarsCapped EvaluationIsPartition
PROPERTY EvidenceImproves
CHECK_DEADLOCK FALSE
