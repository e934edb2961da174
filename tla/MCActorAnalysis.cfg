CONSTANTS
    t1 = t1
    t2 = t2
    Torrent = {t1, t2}
    NoTorrent = NoTorrent
    Recipe = {r1, r2}
    Stamp = {p1}
    NoFingerprint = NoFingerprint
    MaxAttempts = 2
    MaxUpdates = 5
    Disturbances = 1
    Updates2 = 2
SPECIFICATION MCFairSpec
INVARIANTS TypeOK 
PROPERTIES StaleResultsDiscarded EveryPreviewIsAnalysed
CHECK_DEADLOCK FALSE
