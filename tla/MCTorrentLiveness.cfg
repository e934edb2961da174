CONSTANTS
    t1 = t1
    t2 = t2
    Torrent = {t1, t2}
    Slot = {s1}
    NoTorrent = NoTorrent
    IdOrder <- ByName
    Target = 2
    FailureLimit = 2
    LeaseCovers = TRUE
    Wide = 1
    Narrow = 0
    Kinds2 = {"succeeded", "partial", "sparse", "permanent", "external"}
SPECIFICATION MCFairSpec
PROPERTIES EveryTorrentIsServed OrphansAreRepaired
CHECK_DEADLOCK FALSE
