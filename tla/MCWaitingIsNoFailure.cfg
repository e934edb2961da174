CONSTANTS
    t1 = t1
    t2 = t2
    Torrent = {t1, t2}
    Slot = {s1, s2}
    NoTorrent = NoTorrent
    IdOrder <- ByName
    Target = 3
    FailureLimit = 2
    LeaseCovers = TRUE
    Wide = 1
    Narrow = 0
    Kinds2 = {"succeeded", "partial", "sparse", "permanent", "external"}
SPECIFICATION MCSpec
PROPERTY WaitingIsNoFailure
CHECK_DEADLOCK FALSE
