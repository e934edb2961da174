CONSTANTS
    t1 = t1
    t2 = t2
    Torrent = {t1, t2}
    Slot = {s1, s2}
    NoTorrent = NoTorrent
    IdOrder <- ByName
    Target = 2
    FailureLimit = 2
    LeaseCovers = FALSE
    Wide = 1
    Narrow = 3
    Kinds2 = {"succeeded", "sparse"}
SPECIFICATION MCSpec
SYMMETRY Slots
INVARIANTS TypeOK SoleSession SessionOwnsClaim CompleteIsFull FailureBudget
PROPERTIES LateWritesAreDropped FailuresCountOnce ImplementsQueue
CHECK_DEADLOCK FALSE
