CONSTANTS
    Session = {s1, s2}
    Hash = {h1, h2, h3}
    NoHash = NoHash
    Full = 1
    Budget = 1
    MaxHandles = 3
SPECIFICATION MCSpec
VIEW View
SYMMETRY Symmetry
INVARIANTS TypeOK  HandleIsLive ActiveEntryKept
PROPERTY PrunesLeastRecent
