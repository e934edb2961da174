CONSTANTS
    Session = {s1, s2}
    Hash = {h1, h2}
    NoHash = NoHash
    Full = 1
    Budget = 2
    MaxHandles = 3
SPECIFICATION PromptSpec
VIEW View
SYMMETRY Symmetry
INVARIANT YieldedIsSaved
CHECK_DEADLOCK FALSE
