CONSTANTS
    Slot = {s1, s2}
    Request = {d1, d2}
    Target = 3
    MaxId = 2
SPECIFICATION MCSpec
SYMMETRY Actors
INVARIANTS TypeOK NoDanglingReference 
CHECK_DEADLOCK FALSE
