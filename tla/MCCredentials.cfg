\* Two programs of two threads each, two credentials of two values.
SPECIFICATION Spec
CONSTANTS
    cli = cli
    window = window
    t1 = t1
    t2 = t2
    k1 = k1
    k2 = k2
    v1 = v1
    v2 = v2
    Stump = stump
    Programs <- MCPrograms
    Threads <- MCThreads
    Keys <- MCKeys
    Values <- MCValues
SYMMETRY Alike
INVARIANTS
    Kept
