CONSTANTS
    Session = {s1}
    Check = {c1, c2, c3}
    RPS = 2
    Second = 2
    MaxDelay = 1
    MaxTime = 6
SPECIFICATION Spec
SYMMETRY CheckSymmetry
INVARIANTS TypeOK BurstBounded RejectsOnlyExcess NoLeakedCounter
