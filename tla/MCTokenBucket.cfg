CONSTANTS
    Session = {s1, s2}
    RPS = 2
    Second = 2
    MaxTime = 5
    NoBucket = NoBucket
SPECIFICATION Spec
INVARIANTS TypeOK RejectsOnlyExcess
PROPERTIES BurstBounded
