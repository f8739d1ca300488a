CONSTANTS
    Call = {c1, c2, c3}
    Server = {s1, s2}
    Uid = {u1}
    Query = {q1}
    Database = {d1, d2}
    UidOf <- UidOneUser
    DbOf <- DbOwn
    MaxVersion = 2
    NoUid = NoUid
    NoEntry = NoEntry
    NoAnswer = NoAnswer
SPECIFICATION Spec
SYMMETRY CacheSymmetry
INVARIANTS OwnAnswer
