CONSTANTS
    Call = {c1, c2, c3}
    Server = {s1, s2}
    Uid = {u1}
    Query = {q1}
    Database = {d1}
    UidOf <- UidOneUser
    DbOf <- DbShared
    MaxVersion = 2
    NoUid = NoUid
    NoEntry = NoEntry
    NoAnswer = NoAnswer
SPECIFICATION Spec
SYMMETRY CacheSymmetry
INVARIANTS NoStaleReadAfterWrite
