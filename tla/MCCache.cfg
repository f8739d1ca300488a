CONSTANTS
    Call = {c1, c2, c3}
    Server = {s1, s2}
    Uid = {u1, u2}
    Query = {q1, q2}
    Database = {d1}
    UidOf <- UidOwn
    DbOf <- DbShared
    MaxVersion = 2
    NoUid = NoUid
    NoEntry = NoEntry
    NoAnswer = NoAnswer
SPECIFICATION Spec
SYMMETRY CacheSymmetry
INVARIANTS TypeOK ReadYourWrites OwnAnswer
