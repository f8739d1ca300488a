CONSTANTS
    User = {u1, u2}
    Request = {r1, r2, r3}
    ClientId = {i1}
    Replica = {p1, p2}
    Key = {k1}
    Keyless = Keyless
    None = None
    Scope = {"openid", "email", "profile", "offline_access"}
    Asked <- AskedOnce
    Limit = 1
    MaxEnds = 1
SPECIFICATION Spec
SYMMETRY SessionSymmetry
INVARIANTS TypeOK FoundWhileMapped LimitKept
PROPERTIES ActsAsChecked
CONSTRAINT SendersOnly
