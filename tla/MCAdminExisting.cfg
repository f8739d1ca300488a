CONSTANTS
    User = {u1}
    Request = {r1, r2, r3}
    Replica = {}
    Nobody = Nobody
SYMMETRY RequestSymmetry
SPECIFICATION Spec
INVARIANTS ExistingUserUpdated
