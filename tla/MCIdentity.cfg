CONSTANTS
    User = {admin, u1}
    Request = {r1, r2}
    Replica = {p1, p2}
    Nobody = Nobody
    Admin = admin
    MaxFaults = 2
SPECIFICATION IdentitySpec
INVARIANTS IdentityTypeOK RetryRepairs CreatedIsWhole FailureReplacesPassword NoLockout AdminCanLogIn StuckOnlyByFault
PROPERTIES StuckStays StartsOrStuck
