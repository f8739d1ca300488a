CONSTANTS
    User = {admin, u1}
    Request = {}
    Replica = {p1, p2, p3}
    Nobody = Nobody
    Admin = admin
    MaxFaults = 1
SPECIFICATION FairSpec
PROPERTIES AllServe
