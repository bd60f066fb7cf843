SPECIFICATION Spec
CONSTANTS
    Users = {u1, u2}
    TestUsers = {u1}
    Cards = {c1, c2}
    Fingerprints = {f1, f2}
    Handlers = {h1, h2}
    NoUser = NoUser
    NoCard = NoCard
    NoFingerprint = NoFingerprint
    Limits = {1, 2}
    TestLimit = 2
    Duration = 1
    TestDuration = 2
    LeaseTerm = 1
    MaxTime = 2
    MaxLeases = 1
SYMMETRY Symmetry
INVARIANTS
    FleetWithinEarnedLimit
    OneActiveTestGrant
    LeaseFollowsEntitlement
PROPERTIES
    SpentOnce
CHECK_DEADLOCK FALSE
