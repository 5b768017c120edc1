CONSTANTS
    r1 = r1  r2 = r2  s1 = s1  s2 = s2  s3 = s3  a1 = a1  a2 = a2
    NoId = NoId  Reserve = Reserve
    FirstSigner = s1
    Ids = {r1, r2}
    Signers = {s1, s2}
    Admins = {}
    Versions = {1, 2}
    MaxNonce = 1
    MaxDrops = 0
    MaxCrashes = 1
SPECIFICATION Spec
INVARIANTS
    JournaledBeforeBroadcast
    ConfirmedMeansFunded
PROPERTIES
    AbandonedOnlyWhenDead
CHECK_DEADLOCK FALSE
