CONSTANTS
    r1 = r1  r2 = r2  s1 = s1  s2 = s2  s3 = s3  a1 = a1  a2 = a2
    NoId = NoId  Reserve = Reserve
    FirstSigner = s1
    Ids = {r1}
    Signers = {s1}
    Admins = {}
    Versions = {1, 2}
    MaxNonce = 1
    MaxDrops = 0
    MaxCrashes = 0
SPECIFICATION Spec
INVARIANTS
    FundedAtMostOnce
CHECK_DEADLOCK FALSE
