CONSTANTS
    r1 = r1  r2 = r2  r3 = r3
    alice = alice  bob = bob  carol = carol
    k1 = k1  k2 = k2  k3 = k3
    s1 = s1
    h1 = h1  h2 = h2
    Ids = {r1, r2, r3}
    NoId = NoId
    Addresses = {alice}
    ClientKeys = {k1, k2, k3}
    Signers = {}
    Submissions = {s1}
    NoSubmission = NoSubmission
    Handlers = {h1, h2}
    MaxTime = 2
    DayLength = 3
    Cooldown = 1
    DailyCap = 2
    Amount = 2
    Budget = 8
    QueueCapacity = 1
    MaxJournal = 0
    MaxIOErrors = 0
    MaxCrashes = 1
SPECIFICATION Spec
SYMMETRY Symmetry
INVARIANTS
    PolicyRespected
