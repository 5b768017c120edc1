CONSTANTS
    r1 = r1  r2 = r2  r3 = r3
    alice = alice  bob = bob  carol = carol
    k1 = k1  k2 = k2  k3 = k3
    s1 = s1
    h1 = h1  h2 = h2
    Ids = {r1, r2}
    NoId = NoId
    Addresses = {alice, bob}
    ClientKeys = {k1}
    Signers = {}
    Submissions = {s1}
    NoSubmission = NoSubmission
    Handlers = {h1}
    MaxTime = 0
    DayLength = 1
    Cooldown = 1
    DailyCap = 1
    Amount = 2
    Budget = 4
    QueueCapacity = 1
    MaxJournal = 2
    MaxIOErrors = 1
    MaxCrashes = 1
SPECIFICATION FairSpec
INVARIANTS
    ReplayRestores
PROPERTIES
    EveryRequestSettles
