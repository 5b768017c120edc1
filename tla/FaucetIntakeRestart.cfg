CONSTANTS
    r1 = r1  r2 = r2  r3 = r3
    alice = alice  bob = bob  carol = carol
    k1 = k1  k2 = k2  k3 = k3
    s1 = s1
    h1 = h1  h2 = h2
    Ids = {r1, r2, r3}
    NoId = NoId
    Addresses = {alice, bob, carol}
    ClientKeys = {k1}
    Signers = {}
    Submissions = {s1}
    NoSubmission = NoSubmission
    Handlers = {h1, h2}
    MaxTime = 0
    DayLength = 1
    Cooldown = 1
    DailyCap = 1
    Amount = 2
    Budget = 5
    QueueCapacity = 1
    MaxJournal = 0
    MaxIOErrors = 0
    MaxCrashes = 2
SPECIFICATION Spec
SYMMETRY Symmetry
INVARIANTS
    BudgetConserved
    PendingOwnedOnce
PROPERTIES
    ImplementsLifecycle
