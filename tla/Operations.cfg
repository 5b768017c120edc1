CONSTANTS
    p1 = p1  p2 = p2
    Payloads = {p1, p2}
    MaxAppends = 4
    MaxErrors = 2
    MaxCrashes = 2
    s1 = s1  s2 = s2
    Signers = {s1, s2}
    FirstSigner = s1
    ErrorRateWindow = 2
    ErrorRateTripCount = 2
    RPCTripAfter = 2
    HaltBelow = 1
    Budget = 2
    HotBalance = 2
    Refill = 1
    MaxHistory = 3
    MaxRefills = 1
    c1 = c1  c2 = c2   denied = denied  allowed = allowed
    n1 = n1  n2 = n2
    Clients = {c1, c2, denied, allowed}
    Subnets = {n1, n2}
    SubnetOf <- MCSubnetOf
    Denylist = {denied}
    Allowlist = {allowed}
    PerIPBurst = 2
    PerIPRefillSeconds = 3
    SubnetBurst = 3
    SubnetRefillSeconds = 2
    MaxTime = 6
    MaxStep = 2
    Sessions <- MCSessions
    Recorded <- MCRecorded
    Advance = 2
    Margin = 1
    MaxHeights <- MCMaxHeights
    MaxForked = 1
    h1 = h1  h2 = h2  k1 = k1  k2 = k2  b1 = b1  b2 = b2
    Homes = {h1, h2}
    FirstHome = h1
    NoHome = NoHome
    Keys = {k1, k2}
    Contents = {b1, b2}
    Unsigned = Unsigned
    MaxSignHeight = 1
    MaxRound = 0
    Missing = Missing  Torn = Torn
    Units = {"u1", "u2"}
    Ventures <- MCVentures
    Validators <- MCValidators
    Archives = {"archive"}
    Absent = Absent
    MaxBlocks = 2
    MaxJobs = 3
    MaxRenameFaults = 2
    Recipients = {"alice"}
    Callers = {"x", "y"}
    MinimumAmount = 1
    MaximumAmountPerRequest = 2
    MaximumAmountPerWindow = 3
    AddressWindow = 3
    Cooldown = 1
    MaxClock = 5
    MaxAsked = 5
SPECIFICATION MCSpec
INVARIANTS
    JournalHolds
    BreakersAreExact
    RatesHold
    PassMeansOneHistory
    ReportsStand
    
    NoDoubleSign
    GenerationIsChecked
    BundlesAreTrue
    RecoveryHolds
    LocalLimitsHold
PROPERTIES
    NoSilentLoss
CHECK_DEADLOCK FALSE
