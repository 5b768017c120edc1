CONSTANTS
    MaxUint = 12
    RawIndexes <- MCRawIndexes
    RawAccounts <- MCRawAccounts
    RawAmounts <- MCRawAmounts
    MaxClaims = 2
    ClaimLists <- MCClaimLists
    EpochClaims <- MCEpochClaims
    PublicationDelay = 1
    ClawbackDelay = 1
    Windows <- MCWindows
    MaxTime = 3
    MaxForced = 1
    Issuers = {"i1", "i2"}
    Payloads <- MCPayloads
    content1 = content1  content2 = content2  content3 = content3
    ZeroContent = "zero"
    MaxRecords = 3
    Runs = {"r1", "r2"}
    MaxNonceUsed = 6
SPECIFICATION MCSpec
SYMMETRY Symmetry
INVARIANTS
    FixtureIsFaithful
    BooksBalance
    
    PreflightHolds
    RegistryAnswersHold
    
PROPERTIES
    EndedStaysEnded
CHECK_DEADLOCK FALSE
