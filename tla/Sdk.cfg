CONSTANTS
    c1 = c1  a1 = a1  a2 = a2
    Calls = {c1}
    RawErrors <- MCRawErrors
    Accounts = {a1, a2}
    Values = {0, 1}
    Balance = 2
    MaxNonce = 1
    MaxEdits = 1
    Networks <- MCNetworks
    Expected <- MCExpected
    EndpointErrors <- MCRawErrors
    UrlLists <- MCUrlLists
    MaxHeight = 2
    MaxReplacements = 1
    LogBlockRange = 3
    MaxBlock = 9
    Decimals = 2
    MaxAmount = 1234
    AddressBytes = 5
    Addresses <- MCAddresses
    HashDigits = 4
    Chains <- MCChains
    o1 = o1  o2 = o2  o3 = o3
    ErrorObjects = {o1, o2, o3}
    NoCause = NoCause
    Links <- MCLinks
    ChainLimit = 2
    CauseLimit = 1
    RevertDepth = 3
    MaxRetryAfterMs = 1000
    SafeCauseNames = {"Error", "TypeError", "HttpRequestError"}
    KnownErrors = {"EpochNotFound"}
    Programmes <- MCProgrammes
    Operations = 2
    Concurrency = 2
    Methods = 2
    BatchSize = 2
    MaxBlocks = 3
    MaxSourceEdits = 1
    v1 = v1  v2 = v2
    Members = {v1, v2}
    Setups <- MCSetups
    Openings = {"serving"}
    MaxTip = 2
    MaxChanges = 1
    MaxSamples = 2
SPECIFICATION MCSpec
INVARIANTS
    AttemptsAreSingle
    SentAsAuthorized
    SafeToRetryMeansUnsent
    VerdictIsTrue
    ConversionsAreExact
    
    
    
PROPERTIES
    NoLateSubmission
    TimedCallsEnd
CHECK_DEADLOCK FALSE
