CONSTANTS
    Passes = {x1, x2}
    RetryWindow = 3
    RetryCap = 2
    ReceiptCap = 1
    MaxSends = 1
    OfferCap = 2
    Cooldown = 2
    PeriodLength = 2
    MaxMailTime = 2
    MaxRuns = 2
    MaxMailFaults = 1
    MaxEvents = 1
    Requests = {x1, x2}
    Pages = {u1, u2}
    OpsCap = 2
    MaxEscalations = 1
    MaxPipeFaults = 1
    Searchers = {x1, x2}
    Threshold = 2
    HalfOpenMax = 2
    MaxAttempts = 3
    Hrefs = {"s", "a", "a/", "a#", "b", "c", "x", "n"}
    KeyOf <- MCKeyOf
    CanonOf <- MCCanonOf
    LinksOf <- MCLinksOf
    Wanted = {"s", "a", "A/", "b", "c"}
    SameSite = {"s", "a", "a/", "a#", "b", "c", "n"}
    PublicHrefs = {"s", "a", "a/", "a#", "b", "c", "x"}
    Seed = "s"
    Files = {"index", "m1", "m2", "std"}
    Children <- MCChildren
    Listed <- MCListed
    RobotsMaps <- MCRobotsMaps
    StandardMap = "std"
    CommonMaps <- MCCommonMaps
    FeedPages <- MCFeedPages
    MaxUrls = 3
    MaxJsPages = 2
    FrontierFactor = 3
    Renderers = {x1, x2}
    Slots = 1
    MaxLaunches = 4
    MaxBrowserFaults = 3
    Objects = {x1, x2}
    Batch = 2
    MaxHits = 1
    MaxStorageFaults = 1
    Deliveries = {x1, x2, x3}
    Retries = 1
    MaxRotations = 1
    Visitors = {x1, x2}
    PerMinute = 3
    PerHour = 4
    MintPerMinute = 1
    MintPerHour = 2
    FloorMinute = 1
    FloorHour = 2
    MinutesPerHour = 2
    MaxMinutes = 3
    MaxLines = 4
    MaxWords = 2
    Overlap = 1
SPECIFICATION ServicesSpec
INVARIANTS
    UploadsAgree
    ChargedAsAnswered
    MapExact
    BrowserAccounted
    DanglingIsPending
    SignedAlike
    BackstopEngages
    ChunksFaithful
PROPERTIES
    SendsAreDue
    ClosesOnProof
SYMMETRY MCSymmetry
CHECK_DEADLOCK FALSE
