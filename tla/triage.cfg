SPECIFICATION Spec
CONSTANTS
    t1 = t1
    t2 = t2
    scheduler = scheduler
    cli = cli
    Contracts = {t1, t2}
    Audited = {t1}
    Templates = {t2}
    Reverted = {t2}
    Scheduler = scheduler
    Manual = {cli}
    ToBlocks = {}
    WindowOf <- MCWindowOf
    FeedWindowOf <- MCFeedWindowOf
    ChunkSize = 1
    MaxRows = 1
    MaxHeight = 2
    MaxAudits = 2
    MaxFaults = 1
    None = None
CHECK_DEADLOCK FALSE
INVARIANTS
    TypeOK
    CacheIsExact
    FeedIsExact
PROPERTIES
    AuditsAreShown
