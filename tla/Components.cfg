SPECIFICATION MCSpec
CONSTANTS
    NoValue = NoValue
    Missing = Missing
    NoTime = NoTime
    TheKey = TheKey
    NoDelivery = NoDelivery
    NoCursor = NoCursor
    NoRows = NoRows
    NoEndpoint = NoEndpoint
    Absent = Absent
    Deleted = Deleted
    Wrong = Wrong
    BlankName = BlankName
    Undefined = Undefined
    LoginBrowsers = {"b1", "b2"}
    LoginIps = {"ip"}
    LoginIpOf <- OneIp
    LoginKeys = {"good", "bad"}
    LoginMaxAttempts = 2
    LoginWindowTicks = 3
    LoginTicksPerSecond = 2
    LoginMaxTime = 3
    LoginMaxSent = 2
    LoginMaxFaults = 1
    IngestChannels = {"c1", "c2"}
    IngestSlugs = {"s"}
    IngestTokens = {"t"}
    IngestEndpoints = {"e"}
    IngestRequests = {"r1", "r2"}
    IngestOwnerOf <- OneOwner
    IngestMaxBody = 1
    IngestMaxChunk = 1
    IngestMaxChanges = 2
    IngestMaxFaults = 1
    DirectoryChannels = {1, 2, 3}
    DirectorySlugs = {1, 2, 3}
    DirectoryShortSlugs = 3
    DirectoryLimit = 1
    DirectoryMaxFailures = 1
    DirectoryMaxOff = 1
    DirectoryMaxChanges = 3
    AuthTokens = {"t", "u"}
    AuthCalls = {1, 2}
    AuthMaxTime = 3
    DisableDeliveries = {"d1", "d2"}
    DisableProcessors = {"p1", "p2"}
    DisableWindow = 1
    DisablePrunable = {"open", "succeeded", "failed", "dead_lettered"}
    DisableMaxTime = 2
    PageChannels = {"A", "B"}
    PageSlugs = {"a", "b", "c"}
    PageFirst <- FirstSlug
    PageHome = "A"
    PageMaxChanges = 2
    PageMaxSaves = 1
    PageMaxEdits = 1
    PageMalformed = {"bad"}
    VerdictFirst = 1
    VerdictMaxAttempts = 3
    VerdictMaxRetries = 2
    VerdictMaxLoads = 1
    FreshMaxChanges = 2
    FreshMaxHides = 2
    FreshMaxFailures = 2
    PendDelay = 2
    PendHold = 3
    FeedBroadcasts = {1, 2, 3, 4, 5}
    FeedInitially = {1, 2, 3, 4}
    FeedLimit = 2
    FeedMaxChanges = 3
    FeedMaxLoads = 2
    RollEndpoints = {1, 2}
    BulkDeliveries = {"d1", "d2"}
    BulkMaxRetries = 3
    ReplayEndpoints = {"e1", "e2"}
    ReplayMaxAsked = 2
    ReplayMaxSwitches = 2
    EditEndpoints = {"A", "B"}
    EditValues = {1, 2}
    EditMaxChanges = 1
    EditMaxTyped = 2
    EditMaxSaves = 1
    EditMalformed = {0}
    TokenChannels = {"A", "B"}
    TokenTokens = {1, 2}
    TokenHome = "A"
    TokenFirst = {1}
    TokenMaxUpsets = 1
    ClockStamps = {"s", "t"}
    ClockTick = 2
    AdminChannels = {"A", "B"}
    AdminEndpoints = {1, 2, 3, 4}
    AdminUrls = {1, 2, 3}
    AdminUnsafe = {3}
    AdminCalls = {1, 2}
    AdminFirst <- FirstRow
    AdminLimit = 1
    AdminMaxChanges = 2
    ViewEndpoints = {1, 2}
    ViewBroadcasts = {1, 2}
    ViewTop = 1
    ViewMaxPolls = 1
    CreateSlugs = {"a"}
    CreateMaxPresses = 2
    CreateMaxOthers = 1
    HealthChannels = {"A"}
    HealthEndpoints = {1, 2}
    HealthHomeOf <- OneHome
    HealthBroadcasts = {1, 2}
    HealthWindow = 0
    HealthMaxRows = 3
    HealthMaxListed = 1
    RelayNames = {"content-type", "cookie", "signature"}
    RelayDenied = {"cookie"}
    RelayMaxEntries = 1
    SweepBroadcasts = {1}
    SweepWindows = {1, 2}
    SweepInterval = 2
    SweepMaxTime = 5
    SweepMaxSweeps = 3
    SweepMaxUnderWay = 2
    ScheduleMaxAttempts = 3
    ScheduleBase = 1
    ScheduleCap = 2
    ScheduleSeconds <- SomeSeconds
    ScheduleDates = {2, 5}
    ScheduleMaxTime = 6
    ScheduleMaxFailures = 1
    MaxTime = 8
CHECK_DEADLOCK FALSE
INVARIANTS
    TypeOK
    LoginIsTrue
    IngestIsWhole
    WalksListOnce
    RowsKeepTheRules
    RevokedOpensNothing
    
    TimersKeepTime
    
    ExpansionIsKept
    FormsAreHonest
    SecretsAreTheirs
    ReadsAgree
    HeadersArePicked
    DueInTime
PROPERTIES
    AttemptsAreCounted
    WritesStayInTheirChannel
    NothingLeavesUnasked
    KeysStayInside
    LateStepsDoNoHarm
