------------------------------ MODULE Components ------------------------------
(*****************************************************************************)
(* The components of the admin API and the dashboard side by side. A         *)
(* behaviour is one of one of them; `part` says of which, and the others     *)
(* stay as they begin. What they have in common is stated here.              *)
(*****************************************************************************)
EXTENDS Integers

CONSTANTS
    NoValue, Missing, NoTime, TheKey, NoDelivery, NoCursor, NoRows, NoEndpoint, Absent,
    Deleted, Wrong, BlankName, Undefined,
    LoginBrowsers, LoginIps, LoginIpOf, LoginKeys, LoginMaxAttempts, LoginWindowTicks,
    LoginTicksPerSecond, LoginMaxTime, LoginMaxSent, LoginMaxFaults,
    IngestChannels, IngestSlugs, IngestTokens, IngestEndpoints, IngestRequests,
    IngestOwnerOf, IngestMaxBody, IngestMaxChunk, IngestMaxChanges, IngestMaxFaults,
    DirectoryChannels, DirectorySlugs, DirectoryShortSlugs, DirectoryLimit,
    DirectoryMaxFailures, DirectoryMaxOff, DirectoryMaxChanges,
    AuthTokens, AuthCalls, AuthMaxTime,
    DisableDeliveries, DisableProcessors, DisableWindow, DisablePrunable, DisableMaxTime,
    PageChannels, PageSlugs, PageFirst, PageHome, PageMaxChanges, PageMaxSaves,
    PageMaxEdits, PageMalformed,
    VerdictFirst, VerdictMaxAttempts, VerdictMaxRetries, VerdictMaxLoads,
    FreshMaxChanges, FreshMaxHides, FreshMaxFailures,
    PendDelay, PendHold,
    FeedBroadcasts, FeedInitially, FeedLimit, FeedMaxChanges, FeedMaxLoads,
    RollEndpoints,
    BulkDeliveries, BulkMaxRetries,
    ReplayEndpoints, ReplayMaxAsked, ReplayMaxSwitches,
    EditEndpoints, EditValues, EditMaxChanges, EditMaxTyped, EditMaxSaves, EditMalformed,
    TokenChannels, TokenTokens, TokenHome, TokenFirst, TokenMaxUpsets,
    ClockStamps, ClockTick,
    AdminChannels, AdminEndpoints, AdminUrls, AdminUnsafe, AdminCalls, AdminFirst,
    AdminLimit, AdminMaxChanges,
    ViewEndpoints, ViewBroadcasts, ViewTop, ViewMaxPolls,
    CreateSlugs, CreateMaxPresses, CreateMaxOthers,
    HealthChannels, HealthEndpoints, HealthHomeOf, HealthBroadcasts, HealthWindow,
    HealthMaxRows, HealthMaxListed,
    RelayNames, RelayDenied, RelayMaxEntries,
    SweepBroadcasts, SweepWindows, SweepInterval, SweepMaxTime, SweepMaxSweeps,
    SweepMaxUnderWay,
    ScheduleMaxAttempts, ScheduleBase, ScheduleCap, ScheduleSeconds, ScheduleDates,
    ScheduleMaxTime, ScheduleMaxFailures,
    MaxTime       \* bound of the two clocks

VARIABLES
    part,      \* the component this behaviour is of
    loginClock, loginServerKey, loginWindows, loginPage, loginCookie, loginWire, loginSent,
    loginFaults, loginTried,
    ingestChannel, ingestOwner, ingestEndpoint, ingestRequest, ingestBroadcast,
    ingestQueued, ingestChanges, ingestFailures,
    directoryRow, directoryFailed, directoryOff, directoryWalk, directoryMoved,
    directoryChanges,
    authRows, authUnminted, authCall, authTouches, authClock, authGone,
    disableDelivery, disableEndpoint, disableCall, disableClock,
    pageRow, pageRoute, pageLookup, pageCache, pageFetch, pageForm, pageSave, pageDanger,
    pageDelete, pageChanges, pageSaves, pageEdits,
    verdictServer, verdictDelivery, verdictPoll, verdictRequest, verdictAwaiting,
    verdictOutcome, verdictAttempts, verdictLoads, verdictAccepted, verdictOthers,
    verdictOvertaken, verdictRetries, verdictOpened,
    freshServer, freshVisible, freshData, freshIsError, freshFetching, freshRead,
    freshInterval, freshHides, freshFailures, freshOwed,
    pendNow, pendPending, pendVisible, pendShownAt, pendDelayDue, pendHoldDue, pendSince,
    pendAppeared,
    feedListed, feedPage, feedPoll, feedExtra, feedCursor, feedLoads, feedFailed, feedKnown,
    feedCrossed, feedChanges, feedPressed,
    rollFailing, rollPoll, rollData, rollKnown, rollDefault, rollParam,
    bulkDead, bulkDeadLettered, bulkPoll, bulkConfirming, bulkRetrying, bulkResults,
    bulkOutcomes, bulkQueued, bulkRetries,
    replayEnabled, replayEndpoints, replayRefetch, replayIsError, replayJoined, replayAsking,
    replayReplaying, replayReplayed, replayReplayError, replaySent, replaySeen, replayAsked,
    replaySwitches,
    editServer, editList, editPoll, editEditingId, editDirty, editPendingSwitchId, editForm,
    editSubmitted, editSaves, editChanges, editTyped, editPressed,
    tokenStored, tokenFresh, tokenList, tokenLoadError, tokenFetch, tokenChannelId,
    tokenMinted, tokenConfirming, tokenMint, tokenRevoke, tokenWithdrawn, tokenUpsets,
    clockTime, clockVisible, clockListeners, clockNow, clockIntervalId, clockIntervals,
    adminLive, adminRow, adminMinted, adminCall, adminWalk, adminChanges,
    viewUrl, viewFeed, viewFailing, viewOpened, viewFocus, viewPolls,
    createSlug, createTouched, createCreating, createRequest, createBanner, createList,
    createFetch, createTaken, createPresses, createOthers, createLeft, createOutcome,
    healthSwitch, healthEndpoint, healthBroadcast, healthDelivery, healthListed,
    relayAllow, relayDeny, relayForward, relayOwn, relayStored,
    sweepNow, sweepReceived, sweepWindow, sweepUp, sweepDue, sweepSweeps, sweepCount,
    sweepSwept,
    scheduleNow, schedulePhase, scheduleDue, scheduleAttemptCount, scheduleStatusCode,
    scheduleRetryAfterMs, scheduleAsked, scheduleFailures

loginVars == <<loginClock, loginServerKey, loginWindows, loginPage, loginCookie, loginWire,
    loginSent, loginFaults, loginTried>>
ingestVars == <<ingestChannel, ingestOwner, ingestEndpoint, ingestRequest, ingestBroadcast,
    ingestQueued, ingestChanges, ingestFailures>>
directoryVars == <<directoryRow, directoryFailed, directoryOff, directoryWalk,
    directoryMoved, directoryChanges>>
authVars == <<authRows, authUnminted, authCall, authTouches, authClock, authGone>>
disableVars == <<disableDelivery, disableEndpoint, disableCall, disableClock>>
pageVars == <<pageRow, pageRoute, pageLookup, pageCache, pageFetch, pageForm, pageSave,
    pageDanger, pageDelete, pageChanges, pageSaves, pageEdits>>
verdictVars == <<verdictServer, verdictDelivery, verdictPoll, verdictRequest,
    verdictAwaiting, verdictOutcome, verdictAttempts, verdictLoads, verdictAccepted,
    verdictOthers, verdictOvertaken, verdictRetries, verdictOpened>>
freshVars == <<freshServer, freshVisible, freshData, freshIsError, freshFetching, freshRead,
    freshInterval, freshHides, freshFailures, freshOwed>>
pendVars == <<pendNow, pendPending, pendVisible, pendShownAt, pendDelayDue, pendHoldDue,
    pendSince, pendAppeared>>
feedVars == <<feedListed, feedPage, feedPoll, feedExtra, feedCursor, feedLoads, feedFailed,
    feedKnown, feedCrossed, feedChanges, feedPressed>>
rollVars == <<rollFailing, rollPoll, rollData, rollKnown, rollDefault, rollParam>>
bulkVars == <<bulkDead, bulkDeadLettered, bulkPoll, bulkConfirming, bulkRetrying,
    bulkResults, bulkOutcomes, bulkQueued, bulkRetries>>
replayVars == <<replayEnabled, replayEndpoints, replayRefetch, replayIsError, replayJoined,
    replayAsking, replayReplaying, replayReplayed, replayReplayError, replaySent, replaySeen, replayAsked,
    replaySwitches>>
editVars == <<editServer, editList, editPoll, editEditingId, editDirty, editPendingSwitchId,
    editForm, editSubmitted, editSaves, editChanges, editTyped, editPressed>>
tokenVars == <<tokenStored, tokenFresh, tokenList, tokenLoadError, tokenFetch,
    tokenChannelId, tokenMinted, tokenConfirming, tokenMint, tokenRevoke, tokenWithdrawn,
    tokenUpsets>>
clockVars == <<clockTime, clockVisible, clockListeners, clockNow, clockIntervalId,
    clockIntervals>>
adminVars == <<adminLive, adminRow, adminMinted, adminCall, adminWalk, adminChanges>>
viewVars == <<viewUrl, viewFeed, viewFailing, viewOpened, viewFocus, viewPolls>>
createVars == <<createSlug, createTouched, createCreating, createRequest, createBanner,
    createList, createFetch, createTaken, createPresses, createOthers, createLeft,
    createOutcome>>
healthVars == <<healthSwitch, healthEndpoint, healthBroadcast, healthDelivery, healthListed>>
relayVars == <<relayAllow, relayDeny, relayForward, relayOwn, relayStored>>
sweepVars == <<sweepNow, sweepReceived, sweepWindow, sweepUp, sweepDue, sweepSweeps,
    sweepCount, sweepSwept>>
scheduleVars == <<scheduleNow, schedulePhase, scheduleDue, scheduleAttemptCount,
    scheduleStatusCode, scheduleRetryAfterMs, scheduleAsked, scheduleFailures>>
vars == <<part, loginVars, ingestVars, directoryVars, authVars, disableVars, pageVars, verdictVars, freshVars, pendVars, feedVars, rollVars, bulkVars, replayVars, editVars, tokenVars, clockVars, adminVars, viewVars, createVars, healthVars, relayVars, sweepVars, scheduleVars>>

Login == INSTANCE LoginSession WITH
    Browsers <- LoginBrowsers, Ips <- LoginIps, IpOf <- LoginIpOf, Keys <- LoginKeys,
    MaxAttempts <- LoginMaxAttempts, WindowTicks <- LoginWindowTicks,
    TicksPerSecond <- LoginTicksPerSecond, MaxTime <- LoginMaxTime, MaxSent <- LoginMaxSent,
    MaxFaults <- LoginMaxFaults, clock <- loginClock, serverKey <- loginServerKey,
    windows <- loginWindows, page <- loginPage, cookie <- loginCookie, wire <- loginWire,
    sent <- loginSent, faults <- loginFaults, tried <- loginTried

Ingesting == INSTANCE Ingest WITH
    Channels <- IngestChannels, Slugs <- IngestSlugs, Tokens <- IngestTokens,
    Endpoints <- IngestEndpoints, Requests <- IngestRequests, OwnerOf <- IngestOwnerOf,
    MaxBody <- IngestMaxBody, MaxChunk <- IngestMaxChunk, MaxChanges <- IngestMaxChanges,
    MaxFaults <- IngestMaxFaults, channel <- ingestChannel, owner <- ingestOwner,
    endpoint <- ingestEndpoint, request <- ingestRequest, broadcast <- ingestBroadcast,
    queued <- ingestQueued, changes <- ingestChanges, failures <- ingestFailures

Directory == INSTANCE ChannelDirectory WITH
    Channels <- DirectoryChannels, Slugs <- DirectorySlugs,
    ShortSlugs <- DirectoryShortSlugs, Limit <- DirectoryLimit,
    MaxFailures <- DirectoryMaxFailures, MaxOff <- DirectoryMaxOff,
    MaxChanges <- DirectoryMaxChanges, row <- directoryRow, failed <- directoryFailed,
    off <- directoryOff, walk <- directoryWalk, moved <- directoryMoved,
    changes <- directoryChanges

Auth == INSTANCE OperatorAuth WITH
    Tokens <- AuthTokens, Key <- TheKey, Calls <- AuthCalls, MaxTime <- AuthMaxTime,
    None <- NoValue, rows <- authRows, unminted <- authUnminted, call <- authCall,
    touches <- authTouches, clock <- authClock, gone <- authGone

Disable == INSTANCE EndpointAutoDisable WITH
    Deliveries <- DisableDeliveries, Processors <- DisableProcessors,
    Window <- DisableWindow, Prunable <- DisablePrunable, MaxTime <- DisableMaxTime,
    NoDelivery <- NoDelivery, delivery <- disableDelivery, endpoint <- disableEndpoint,
    call <- disableCall, clock <- disableClock

Page == INSTANCE ChannelPage WITH
    Channels <- PageChannels, Slugs <- PageSlugs, First <- PageFirst, Home <- PageHome,
    MaxChanges <- PageMaxChanges, MaxSaves <- PageMaxSaves, MaxEdits <- PageMaxEdits,
    Missing <- Missing, Malformed <- PageMalformed, None <- NoValue, row <- pageRow,
    route <- pageRoute, lookup <- pageLookup, cache <- pageCache, fetch <- pageFetch,
    form <- pageForm, save <- pageSave, danger <- pageDanger, delete <- pageDelete,
    changes <- pageChanges, saves <- pageSaves, edits <- pageEdits

Verdict == INSTANCE RetryVerdict WITH
    First <- VerdictFirst, MaxAttempts <- VerdictMaxAttempts,
    MaxRetries <- VerdictMaxRetries, MaxLoads <- VerdictMaxLoads, None <- NoValue,
    server <- verdictServer, delivery <- verdictDelivery, poll <- verdictPoll,
    request <- verdictRequest, awaiting <- verdictAwaiting, outcome <- verdictOutcome,
    attempts <- verdictAttempts, loads <- verdictLoads, accepted <- verdictAccepted,
    others <- verdictOthers, overtaken <- verdictOvertaken, retries <- verdictRetries,
    opened <- verdictOpened

Fresh == INSTANCE Freshness WITH
    MaxChanges <- FreshMaxChanges, MaxHides <- FreshMaxHides,
    MaxFailures <- FreshMaxFailures, server <- freshServer, visible <- freshVisible,
    data <- freshData, isError <- freshIsError, fetching <- freshFetching,
    read <- freshRead, interval <- freshInterval, hides <- freshHides,
    failures <- freshFailures, owed <- freshOwed

Pending == INSTANCE DelayedPending WITH
    Delay <- PendDelay, Hold <- PendHold, Never <- NoTime, now <- pendNow,
    pending <- pendPending, visible <- pendVisible, shownAt <- pendShownAt,
    delayDue <- pendDelayDue, holdDue <- pendHoldDue, since <- pendSince,
    appeared <- pendAppeared

Feed == INSTANCE ActivityFeed WITH
    Broadcasts <- FeedBroadcasts, Initially <- FeedInitially, Limit <- FeedLimit,
    NoCursor <- NoCursor, MaxChanges <- FeedMaxChanges, MaxLoads <- FeedMaxLoads,
    listed <- feedListed, page <- feedPage, poll <- feedPoll, extra <- feedExtra,
    cursor <- feedCursor, loads <- feedLoads, failed <- feedFailed, known <- feedKnown,
    crossed <- feedCrossed, changes <- feedChanges, pressed <- feedPressed

Rollup == INSTANCE FailureRollup WITH
    Endpoints <- RollEndpoints, NoData <- NoRows, NoEndpoint <- NoEndpoint,
    Absent <- Absent, failing <- rollFailing, poll <- rollPoll, data <- rollData,
    known <- rollKnown, default <- rollDefault, param <- rollParam

Bulk == INSTANCE BulkRetry WITH
    Deliveries <- BulkDeliveries, MaxRetries <- BulkMaxRetries, None <- NoValue,
    dead <- bulkDead, deadLettered <- bulkDeadLettered, poll <- bulkPoll,
    confirming <- bulkConfirming, retrying <- bulkRetrying, results <- bulkResults,
    outcomes <- bulkOutcomes, queued <- bulkQueued, retries <- bulkRetries

Replay == INSTANCE ReplayBroadcast WITH
    Endpoints <- ReplayEndpoints, MaxAsked <- ReplayMaxAsked,
    MaxSwitches <- ReplayMaxSwitches, None <- NoValue, enabled <- replayEnabled,
    endpoints <- replayEndpoints, refetch <- replayRefetch, isError <- replayIsError,
    joined <- replayJoined, asking <- replayAsking,
    replaying <- replayReplaying, replayed <- replayReplayed,
    replayError <- replayReplayError, sent <- replaySent, seen <- replaySeen,
    asked <- replayAsked, switches <- replaySwitches

Editor == INSTANCE EndpointEditor WITH
    Endpoints <- EditEndpoints, Values <- EditValues, MaxChanges <- EditMaxChanges,
    MaxTyped <- EditMaxTyped, MaxSaves <- EditMaxSaves, Gone <- Deleted,
    Malformed <- EditMalformed, None <- NoValue, server <- editServer, list <- editList,
    poll <- editPoll, editingId <- editEditingId, dirty <- editDirty,
    pendingSwitchId <- editPendingSwitchId, form <- editForm, submitted <- editSubmitted,
    saves <- editSaves, changes <- editChanges, typed <- editTyped, pressed <- editPressed

TokensTab == INSTANCE TokenPanel WITH
    Channels <- TokenChannels, Tokens <- TokenTokens, Home <- TokenHome,
    First <- TokenFirst, MaxUpsets <- TokenMaxUpsets, None <- NoValue,
    stored <- tokenStored, fresh <- tokenFresh, list <- tokenList,
    loadError <- tokenLoadError, fetch <- tokenFetch, channelId <- tokenChannelId,
    minted <- tokenMinted, confirming <- tokenConfirming, mint <- tokenMint,
    revoke <- tokenRevoke, withdrawn <- tokenWithdrawn, upsets <- tokenUpsets

Clock == INSTANCE ElapsedClock WITH
    Stamps <- ClockStamps, Tick <- ClockTick, Never <- NoTime, time <- clockTime,
    visible <- clockVisible, listeners <- clockListeners, now <- clockNow,
    intervalId <- clockIntervalId, intervals <- clockIntervals

Admin == INSTANCE EndpointAdmin WITH
    Channels <- AdminChannels, Endpoints <- AdminEndpoints, Urls <- AdminUrls,
    Unsafe <- AdminUnsafe, Calls <- AdminCalls, First <- AdminFirst, Limit <- AdminLimit,
    MaxChanges <- AdminMaxChanges, None <- NoValue, live <- adminLive, row <- adminRow,
    minted <- adminMinted, call <- adminCall, walk <- adminWalk, changes <- adminChanges

View == INSTANCE ActivityView WITH
    Endpoints <- ViewEndpoints, Broadcasts <- ViewBroadcasts, Top <- ViewTop,
    MaxPolls <- ViewMaxPolls, Absent <- Absent, None <- NoValue, url <- viewUrl,
    feed <- viewFeed, failing <- viewFailing, opened <- viewOpened, focus <- viewFocus,
    polls <- viewPolls

Creation == INSTANCE NewChannel WITH
    Slugs <- CreateSlugs, Wrong <- Wrong, Blank <- BlankName,
    MaxPresses <- CreateMaxPresses, MaxOthers <- CreateMaxOthers, None <- NoValue,
    slug <- createSlug, touched <- createTouched, creating <- createCreating,
    request <- createRequest, banner <- createBanner, list <- createList,
    fetch <- createFetch, taken <- createTaken, presses <- createPresses,
    others <- createOthers, left <- createLeft, outcome <- createOutcome

Health == INSTANCE HealthReads WITH
    Channels <- HealthChannels, Endpoints <- HealthEndpoints, HomeOf <- HealthHomeOf,
    Broadcasts <- HealthBroadcasts, Window <- HealthWindow,
    MaxRows <- HealthMaxRows, MaxListed <- HealthMaxListed, None <- NoValue,
    switch <- healthSwitch, endpoint <- healthEndpoint,
    broadcast <- healthBroadcast, delivery <- healthDelivery, listed <- healthListed

Relay == INSTANCE HeaderRelay WITH
    Names <- RelayNames, Denied <- RelayDenied, Blank <- BlankName,
    MaxEntries <- RelayMaxEntries, None <- NoValue, allow <- relayAllow, deny <- relayDeny,
    forward <- relayForward, own <- relayOwn, stored <- relayStored

Sweeper == INSTANCE RetentionSweeper WITH
    Broadcasts <- SweepBroadcasts, Windows <- SweepWindows, Interval <- SweepInterval,
    MaxTime <- SweepMaxTime, MaxSweeps <- SweepMaxSweeps, MaxUnderWay <- SweepMaxUnderWay,
    Never <- NoTime, now <- sweepNow, received <- sweepReceived, window <- sweepWindow,
    up <- sweepUp, due <- sweepDue, sweeps <- sweepSweeps, count <- sweepCount,
    swept <- sweepSwept

Schedule == INSTANCE RetrySchedule WITH
    MaxAttempts <- ScheduleMaxAttempts, Base <- ScheduleBase, Cap <- ScheduleCap,
    Seconds <- ScheduleSeconds, Dates <- ScheduleDates, MaxTime <- ScheduleMaxTime,
    MaxFailures <- ScheduleMaxFailures, Undefined <- Undefined, now <- scheduleNow,
    phase <- schedulePhase, due <- scheduleDue, attemptCount <- scheduleAttemptCount,
    statusCode <- scheduleStatusCode, retryAfterMs <- scheduleRetryAfterMs,
    asked <- scheduleAsked, failures <- scheduleFailures

ComponentsAssumption ==
    /\ Login!LoginAssumption /\ Ingesting!IngestAssumption
    /\ Auth!AuthAssumption /\ Pending!PendingAssumption
    /\ Clock!ClockAssumption /\ Admin!AdminAssumption
    /\ Health!HealthAssumption /\ Relay!HeaderAssumption
    /\ Sweeper!RetentionAssumption /\ Schedule!ScheduleAssumption
    /\ TokensTab!TokenAssumption /\ Bulk!BulkAssumption
    /\ Replay!ReplayAssumption /\ Verdict!VerdictAssumption
    /\ Rollup!RollupAssumption /\ View!ViewAssumption
    /\ Directory!DirectoryAssumption /\ Feed!FeedAssumption
    /\ Page!PageAssumption
    /\ Fresh!FreshnessAssumption /\ Editor!EditorAssumption
    /\ DisableWindow \in Nat /\ DisableMaxTime \in Nat \ {0}
    /\ DisablePrunable \subseteq {"open", "succeeded", "failed", "dead_lettered"}
    /\ NoDelivery \notin DisableDeliveries

ASSUME ComponentsAssumption

Parts ==
    {"login", "ingest", "directory", "auth", "disable", "page", "verdict", "fresh", "pend",
     "feed", "roll", "bulk", "replay", "edit", "token", "clock", "admin", "view", "create",
     "health", "relay", "sweep", "schedule"}

\* The components that do not run stay in one of their initial states.
Init ==
    /\ part \in Parts
    /\ Login!Init /\ Directory!Init /\ Auth!Init /\ Disable!Init
    /\ Verdict!Init /\ Feed!Init /\ Admin!Init /\ Creation!Init
    /\ Health!Init /\ Relay!Init /\ Schedule!Init /\ Ingesting!Init
    /\ Page!Init /\ Fresh!Init /\ Pending!Init /\ Rollup!Init
    /\ Bulk!Init /\ Replay!Init /\ Editor!Init /\ TokensTab!Init
    /\ Clock!Init /\ View!Init /\ Sweeper!Init

LoginRests == UNCHANGED <<ingestVars, directoryVars, authVars, disableVars, pageVars,
    verdictVars, freshVars, pendVars, feedVars, rollVars, bulkVars, replayVars, editVars,
    tokenVars, clockVars, adminVars, viewVars, createVars, healthVars, relayVars, sweepVars,
    scheduleVars>>
IngestingRests == UNCHANGED <<loginVars, directoryVars, authVars, disableVars, pageVars,
    verdictVars, freshVars, pendVars, feedVars, rollVars, bulkVars, replayVars, editVars,
    tokenVars, clockVars, adminVars, viewVars, createVars, healthVars, relayVars, sweepVars,
    scheduleVars>>
DirectoryRests == UNCHANGED <<loginVars, ingestVars, authVars, disableVars, pageVars,
    verdictVars, freshVars, pendVars, feedVars, rollVars, bulkVars, replayVars, editVars,
    tokenVars, clockVars, adminVars, viewVars, createVars, healthVars, relayVars, sweepVars,
    scheduleVars>>
AuthRests == UNCHANGED <<loginVars, ingestVars, directoryVars, disableVars, pageVars,
    verdictVars, freshVars, pendVars, feedVars, rollVars, bulkVars, replayVars, editVars,
    tokenVars, clockVars, adminVars, viewVars, createVars, healthVars, relayVars, sweepVars,
    scheduleVars>>
DisableRests == UNCHANGED <<loginVars, ingestVars, directoryVars, authVars, pageVars,
    verdictVars, freshVars, pendVars, feedVars, rollVars, bulkVars, replayVars, editVars,
    tokenVars, clockVars, adminVars, viewVars, createVars, healthVars, relayVars, sweepVars,
    scheduleVars>>
PageRests == UNCHANGED <<loginVars, ingestVars, directoryVars, authVars, disableVars,
    verdictVars, freshVars, pendVars, feedVars, rollVars, bulkVars, replayVars, editVars,
    tokenVars, clockVars, adminVars, viewVars, createVars, healthVars, relayVars, sweepVars,
    scheduleVars>>
VerdictRests == UNCHANGED <<loginVars, ingestVars, directoryVars, authVars, disableVars,
    pageVars, freshVars, pendVars, feedVars, rollVars, bulkVars, replayVars, editVars,
    tokenVars, clockVars, adminVars, viewVars, createVars, healthVars, relayVars, sweepVars,
    scheduleVars>>
FreshRests == UNCHANGED <<loginVars, ingestVars, directoryVars, authVars, disableVars,
    pageVars, verdictVars, pendVars, feedVars, rollVars, bulkVars, replayVars, editVars,
    tokenVars, clockVars, adminVars, viewVars, createVars, healthVars, relayVars, sweepVars,
    scheduleVars>>
PendingRests == UNCHANGED <<loginVars, ingestVars, directoryVars, authVars, disableVars,
    pageVars, verdictVars, freshVars, feedVars, rollVars, bulkVars, replayVars, editVars,
    tokenVars, clockVars, adminVars, viewVars, createVars, healthVars, relayVars, sweepVars,
    scheduleVars>>
FeedRests == UNCHANGED <<loginVars, ingestVars, directoryVars, authVars, disableVars,
    pageVars, verdictVars, freshVars, pendVars, rollVars, bulkVars, replayVars, editVars,
    tokenVars, clockVars, adminVars, viewVars, createVars, healthVars, relayVars, sweepVars,
    scheduleVars>>
RollupRests == UNCHANGED <<loginVars, ingestVars, directoryVars, authVars, disableVars,
    pageVars, verdictVars, freshVars, pendVars, feedVars, bulkVars, replayVars, editVars,
    tokenVars, clockVars, adminVars, viewVars, createVars, healthVars, relayVars, sweepVars,
    scheduleVars>>
BulkRests == UNCHANGED <<loginVars, ingestVars, directoryVars, authVars, disableVars,
    pageVars, verdictVars, freshVars, pendVars, feedVars, rollVars, replayVars, editVars,
    tokenVars, clockVars, adminVars, viewVars, createVars, healthVars, relayVars, sweepVars,
    scheduleVars>>
ReplayRests == UNCHANGED <<loginVars, ingestVars, directoryVars, authVars, disableVars,
    pageVars, verdictVars, freshVars, pendVars, feedVars, rollVars, bulkVars, editVars,
    tokenVars, clockVars, adminVars, viewVars, createVars, healthVars, relayVars, sweepVars,
    scheduleVars>>
EditorRests == UNCHANGED <<loginVars, ingestVars, directoryVars, authVars, disableVars,
    pageVars, verdictVars, freshVars, pendVars, feedVars, rollVars, bulkVars, replayVars,
    tokenVars, clockVars, adminVars, viewVars, createVars, healthVars, relayVars, sweepVars,
    scheduleVars>>
TokensTabRests == UNCHANGED <<loginVars, ingestVars, directoryVars, authVars, disableVars,
    pageVars, verdictVars, freshVars, pendVars, feedVars, rollVars, bulkVars, replayVars,
    editVars, clockVars, adminVars, viewVars, createVars, healthVars, relayVars, sweepVars,
    scheduleVars>>
ClockRests == UNCHANGED <<loginVars, ingestVars, directoryVars, authVars, disableVars,
    pageVars, verdictVars, freshVars, pendVars, feedVars, rollVars, bulkVars, replayVars,
    editVars, tokenVars, adminVars, viewVars, createVars, healthVars, relayVars, sweepVars,
    scheduleVars>>
AdminRests == UNCHANGED <<loginVars, ingestVars, directoryVars, authVars, disableVars,
    pageVars, verdictVars, freshVars, pendVars, feedVars, rollVars, bulkVars, replayVars,
    editVars, tokenVars, clockVars, viewVars, createVars, healthVars, relayVars, sweepVars,
    scheduleVars>>
ViewRests == UNCHANGED <<loginVars, ingestVars, directoryVars, authVars, disableVars,
    pageVars, verdictVars, freshVars, pendVars, feedVars, rollVars, bulkVars, replayVars,
    editVars, tokenVars, clockVars, adminVars, createVars, healthVars, relayVars, sweepVars,
    scheduleVars>>
CreationRests == UNCHANGED <<loginVars, ingestVars, directoryVars, authVars, disableVars,
    pageVars, verdictVars, freshVars, pendVars, feedVars, rollVars, bulkVars, replayVars,
    editVars, tokenVars, clockVars, adminVars, viewVars, healthVars, relayVars, sweepVars,
    scheduleVars>>
HealthRests == UNCHANGED <<loginVars, ingestVars, directoryVars, authVars, disableVars,
    pageVars, verdictVars, freshVars, pendVars, feedVars, rollVars, bulkVars, replayVars,
    editVars, tokenVars, clockVars, adminVars, viewVars, createVars, relayVars, sweepVars,
    scheduleVars>>
RelayRests == UNCHANGED <<loginVars, ingestVars, directoryVars, authVars, disableVars,
    pageVars, verdictVars, freshVars, pendVars, feedVars, rollVars, bulkVars, replayVars,
    editVars, tokenVars, clockVars, adminVars, viewVars, createVars, healthVars, sweepVars,
    scheduleVars>>
SweeperRests == UNCHANGED <<loginVars, ingestVars, directoryVars, authVars, disableVars,
    pageVars, verdictVars, freshVars, pendVars, feedVars, rollVars, bulkVars, replayVars,
    editVars, tokenVars, clockVars, adminVars, viewVars, createVars, healthVars, relayVars,
    scheduleVars>>
ScheduleRests == UNCHANGED <<loginVars, ingestVars, directoryVars, authVars, disableVars,
    pageVars, verdictVars, freshVars, pendVars, feedVars, rollVars, bulkVars, replayVars,
    editVars, tokenVars, clockVars, adminVars, viewVars, createVars, healthVars, relayVars,
    sweepVars>>

LoginSteps == part = "login" /\ Login!Next /\ LoginRests /\ UNCHANGED part
IngestingSteps == part = "ingest" /\ Ingesting!Next /\ IngestingRests /\ UNCHANGED part
DirectorySteps == part = "directory" /\ Directory!Next /\ DirectoryRests /\ UNCHANGED part
AuthSteps == part = "auth" /\ Auth!Next /\ AuthRests /\ UNCHANGED part
DisableSteps == part = "disable" /\ Disable!Next /\ DisableRests /\ UNCHANGED part
PageSteps == part = "page" /\ Page!Next /\ PageRests /\ UNCHANGED part
VerdictSteps == part = "verdict" /\ Verdict!Next /\ VerdictRests /\ UNCHANGED part
FreshSteps == part = "fresh" /\ Fresh!Next /\ FreshRests /\ UNCHANGED part
PendingSteps == part = "pend" /\ Pending!Next /\ PendingRests /\ UNCHANGED part /\ pendNow'
    <= MaxTime
FeedSteps == part = "feed" /\ Feed!Next /\ FeedRests /\ UNCHANGED part
RollupSteps == part = "roll" /\ Rollup!Next /\ RollupRests /\ UNCHANGED part
BulkSteps == part = "bulk" /\ Bulk!Next /\ BulkRests /\ UNCHANGED part
ReplaySteps == part = "replay" /\ Replay!Next /\ ReplayRests /\ UNCHANGED part
EditorSteps == part = "edit" /\ Editor!Next /\ EditorRests /\ UNCHANGED part
TokensTabSteps == part = "token" /\ TokensTab!Next /\ TokensTabRests /\ UNCHANGED part
ClockSteps == part = "clock" /\ Clock!Next /\ ClockRests /\ UNCHANGED part /\ clockTime' <=
    MaxTime
AdminSteps == part = "admin" /\ Admin!Next /\ AdminRests /\ UNCHANGED part
ViewSteps == part = "view" /\ View!Next /\ ViewRests /\ UNCHANGED part
CreationSteps == part = "create" /\ Creation!Next /\ CreationRests /\ UNCHANGED part
HealthSteps == part = "health" /\ Health!Next /\ HealthRests /\ UNCHANGED part
RelaySteps == part = "relay" /\ Relay!Next /\ RelayRests /\ UNCHANGED part
SweeperSteps == part = "sweep" /\ Sweeper!Next /\ SweeperRests /\ UNCHANGED part
ScheduleSteps == part = "schedule" /\ Schedule!Next /\ ScheduleRests /\ UNCHANGED part

Next ==
    \/ LoginSteps
    \/ IngestingSteps
    \/ DirectorySteps
    \/ AuthSteps
    \/ DisableSteps
    \/ PageSteps
    \/ VerdictSteps
    \/ FreshSteps
    \/ PendingSteps
    \/ FeedSteps
    \/ RollupSteps
    \/ BulkSteps
    \/ ReplaySteps
    \/ EditorSteps
    \/ TokensTabSteps
    \/ ClockSteps
    \/ AdminSteps
    \/ ViewSteps
    \/ CreationSteps
    \/ HealthSteps
    \/ RelaySteps
    \/ SweeperSteps
    \/ ScheduleSteps

Spec == Init /\ [][Next]_vars

-----------------------------------------------------------------------------
\* The component that is running keeps its types.
TypeOK ==
    /\ part = "login" => Login!TypeOK
    /\ part = "ingest" => Ingesting!TypeOK
    /\ part = "directory" => Directory!TypeOK
    /\ part = "auth" => Auth!TypeOK
    /\ part = "disable" => Disable!TypeOK
    /\ part = "page" => Page!TypeOK
    /\ part = "verdict" => Verdict!TypeOK
    /\ part = "fresh" => Fresh!TypeOK
    /\ part = "pend" => Pending!TypeOK
    /\ part = "feed" => Feed!TypeOK
    /\ part = "roll" => Rollup!TypeOK
    /\ part = "bulk" => Bulk!TypeOK
    /\ part = "replay" => Replay!TypeOK
    /\ part = "edit" => Editor!TypeOK
    /\ part = "token" => TokensTab!TypeOK
    /\ part = "clock" => Clock!TypeOK
    /\ part = "admin" => Admin!TypeOK
    /\ part = "view" => View!TypeOK
    /\ part = "create" => Creation!TypeOK
    /\ part = "health" => Health!TypeOK
    /\ part = "relay" => Relay!TypeOK
    /\ part = "sweep" => Sweeper!TypeOK
    /\ part = "schedule" => Schedule!TypeOK

\* Fewer than twice MaxAttempts attempts of one Ip are judged in any stretch
\* of the window's length, however they fall around its end. While nothing is
\* lost and the API not restarted, a page waits for the limiter's own window
\* and not a tick longer, and shows the dashboard over a cookie that works
\* and the form over none.
LoginIsTrue ==
    /\ part = "login" => Login!BurstBounded
    /\ part = "login" => Login!PageAgreesWithLimiter
    /\ part = "login" => Login!PageMatchesCookie

\* A request that arrives after its Channel was deleted gets no Broadcast
\* into it, not even when the slug has a new Channel by then. One that is
\* accepted has its Broadcast, a Delivery for each Endpoint of its snapshot
\* that still exists, and a job for every one of them; one that is refused,
\* for its size and only then or for anything else, leaves nothing behind,
\* unless a reply was lost, the rollback failed or the process died on it; and
\* even then it has a Delivery for the whole of its snapshot or for none.
IngestIsWhole ==
    /\ part = "ingest" => Ingesting!DeletedTakesNothingNew
    /\ part = "ingest" => Ingesting!AllOrNothing
    /\ part = "ingest" => Ingesting!BodyBounded

\* Whoever walks a list page by page while its rows are created, renamed,
\* deleted and counted anew finds a row that stays where it is on exactly one
\* page: the directory, the Endpoints of a Channel, and the Activity feed,
\* whose first page is polled meanwhile.
WalksListOnce ==
    /\ part = "directory" => Directory!StayersListedOnce
    /\ part = "admin" => Admin!KeptListedOnce
    /\ part = "feed" => Feed!NewestFirst
    /\ part = "feed" => Feed!NothingSkipped

\* Whatever sequence of requests and workers wrote the rows: no live Channel
\* takes Broadcasts without a token under a short slug; an Endpoint that is
\* switched on carries no mark of the auto-disable, which would exclude it
\* from the fan-out, also when the sweeper deletes the Deliveries it is
\* judged by.
RowsKeepTheRules ==
    /\ part = "directory" => Directory!OpenIsLong
    /\ part = "admin" => Admin!SwitchDecides
    /\ part = "disable" => Disable!AutoDisabledIsOff

\* A request made after a token's revocation was answered is never served
\* with it, a lastUsedAt written late does not bring it back, and whoever is
\* let in by cookie carries the operator key itself.
RevokedOpensNothing ==
    /\ part = "auth" => Auth!RevokedIsRefused
    /\ part = "auth" => Auth!RevokedStaysGone
    /\ part = "auth" => Auth!CookieIsTheKey

\* A Channel's page survives the operator's own rename; a save carries
\* another's change back only as long as the page had not shown it; and the
\* Channel deleted is the one the operator asked to delete, though its slug
\* may have passed to another.
PageFollowsItsChannel ==
    /\ part = "page" => Page!OwnRenameKeepsPage
    /\ part = "page" => Page!SaveRevertsNothingShown
    /\ part = "page" => Page!DeletesWhatWasConfirmed

\* No order of turns, timers, mounts and hidden tabs leaves a waiting state
\* on screen for good or holds it anew, loses hold of an interval, lets a
\* visible timestamp fall more than a tick behind, or says "Updated" of a
\* list older than when the tab was shown.
TimersKeepTime ==
    /\ part = "pend" => Pending!NeverStuck
    /\ part = "pend" => Pending!HoldNotExtended
    /\ part = "clock" => Clock!NeverBehind
    /\ part = "clock" => Clock!OneInterval
    /\ part = "fresh" => Fresh!OkIsCurrent

\* The verdict on a retry is of an Attempt made after it was accepted, and
\* comes with that Attempt; a batch's report says "queued" of exactly what it
\* queued; a replay's question, once a refetch of its own has succeeded, names
\* a number of Endpoints that was right while it was asked; and a replay is
\* not sent twice at once.
PanelTellsTheTruth ==
    /\ part = "verdict" => Verdict!VerdictIsOwn
    /\ part = "verdict" => Verdict!TimelineNamesAttempt
    /\ part = "bulk" => Bulk!ReportTrue
    /\ part = "replay" => Replay!AsksOfNow
    /\ part = "replay" => Replay!OneReplayAtOnce

\* Having collapsed everything, the operator finds nothing open, whatever
\* fails next and after a reload too; without a choice in the address, the
\* page that shows failures shows those of one Endpoint with no click.
ExpansionIsKept ==
    /\ part = "roll" => Rollup!CollapseAllHolds
    /\ part = "roll" => Rollup!OpensOne

\* "Unsaved changes" is said exactly of what differs from the row as last
\* polled. The New Channel form sends nothing the schema refuses, says
\* nothing of a field that was not left, and its banner is about the last
\* create.
FormsAreHonest ==
    /\ part = "edit" => Editor!DirtyExact
    /\ part = "create" => Creation!NothingWrongSent
    /\ part = "create" => Creation!SilentUntilLeft
    /\ part = "create" => Creation!BannerIsOfLast

\* A secret revoked while it was on show is not shown again, and once a mint
\* is over the token on show can be revoked: it is in the list, whatever poll
\* read the list before.
SecretsAreTheirs ==
    /\ part = "token" => TokensTab!RevokedSecretIsGone
    /\ part = "token" => TokensTab!SecretIsListed

\* Queries over the same rows agree, with each other and with the lamps drawn
\* from them, whatever is retried, pruned, deleted or has grown old: the
\* badge is the sum of the roll-up; a Channel is ranked first exactly if its
\* lamp is cut, as long as nobody writes to it between the read that ranks it
\* and the one that counts for the lamp; groups are ranked as their glyphs
\* are; a row is cut exactly while the roll-up lists it; a Broadcast under a
\* failing Endpoint wears no healthy lamp; the columns of a fan-out add up.
ReadsAgree ==
    /\ part = "health" => Health!BadgeIsRollup
    /\ part = "health" => Health!RankMatchesLamp
    /\ part = "health" => Health!RowMatchesRollup
    /\ part = "health" => Health!NoHealthyFailure
    /\ part = "health" => Health!GlyphsFollowRank
    /\ part = "health" => Health!FanoutAddsUp

\* A header denied when it was accepted reaches no Endpoint, whatever the
\* lists have become since. However a name is spelt it goes out once, with
\* the Endpoint's value if the Endpoint sets it; and the fingerprints are of
\* the headers a Delivery would carry.
HeadersArePicked ==
    /\ part = "relay" => Relay!DeniedStaysHere
    /\ part = "relay" => Relay!EndpointWins
    /\ part = "relay" => Relay!FingerprintsMatch

\* What is older than the window is gone with the boot's sweep or an interval
\* after, each failed or slow sweep costing one more. No Retry-After puts an
\* Attempt off by more than the cap, and no Attempt is made before what was
\* asked for, or the cap.
DueInTime ==
    /\ part = "sweep" => Sweeper!OldGoesInTime
    /\ part = "schedule" => Schedule!WaitBounded
    /\ part = "schedule" => Schedule!AskedIsWaited

\* A browser is told to wait only for MaxAttempts attempts of its own Ip
\* within the window's length before; who waits the seconds of Retry-After
\* finds that window over; and one press of the button is one attempt.
AttemptsAreCounted ==
    [][ /\ part = "login" => Login!RefusedForCauseStep
        /\ part = "login" => Login!WaitSufficesStep
        /\ part = "login" => Login!OnePressOneAttemptStep ]_vars

\* A token lets requests into the Channel it was minted for and no other, and
\* none after its revocation; a Broadcast appears with a Delivery for every
\* Endpoint enabled when the transaction looked; a request on an Endpoint
\* reaches only those of the Channel in its path.
WritesStayInTheirChannel ==
    [][ /\ part = "ingest" => Ingesting!TokenScopedStep
        /\ part = "ingest" => Ingesting!SnapshotWholeStep
        /\ part = "admin" => Admin!OwnChannelOnlyStep ]_vars

\* What is on screen stays there until the operator or its own end takes it
\* away: an open group, a batch's report, an edit that differs from its row,
\* the reader's place in a list, and a waiting state for its hold, which
\* appears only for a flag that has been on for the delay.
NothingLeavesUnasked ==
    [][ /\ part = "roll" => Rollup!StaysOpenStep
        /\ part = "bulk" => Bulk!ReportStandsStep
        /\ part = "edit" => Editor!EditsGuardedStep
        /\ part = "view" => View!DrillDownStaysStep
        /\ part = "pend" => Pending!Held
        /\ part = "pend" => Pending!Slow ]_vars

\* One Escape closes one well, the innermost around the focus, and leaves the
\* focus on the row it closed; arrow keys, Home and End move in the list the
\* focus is in.
KeysStayInside ==
    [][ /\ part = "view" => View!EscapeClosesOneStep
        /\ part = "view" => View!KeysStayInListStep ]_vars

\* A poll that was under way when a Channel was created above a list on show
\* does not hide it when the button comes back; a sweep, however late its DELETE, takes nothing
\* that is not older than the window it was started with.
LateStepsDoNoHarm ==
    [][ /\ part = "create" => Creation!CreatedIsListedStep
        /\ part = "sweep" => Sweeper!NothingYoungSweptStep ]_vars

=============================================================================
