------------------------------ MODULE MCWaiting ------------------------------
(*****************************************************************************)
(* The components in which something must come by itself, in instances small *)
(* enough for their liveness properties: the login page, the page of a       *)
(* Channel, the verdict on a retry and the polled lists. A behaviour is one  *)
(* of one of them; `part` says of which, and the others stay as they begin.  *)
(*****************************************************************************)
EXTENDS Integers

CONSTANTS
    NoValue, Missing

VARIABLES
    part,      \* the component this behaviour is of
    loginClock, loginServerKey, loginWindows, loginPage, loginCookie, loginWire, loginSent,
    loginFaults, loginTried,
    pageRow, pageRoute, pageLookup, pageCache, pageFetch, pageForm, pageSave, pageDanger,
    pageDelete, pageChanges, pageSaves, pageEdits,
    verdictServer, verdictDelivery, verdictPoll, verdictRequest, verdictAwaiting,
    verdictOutcome, verdictAttempts, verdictLoads, verdictAccepted, verdictOthers,
    verdictOvertaken, verdictRetries, verdictOpened,
    freshServer, freshVisible, freshData, freshIsError, freshFetching, freshRead,
    freshInterval, freshHides, freshFailures, freshOwed

loginVars == <<loginClock, loginServerKey, loginWindows, loginPage, loginCookie, loginWire,
    loginSent, loginFaults, loginTried>>
pageVars == <<pageRow, pageRoute, pageLookup, pageCache, pageFetch, pageForm, pageSave,
    pageDanger, pageDelete, pageChanges, pageSaves, pageEdits>>
verdictVars == <<verdictServer, verdictDelivery, verdictPoll, verdictRequest,
    verdictAwaiting, verdictOutcome, verdictAttempts, verdictLoads, verdictAccepted,
    verdictOthers, verdictOvertaken, verdictRetries, verdictOpened>>
freshVars == <<freshServer, freshVisible, freshData, freshIsError, freshFetching, freshRead,
    freshInterval, freshHides, freshFailures, freshOwed>>
vars == <<part, loginVars, pageVars, verdictVars, freshVars>>

FirstSlug == [c \in {"A", "B"} |-> IF c = "A" THEN "a" ELSE "b"]

Login == INSTANCE LoginSession WITH
    Browsers <- {"b1", "b2"}, Ips <- {"ip"}, IpOf <- [b \in {"b1", "b2"} |-> "ip"],
    Keys <- {"good", "bad"}, MaxAttempts <- 1, WindowTicks <- 3, TicksPerSecond <- 2,
    MaxTime <- 2, MaxSent <- 2, MaxFaults <- 1, clock <- loginClock,
    serverKey <- loginServerKey, windows <- loginWindows, page <- loginPage,
    cookie <- loginCookie, wire <- loginWire, sent <- loginSent, faults <- loginFaults,
    tried <- loginTried

Page == INSTANCE ChannelPage WITH
    Channels <- {"A", "B"}, Slugs <- {"a", "b", "c"}, First <- FirstSlug, Home <- "A",
    MaxChanges <- 1, MaxSaves <- 1, MaxEdits <- 1, Missing <- Missing, Malformed <- {"bad"},
    None <- NoValue, row <- pageRow, route <- pageRoute, lookup <- pageLookup,
    cache <- pageCache, fetch <- pageFetch, form <- pageForm, save <- pageSave,
    danger <- pageDanger, delete <- pageDelete, changes <- pageChanges, saves <- pageSaves,
    edits <- pageEdits

Verdict == INSTANCE RetryVerdict WITH
    First <- 1, MaxAttempts <- 3, MaxRetries <- 1, MaxLoads <- 1, None <- NoValue,
    server <- verdictServer, delivery <- verdictDelivery, poll <- verdictPoll,
    request <- verdictRequest, awaiting <- verdictAwaiting, outcome <- verdictOutcome,
    attempts <- verdictAttempts, loads <- verdictLoads, accepted <- verdictAccepted,
    others <- verdictOthers, overtaken <- verdictOvertaken, retries <- verdictRetries,
    opened <- verdictOpened

Fresh == INSTANCE Freshness WITH
    MaxChanges <- 2, MaxHides <- 2, MaxFailures <- 2, server <- freshServer,
    visible <- freshVisible, data <- freshData, isError <- freshIsError,
    fetching <- freshFetching, read <- freshRead, interval <- freshInterval,
    hides <- freshHides, failures <- freshFailures, owed <- freshOwed

ASSUME Login!LoginAssumption

\* The components that do not run wait in one of their initial states.
Init ==
    /\ part \in {"login", "page", "verdict", "fresh"}
    /\ Login!Init /\ Verdict!Init
    /\ Page!Init /\ (part # "page" => pageRoute.form = "id")
    /\ Fresh!Init /\ (part # "fresh" => freshVisible)

LoginRests == UNCHANGED <<pageVars, verdictVars, freshVars>>
PageRests == UNCHANGED <<loginVars, verdictVars, freshVars>>
VerdictRests == UNCHANGED <<loginVars, pageVars, freshVars>>
FreshRests == UNCHANGED <<loginVars, pageVars, verdictVars>>

LoginSteps == part = "login" /\ Login!Next /\ LoginRests /\ UNCHANGED part
PageSteps == part = "page" /\ Page!Next /\ PageRests /\ UNCHANGED part
VerdictSteps == part = "verdict" /\ Verdict!Next /\ VerdictRests /\ UNCHANGED part
FreshSteps == part = "fresh" /\ Fresh!Next /\ FreshRests /\ UNCHANGED part

Next ==
    \/ LoginSteps
    \/ PageSteps
    \/ VerdictSteps
    \/ FreshSteps

Spec == Init /\ [][Next]_vars

\* What the code does by itself: time passes, requests are served and answered,
\* timers fire and queries are polled. Nobody has to type or press anything.
Fairness ==
    /\ WF_loginVars(part = "login" /\ Login!Tick)
    /\ \A b \in {"b1", "b2"} :
          /\ WF_loginVars(part = "login" /\ Login!Serve(b))
          /\ WF_loginVars(part = "login" /\ Login!Answered(b))
          /\ WF_loginVars(part = "login" /\ Login!CooldownCleared(b))
    /\ WF_pageVars(part = "page" /\ Page!FetchLookup /\ pageLookup[pageRoute.at] = NoValue)
    /\ WF_pageVars(part = "page" /\ Page!FetchChannel)
    /\ \A s \in {"a", "b", "c"} : WF_pageVars(part = "page" /\ Page!LandLookup(s))
    /\ \A c \in {"A", "B"} : WF_pageVars(part = "page" /\ Page!LandChannel(c))
    /\ WF_pageVars(part = "page" /\ Page!Commit)
    /\ WF_pageVars(part = "page" /\ Page!SaveAnswered)
    /\ WF_pageVars(part = "page" /\ Page!DeleteAnswered)
    /\ WF_verdictVars(part = "verdict" /\ Verdict!Take)
    /\ WF_verdictVars(part = "verdict" /\ Verdict!Attempt)
    /\ WF_verdictVars(part = "verdict" /\ Verdict!Accept)
    /\ WF_verdictVars(part = "verdict" /\ Verdict!Refused)
    /\ WF_verdictVars(part = "verdict" /\ Verdict!Answered)
    /\ WF_verdictVars(part = "verdict" /\ Verdict!Finish)
    /\ WF_verdictVars(part = "verdict" /\ \E n \in verdictLoads : Verdict!LoadLands(n))
    /\ WF_verdictVars(part = "verdict" /\ Verdict!Poll)
    /\ WF_verdictVars(part = "verdict" /\ Verdict!PollLands)
    /\ WF_freshVars(part = "fresh" /\ Fresh!Poll)
    /\ WF_freshVars(part = "fresh" /\ Fresh!FetchReads)
    /\ WF_freshVars(part = "fresh" /\ (Fresh!FetchLands \/ Fresh!FetchFails))

FairSpec == Spec /\ Fairness

-----------------------------------------------------------------------------
\* A cooldown ends by itself: nobody has to submit or reload.
CooldownEnds == Login!CooldownEnds

\* A page addressed by id ends up showing the Channel as it is, whatever
\* answers landed late over a save, or that it is gone.
PageCatchesUp == part = "page" => Page!PageCatchesUp

\* Every retry that was accepted is told its verdict, however fast the worker
\* is and whichever polls meet the answer.
VerdictArrives == Verdict!VerdictArrives

\* What a visible tab shows catches up with the API, however often it was
\* hidden, and whether a fetch settled or failed while it was.
ListCatchesUp == part = "fresh" => Fresh!ListCatchesUp

=============================================================================
