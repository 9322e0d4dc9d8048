------------------------------- MODULE Freshness -------------------------------
(***************************************************************************)
(* lib/freshness.ts and lib/pollStatus.ts: a list that is polled while the *)
(* tab is visible, stops being polled while it is hidden, takes polling up *)
(* again when it is shown, and says whether what it shows is current. The  *)
(* query library asks refetchInterval anew whenever the query changes, and *)
(* skips a fetch that falls due while the tab is hidden.                   *)
(***************************************************************************)
EXTENDS Integers

CONSTANTS
    MaxChanges,   \* bound on the changes of the list at the API
    MaxHides,     \* bound on the times the tab is hidden
    MaxFailures   \* bound on the fetches that fail

FreshnessAssumption == MaxChanges \in Nat /\ MaxHides \in Nat /\ MaxFailures \in Nat

VARIABLES
    server,       \* the list's version at the API
    visible,      \* document.visibilityState
    data,         \* the version the query holds; 0 before the first
    isError,
    fetching,     \* a fetch is under way
    read,         \* the version it has read; 0 before it has
    interval,     \* the query library's refetch interval is running
    hides, failures,
    owed          \* history: the version the refetch of the last Show must reach

vars == <<server, visible, data, isError, fetching, read, interval, hides, failures, owed>>

FreshnessRefetchInterval(shown) == shown

Init ==
    /\ server = 1 /\ visible \in BOOLEAN /\ data = 0 /\ isError = FALSE
    /\ fetching = TRUE /\ read = 0 /\ interval = FreshnessRefetchInterval(visible)
    /\ hides = 0 /\ failures = 0 /\ owed = 0

Change ==
    /\ server < MaxChanges + 1 /\ server' = server + 1
    /\ UNCHANGED <<visible, data, isError, fetching, read, interval, hides, failures, owed>>

\* The interval falls due; while the tab is hidden it passes without a fetch.
Poll ==
    /\ interval /\ visible /\ ~fetching
    /\ fetching' = TRUE /\ read' = 0
    /\ UNCHANGED <<server, visible, data, isError, interval, hides, failures, owed>>

FetchReads ==
    /\ fetching /\ read = 0 /\ read' = server
    /\ UNCHANGED <<server, visible, data, isError, fetching, interval, hides, failures, owed>>

FetchLands ==
    /\ fetching /\ read # 0 /\ fetching' = FALSE
    /\ data' = read /\ isError' = FALSE
    /\ interval' = FreshnessRefetchInterval(visible)
    /\ UNCHANGED <<server, visible, read, hides, failures, owed>>

FetchFails ==
    /\ fetching /\ fetching' = FALSE
    /\ failures < MaxFailures /\ failures' = failures + 1
    /\ isError' = TRUE
    /\ interval' = FreshnessRefetchInterval(visible)
    /\ UNCHANGED <<server, visible, data, read, hides, owed>>

Hide ==
    /\ visible /\ visible' = FALSE
    /\ hides < MaxHides /\ hides' = hides + 1
    /\ UNCHANGED <<server, data, isError, fetching, read, interval, failures, owed>>

\* The very first fetch, still under way, answers for a refetch; a later one
\* is cancelled for it.
Joins == fetching /\ data = 0

\* Mutant: polling is left to resume by itself.
RefetchOnVisible_Not == UNCHANGED <<fetching, read, interval>>

\* useRefetchOnVisible
RefetchOnVisible ==
    IF Joins THEN UNCHANGED <<fetching, read, interval>>
    ELSE fetching' = TRUE /\ read' = 0 /\ interval' = FreshnessRefetchInterval(TRUE)

Show ==
    /\ ~visible /\ visible' = TRUE
    /\ RefetchOnVisible
    /\ owed' = IF Joins THEN owed ELSE server
    /\ UNCHANGED <<server, data, isError, hides, failures>>

Next == Change \/ Poll \/ FetchReads \/ FetchLands \/ FetchFails \/ Hide \/ Show

Spec == Init /\ [][Next]_vars

\* Fetches settle, and intervals fall due.
Fairness == WF_vars(Poll) /\ WF_vars(FetchReads) /\ WF_vars(FetchLands \/ FetchFails)

FairSpec == Spec /\ Fairness

\* Mutant: what is shown counts as current while there is something to show.
PollStatus_DataOnly == IF data = 0 THEN "unknown" ELSE "ok"

\* derivePollStatus
PollStatus ==
    IF data = 0 THEN "unknown" ELSE IF isError THEN "failing" ELSE "ok"
-----------------------------------------------------------------------------
(* Properties.                                                             *)

TypeOK ==
    /\ server \in 1..MaxChanges + 1 /\ data \in 0..server
    /\ {visible, isError, fetching, interval} \subseteq BOOLEAN
    /\ {read, owed} \subseteq 0..server
    /\ hides \in 0..MaxHides /\ failures \in 0..MaxFailures

\* A shown tab never says "Updated" of a list older than what the API held when
\* it was shown, once its refetch is over; if that failed, it says so.
OkIsCurrent == visible /\ ~fetching /\ PollStatus = "ok" => data >= owed

\* What a visible tab shows catches up with the API, however often it was
\* hidden, and whether a fetch settled or failed while it was.
ListCatchesUp == \A v \in 1..MaxChanges + 1 : server = v /\ visible ~> data >= v \/ ~visible
=============================================================================
