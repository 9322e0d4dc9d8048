---------------------------- MODULE ReplayBroadcast ----------------------------
(***************************************************************************)
(* The confirmed replay of a Broadcast, and the number of Endpoints its    *)
(* question names, while Endpoints are switched on and off: the panel's    *)
(* query fetches them when it mounts and when the question opens, and any  *)
(* fetch may fail.                                                         *)
(***************************************************************************)
EXTENDS Integers, FiniteSets

CONSTANTS
    Endpoints,
    None,         \* an empty cache, or nothing under way
    MaxAsked,     \* bound on the questions asked
    MaxSwitches   \* bound on the Endpoints switched

ReplayAssumption ==
    /\ \A known \in SUBSET Endpoints : known # None
    /\ None \notin [read : {None} \cup SUBSET Endpoints]
    /\ IsFiniteSet(Endpoints)
    /\ MaxAsked \in Nat /\ MaxSwitches \in Nat

VARIABLES
    enabled,     \* the Channel's enabled Endpoints
    endpoints,   \* the query cache's copy of them
    refetch,     \* None, or the query's fetch under way and what it has read
    isError,     \* the last fetch to settle failed; what it was to replace is kept
    asking,      \* `confirming`
    replaying, replayed, replayError,
    sent,        \* the replay requests under way
    seen,        \* history: the numbers that were true while the question was open
    joined,      \* history: the question's refetch was a fetch under way before it
    asked, switches

query == <<endpoints, refetch, isError, joined>>
vars == <<query, enabled, asking, replaying, replayed, replayError, sent, seen, asked, switches>>

Started == [read |-> None]

\* The panel mounts: what the Endpoints tab has left in the cache is shown, and
\* fetched again.
Init ==
    /\ enabled \in SUBSET Endpoints /\ endpoints \in {None, enabled}
    /\ refetch = Started /\ isError = FALSE /\ joined = FALSE
    /\ asking = FALSE /\ replaying = FALSE /\ replayed = FALSE /\ replayError = FALSE
    /\ sent = 0 /\ seen = {} /\ asked = 0 /\ switches = 0

Switch(e) ==
    /\ switches < MaxSwitches /\ switches' = switches + 1
    /\ enabled' = IF e \in enabled THEN enabled \ {e} ELSE enabled \cup {e}
    /\ seen' = IF asking THEN seen \cup {Cardinality(enabled')} ELSE seen
    /\ UNCHANGED <<query, asking, replaying, replayed, replayError, sent, asked>>

\* Mutant: the question is asked on what the cache happens to hold.
Refetches_Not == UNCHANGED <<refetch, joined>>

\* The effect on [confirming]: refetch() drops the fetch under way for one of
\* its own, but joins it as long as the query has no data at all.
Refetches ==
    IF refetch # None /\ endpoints = None
    THEN joined' = TRUE /\ UNCHANGED refetch
    ELSE joined' = FALSE /\ refetch' = Started

OpenReplay ==
    /\ ~asking /\ asked < MaxAsked
    /\ asking' = TRUE /\ replayed' = FALSE
    /\ asked' = asked + 1
    /\ seen' = {Cardinality(enabled)}
    /\ Refetches
    /\ UNCHANGED <<enabled, endpoints, isError, replaying, replayError, sent, switches>>

\* The browser's tab comes back: a fetch, unless one is under way.
Focus ==
    /\ refetch = None /\ refetch' = Started
    /\ UNCHANGED <<endpoints, isError, joined, enabled, asking, replaying, replayed, replayError>>
    /\ UNCHANGED <<sent, seen, asked, switches>>

\* GET /channels/:channelId/endpoints
RefetchReads ==
    /\ refetch = Started /\ refetch' = [read |-> enabled]
    /\ UNCHANGED <<endpoints, isError, joined, enabled, asking, replaying, replayed, replayError>>
    /\ UNCHANGED <<sent, seen, asked, switches>>

RefetchLands ==
    /\ refetch # None /\ refetch # Started /\ refetch' = None
    /\ endpoints' = refetch.read /\ isError' = FALSE
    /\ UNCHANGED <<joined, enabled, asking, replaying, replayed, replayError>>
    /\ UNCHANGED <<sent, seen, asked, switches>>

RefetchFails ==
    /\ refetch # None /\ refetch' = None
    /\ isError' = TRUE
    /\ UNCHANGED <<endpoints, joined, enabled, asking, replaying, replayed, replayError>>
    /\ UNCHANGED <<sent, seen, asked, switches>>

CancelReplay ==
    /\ asking
    /\ asking' = FALSE /\ replayError' = FALSE
    /\ UNCHANGED <<query, enabled, replaying, replayed, sent, seen, asked, switches>>

\* Mutant: the button is live while the request is under way.
ReplayBusy_Never == FALSE

ReplayBusy == replaying

ConfirmReplay ==
    /\ asking /\ ~ReplayBusy
    /\ replaying' = TRUE /\ replayError' = FALSE
    /\ sent' = sent + 1
    /\ UNCHANGED <<query, enabled, asking, replayed, seen, asked, switches>>

ReplayAnswered ==
    /\ sent > 0 /\ sent' = sent - 1
    /\ replaying' = FALSE
    /\ \/ replayed' = TRUE /\ asking' = FALSE /\ UNCHANGED replayError
       \/ replayError' = TRUE /\ UNCHANGED <<replayed, asking>>
    /\ UNCHANGED <<query, enabled, seen, asked, switches>>

Next ==
    \/ \E e \in Endpoints : Switch(e)
    \/ OpenReplay \/ CancelReplay \/ ConfirmReplay \/ ReplayAnswered
    \/ Focus \/ RefetchReads \/ RefetchLands \/ RefetchFails

Spec == Init /\ [][Next]_vars
-----------------------------------------------------------------------------
(* Properties.                                                             *)

TypeOK ==
    /\ enabled \subseteq Endpoints
    /\ endpoints = None \/ endpoints \subseteq Endpoints
    /\ {isError, joined, asking, replaying, replayed, replayError} \subseteq BOOLEAN
    /\ seen \subseteq 0..Cardinality(Endpoints)
    /\ asked \in 0..MaxAsked /\ switches \in 0..MaxSwitches

\* Once the question's refetch has landed, the number of Endpoints it names
\* was right at some time while it was being asked, whatever fetches were under
\* way before. (Not after a refetch that failed, when the last number is shown
\* again, nor when the very first fetch was still out and was joined.)
AsksOfNow ==
    (asking /\ refetch = None /\ endpoints # None /\ ~isError /\ ~joined)
        => Cardinality(endpoints) \in seen

\* A Broadcast is never replayed twice at once from one panel, however the
\* question is confirmed, waved away and asked again while a replay is out.
OneReplayAtOnce == sent <= 1
=============================================================================
