---------------------------- MODULE FailureRollup ----------------------------
(***************************************************************************)
(* The failures of a Channel by Endpoint: the roll-up the API ranks, and   *)
(* the view that opens and closes its groups, whose expansion is kept in   *)
(* the address bar while Endpoints drop out of the polled roll-up and come *)
(* back.                                                                   *)
(***************************************************************************)
EXTENDS Paging, Functions

CONSTANTS
    Endpoints,  \* 1..n, in the order of their names
    NoData,     \* a query that has not loaded
    NoEndpoint, \* the null of defaultOpenIdRef
    Absent      \* no ?endpoint= in the address

RollupAssumption ==
    /\ Endpoints \subseteq Int /\ IsFiniteSet(Endpoints) /\ NoEndpoint \notin Endpoints
    /\ NoData \notin Seq(Endpoints) /\ Absent \notin Seq(Endpoints)

VARIABLES
    failing,   \* in the last 24 h: "no" failures, "failed", "dead" lettered, or switched "off"
    poll,      \* the roll-up on its way
    data,      \* the query's data: the ranked Endpoints
    known,     \* lastKnownRef
    default,   \* defaultOpenIdRef
    param      \* the text of ?endpoint=, as the sequence of its ids

vars == <<failing, poll, data, known, default, param>>

Severities == <<"no", "failed", "dead", "off">>
SeverityOf(e) == CHOOSE i \in 1..4 : Severities[i] = failing[e]

\* Auto-disabled first, then dead letters, then failures, then the name.
RanksBefore(a, b) ==
    SeverityOf(a) > SeverityOf(b) \/ (SeverityOf(a) = SeverityOf(b) /\ a < b)

\* getFailureRollupForChannel
Rollup == InOrder({e \in Endpoints : failing[e] # "no"}, RanksBefore)

\* A page opened with an address of its own, on whatever is failing.
Init ==
    /\ failing \in [Endpoints -> Range(Severities)]
    /\ poll = NoData /\ data = NoData
    /\ known = {} /\ default = NoEndpoint
    /\ param \in {Absent, <<>>} \cup {<<e>> : e \in Endpoints}

-----------------------------------------------------------------------------
(* What the view derives.                                                  *)

\* Mutant: an empty text is no choice.
HasParam_NonEmpty == param \notin {Absent, <<>>}

HasParam == param # Absent

Live == IF data = NoData THEN {} ELSE Range(data)

\* expandedEndpointIdsFromParams, or the default.
Expanded == IF HasParam THEN Range(param) ELSE {default} \ {NoEndpoint}

\* Mutant: only what the server lists is shown.
Cleared_Never == {}

\* Expanded groups the server lists no more but this page has seen.
Cleared == (Expanded \ Live) \cap known

Displayed == IF data = NoData THEN {} ELSE Live \cup Cleared

\* Mutant: the top of the list, as it is by now.
Latched_Live(items) == IF items = <<>> THEN NoEndpoint ELSE items[1]

\* Mutant: the latch is taken in an effect, which renders nothing.
Latched_Late(items) == IF data = NoData THEN default ELSE Latched_Live(data)

\* The latch, taken while rendering.
Latched(items) ==
    IF ~HasParam /\ default = NoEndpoint /\ items # <<>> THEN items[1] ELSE default

-----------------------------------------------------------------------------
\* A Delivery fails, succeeds on retry or leaves the window; an Endpoint is
\* switched off for failing, or on again.
Deliver(e, severity) ==
    /\ failing[e] # severity
    /\ failing' = [failing EXCEPT ![e] = severity]
    /\ UNCHANGED <<poll, data, known, default, param>>

\* GET /channels/:channelId/failures
Poll ==
    /\ poll = NoData /\ poll' = Rollup
    /\ UNCHANGED <<failing, data, known, default, param>>

\* The render takes the latch, the effect remembers the rows.
PollLands ==
    /\ poll # NoData
    /\ data' = poll /\ poll' = NoData
    /\ default' = Latched(poll)
    /\ known' = known \cup Range(poll)
    /\ UNCHANGED <<failing, param>>

\* expandedEndpointIdsToSearchValue of the set, in an order of its own.
SearchValue(ids) == InOrder(ids, LAMBDA d, e : d < e)

\* toggleGroup
Toggle(e) ==
    /\ e \in Displayed
    /\ param' = SearchValue(IF e \in Expanded THEN Expanded \ {e} ELSE Expanded \cup {e})
    /\ UNCHANGED <<failing, poll, data, known, default>>

\* The page is loaded again, or left and opened again, at the same address.
Reload ==
    /\ data' = NoData /\ poll' = NoData
    /\ known' = {} /\ default' = NoEndpoint
    /\ UNCHANGED <<failing, param>>

Next ==
    \/ \E e \in Endpoints, s \in Range(Severities) : Deliver(e, s)
    \/ Poll \/ PollLands \/ Reload
    \/ \E e \in Endpoints : Toggle(e)

Spec == Init /\ [][Next]_vars
-----------------------------------------------------------------------------
(* Properties.                                                             *)

TypeOK ==
    /\ failing \in [Endpoints -> Range(Severities)]
    /\ poll = NoData \/ Range(poll) \subseteq Endpoints
    /\ data = NoData \/ Range(data) \subseteq Endpoints
    /\ known \subseteq Endpoints /\ Live \subseteq known
    /\ default \in Endpoints \cup {NoEndpoint}
    /\ param = Absent \/ IsInjective(param)

StaysOpenStep ==
    \A e \in Expanded \cap Displayed :
       e \in Expanded' \cap Displayed' \/ Toggle(e) \/ Reload

\* A group opened by default or by the operator stays open and on screen,
\* cleared if need be, until it is toggled or the page is loaded again.
StaysOpen == [][StaysOpenStep]_vars

\* Having collapsed everything, the operator finds nothing open, whatever
\* fails next and after a reload too.
CollapseAllHolds == param = <<>> => Expanded = {}

\* Without a choice in the address, the page that shows failures shows those
\* of one Endpoint with no click.
OpensOne == (param = Absent /\ Live # {}) => Expanded # {}
=============================================================================
