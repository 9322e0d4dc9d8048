------------------------------ MODULE HealthReads ------------------------------
(***************************************************************************)
(* What the admin API reads out of the Delivery rows, and the lamp the     *)
(* dashboard puts in front of each answer. A Channel's badge, the roll-up  *)
(* of its failures, an Endpoint's success rate and a Broadcast's fan-out   *)
(* are queries of their own, over the same rows. A page of the directory   *)
(* is put together of two reads with an await between them: one ranks its  *)
(* Channels, the other hydrates them, both with the `now` of the request.  *)
(*                                                                         *)
(* A row's time is its age: updatedAt against now, of interest only once   *)
(* the Delivery is closed. The window of 24 hours is Window of them.       *)
(***************************************************************************)
EXTENDS Integers, FiniteSetsExt

CONSTANTS
    Channels,
    Endpoints,
    HomeOf,       \* the Channel an Endpoint is created in
    Broadcasts,   \* rows that may exist at once
    Window,
    MaxRows,      \* bound on the Deliveries there are at once
    MaxListed,    \* bound on them while a page is under way
    None

Open == {"pending", "in_progress"}
Broken == {"failed", "dead_lettered"}
Closed == Broken \cup {"succeeded"}

HealthAssumption ==
    /\ HomeOf \in [Endpoints -> Channels] /\ Window \in Nat
    /\ MaxRows \in Nat /\ MaxListed \in Nat
    /\ IsFiniteSet(Endpoints) /\ IsFiniteSet(Broadcasts)
    /\ None \notin Channels /\ None \notin [enabled : BOOLEAN, auto : BOOLEAN]
    /\ None \notin [status : Open \cup Closed, age : Nat]

VARIABLES
    switch,       \* switch[c]: the Channel is enabled
    endpoint,     \* endpoint[e]: None, or whether it is enabled and marked auto-disabled
    broadcast,    \* broadcast[b]: None, or its Channel
    delivery,     \* delivery[<<b, e>>]: None, or its status and age
    listed        \* None, or a Channel as listChannels has read it for a page under way

vars == <<switch, endpoint, broadcast, delivery, listed>>

Pairs == Broadcasts \X Endpoints

Init ==
    /\ switch = [c \in Channels |-> TRUE]
    /\ endpoint = [e \in Endpoints |-> [enabled |-> TRUE, auto |-> FALSE]]
    /\ broadcast = [b \in Broadcasts |-> None]
    /\ delivery = [p \in Pairs |-> None]
    /\ listed = None

-----------------------------------------------------------------------------
(* What changes the rows.                                                  *)

Exists(p) == delivery[p] # None
Rows == Cardinality({p \in Pairs : Exists(p)})
Row(status) == [status |-> status, age |-> 0]

\* Of a page under way whose Channel has been written since, that much is kept.
Overtaken(c) ==
    [channel |-> c, enabled |-> FALSE, rank |-> 2, failures |-> 0, off |-> 0,
     recent |-> {}, moved |-> TRUE]

\* A write to a Delivery or an Endpoint of c.
Moves(c) == listed' = IF listed # None /\ listed.channel = c THEN Overtaken(c) ELSE listed

\* Ingest: the Broadcast, and a Delivery to each Endpoint that is on.
Accept(b, c) ==
    /\ broadcast[b] = None /\ switch[c]
    /\ broadcast' = [broadcast EXCEPT ![b] = c]
    /\ delivery' = [p \in Pairs |->
          IF p[1] = b /\ HomeOf[p[2]] = c /\ endpoint[p[2]] # None
             /\ endpoint[p[2]] = [enabled |-> TRUE, auto |-> FALSE]
          THEN Row("pending") ELSE delivery[p]]
    /\ Rows' <= IF listed = None THEN MaxRows ELSE MaxListed
    /\ UNCHANGED <<switch, endpoint, listed>>

Becomes(p, from, to) ==
    /\ Exists(p) /\ delivery[p].status \in from
    /\ delivery' = [delivery EXCEPT ![p] = Row(to)]
    /\ Moves(HomeOf[p[2]])
    /\ UNCHANGED <<switch, endpoint, broadcast>>

Start(p) == Becomes(p, Open, "in_progress")

\* A retryable outcome puts it back to pending.
Complete(p, status) == Becomes(p, {"in_progress"}, status)

Retry(p) == Becomes(p, {"dead_lettered"}, "pending")

\* After a terminal failure, if its streak is long enough.
AutoDisable(e) ==
    /\ endpoint[e] # None /\ ~endpoint[e].auto
    /\ \E b \in Broadcasts : Exists(<<b, e>>) /\ delivery[<<b, e>>].status \in Broken
    /\ endpoint' = [endpoint EXCEPT ![e] = [enabled |-> FALSE, auto |-> TRUE]]
    /\ Moves(HomeOf[e])
    /\ UNCHANGED <<switch, broadcast, delivery>>

Switch(e) ==
    /\ endpoint[e] # None
    /\ endpoint' = [endpoint EXCEPT ![e] =
          [enabled |-> ~@.enabled, auto |-> @.auto /\ @.enabled]]
    /\ Moves(HomeOf[e])
    /\ UNCHANGED <<switch, broadcast, delivery>>

SwitchChannel(c) ==
    /\ switch' = [switch EXCEPT ![c] = ~@]
    /\ UNCHANGED <<endpoint, broadcast, delivery, listed>>

\* Its Deliveries cascade; one of the same url may be created later.
DeleteEndpoint(e) ==
    /\ endpoint[e] # None
    /\ endpoint' = [endpoint EXCEPT ![e] = None]
    /\ delivery' = [p \in Pairs |-> IF p[2] = e THEN None ELSE delivery[p]]
    /\ Moves(HomeOf[e])
    /\ UNCHANGED <<switch, broadcast>>

CreateEndpoint(e) ==
    /\ endpoint[e] = None
    /\ endpoint' = [endpoint EXCEPT ![e] = [enabled |-> TRUE, auto |-> FALSE]]
    /\ UNCHANGED <<switch, broadcast, delivery, listed>>

\* The retention sweep, of a Broadcast however recent its Deliveries' outcomes.
Prune(b) ==
    /\ broadcast[b] # None
    /\ broadcast' = [broadcast EXCEPT ![b] = None]
    /\ delivery' = [p \in Pairs |-> IF p[1] = b THEN None ELSE delivery[p]]
    /\ Moves(broadcast[b])
    /\ UNCHANGED <<switch, endpoint>>

-----------------------------------------------------------------------------
(* The two reads of a page of the directory.                               *)

In(statuses) == {p \in Pairs : Exists(p) /\ delivery[p].status \in statuses}

\* updatedAt >= since, for a `now` taken now.
Recent == {p \in Pairs : Exists(p) /\ delivery[p].age <= Window}

\* Mutant: a Delivery that spent its retries is not a failure of the badge.
FailuresSince_FailedOnly(c, recent) ==
    Cardinality({p \in In({"failed"}) \cap recent : broadcast[p[1]] = c})

\* getRecentFailureCountsByChannelIds and the sum toWireChannel makes of it:
\* by the Channel the Delivery row names, which is its Broadcast's.
FailuresSince(c, recent) ==
    Cardinality({p \in In(Broken) \cap recent : broadcast[p[1]] = c})

\* create, get and patch take a `now` of their own.
FailureCount(c) == FailuresSince(c, Recent)

\* getAutoDisabledEndpointCountsByChannelIds
AutoDisabledCount(c) ==
    Cardinality({e \in Endpoints : endpoint[e] # None /\ endpoint[e].auto /\ HomeOf[e] = c})

\* channelHealthRankSql
HealthRank(c) ==
    IF ~switch[c] THEN 2 ELSE IF AutoDisabledCount(c) > 0 \/ FailureCount(c) > 0 THEN 0 ELSE 1

\* listChannels: a Channel of the page, its rank and its severity's legs. What
\* is recent for this `now` stays so, however late it is asked for again.
ListChannels(c) ==
    /\ listed = None /\ Rows <= MaxListed
    /\ listed' = [channel |-> c, enabled |-> switch[c], rank |-> HealthRank(c),
                  failures |-> FailureCount(c), off |-> AutoDisabledCount(c),
                  recent |-> Recent, moved |-> FALSE]
    /\ UNCHANGED <<switch, endpoint, broadcast, delivery>>

\* Mutant: hydrateChannels takes a `now` of its own.
HydratedFailures_FreshNow(c) == FailureCount(c)

\* hydrateChannels counts by the `now` listChannels was given.
HydratedFailures(c) == FailuresSince(c, listed.recent)

\* hydrateChannels has counted, and the page is answered.
Hydrate ==
    /\ listed # None /\ listed' = None
    /\ UNCHANGED <<switch, endpoint, broadcast, delivery>>

Tick ==
    /\ delivery' = [p \in Pairs |->
          IF Exists(p) /\ delivery[p].status \in Closed /\ delivery[p].age <= Window
          THEN [delivery[p] EXCEPT !.age = @ + 1] ELSE delivery[p]]
    /\ delivery' # delivery
    /\ UNCHANGED <<switch, endpoint, broadcast, listed>>

Next ==
    \/ \E b \in Broadcasts : Prune(b) \/ \E c \in Channels : Accept(b, c)
    \/ \E p \in Pairs :
          Start(p) \/ Retry(p) \/ \E status \in Closed \cup {"pending"} : Complete(p, status)
    \/ \E e \in Endpoints : AutoDisable(e) \/ Switch(e) \/ DeleteEndpoint(e) \/ CreateEndpoint(e)
    \/ \E c \in Channels : SwitchChannel(c) \/ ListChannels(c)
    \/ Hydrate \/ Tick

Spec == Init /\ [][Next]_vars
-----------------------------------------------------------------------------
(* The queries of the other answers.                                       *)

\* getChannelIdsWithAnyBroadcast
HasBroadcasts(c) == \E b \in Broadcasts : broadcast[b] = c

\* getFailureRollupForChannel: by the Channel of the Endpoint it joins.
Failures(e) == {p \in In(Broken) \cap Recent : p[2] = e}
Rollup(c) == {e \in Endpoints : endpoint[e] # None /\ HomeOf[e] = c /\ Failures(e) # {}}

Dead(e) == Cardinality({p \in Failures(e) : delivery[p].status = "dead_lettered"})

\* Mutant: by the number of failures, of either kind.
Severity_MostFailures(e) == <<IF endpoint[e].auto THEN 1 ELSE 0, Cardinality(Failures(e))>>

\* The legs of its ORDER BY, worst first; the age and the name break ties.
Severity(e) ==
    <<IF endpoint[e].auto THEN 1 ELSE 0, Dead(e), Cardinality(Failures(e)) - Dead(e)>>

RanksBefore(e, f) ==
    \E i \in DOMAIN Severity(e) :
        /\ Severity(e)[i] > Severity(f)[i]
        /\ \A j \in 1..(i - 1) : Severity(e)[j] = Severity(f)[j]

\* listBroadcastsForEndpointFailures, all its pages
FailureList(e) == {b \in Broadcasts : Exists(<<b, e>>) /\ delivery[<<b, e>>].status \in Broken}

\* Mutant: what spent its retries counts neither for nor against.
Rated_FailedOnly(e) == {p \in In({"succeeded", "failed"}) \cap Recent : p[2] = e}

\* The denominator of successRate24h.
Rated(e) == {p \in In(Closed) \cap Recent : p[2] = e}

Succeeded(e) == {p \in Rated(e) : delivery[p].status = "succeeded"}

\* Mutant: one the worker is working on is in no column.
PendingIn_Waiting(b) == {p \in In({"pending"}) : p[1] = b}

PendingIn(b) == {p \in In(Open) : p[1] = b}

\* getFanoutSummariesByBroadcastIds, or EMPTY_FANOUT_SUMMARY.
Fanout(b) ==
    [total |-> Cardinality({p \in Pairs : Exists(p) /\ p[1] = b}),
     succeeded |-> Cardinality({p \in In({"succeeded"}) : p[1] = b}),
     failed |-> Cardinality({p \in In({"failed"}) : p[1] = b}),
     deadLettered |-> Cardinality({p \in In({"dead_lettered"}) : p[1] = b}),
     pending |-> Cardinality(PendingIn(b))]

\* listDeliveriesForBroadcast, a join with the Endpoints.
Detail(b) == {e \in Endpoints : Exists(<<b, e>>) /\ endpoint[e] # None}

-----------------------------------------------------------------------------
(* The lamps.                                                              *)

\* Mutant: a Channel whose history has been swept shows no activity.
ChannelHealthLamp_ActivityFirst(enabled, failures, off, active) ==
    IF ~active THEN "no activity"
    ELSE IF failures > 0 \/ off > 0 THEN (IF enabled THEN "cut" ELSE "parked") ELSE "live"

\* Of a Channel as the API has answered it.
ChannelHealthLamp(enabled, failures, off, active) ==
    IF failures > 0 \/ off > 0 THEN (IF enabled THEN "cut" ELSE "parked")
    ELSE IF active THEN "live" ELSE "no activity"

EndpointHealthLamp(e) ==
    CASE endpoint[e].auto -> "cut"
      [] ~endpoint[e].auto /\ ~endpoint[e].enabled -> "off"
      [] OTHER -> IF Rated(e) = {} THEN "no activity"
                  ELSE IF Succeeded(e) # Rated(e) THEN "cut" ELSE "live"

\* The glyph of a group of the roll-up.
EndpointFailureLamp(e) == IF endpoint[e].auto \/ Dead(e) > 0 THEN "stopped" ELSE "failed"

\* Mutant: only what spent its retries is broken.
BroadcastFanoutLamp_DeadOnly(b) ==
    LET fanout == Fanout(b) IN
    IF fanout.total = 0 THEN "no endpoints"
    ELSE IF fanout.deadLettered > 0 THEN "cut"
    ELSE IF fanout.pending > 0 THEN "working" ELSE "live"

BroadcastFanoutLamp(b) ==
    LET fanout == Fanout(b) IN
    IF fanout.total = 0 THEN "no endpoints"
    ELSE IF fanout.deadLettered > 0 \/ fanout.failed > 0 THEN "cut"
    ELSE IF fanout.pending > 0 THEN "working" ELSE "live"

-----------------------------------------------------------------------------
(* Properties.                                                             *)

TypeOK ==
    /\ switch \in [Channels -> BOOLEAN]
    /\ endpoint \in [Endpoints -> [enabled : BOOLEAN, auto : BOOLEAN] \cup {None}]
    /\ broadcast \in [Broadcasts -> Channels \cup {None}]
    /\ delivery \in [Pairs -> [status : Open \cup Closed, age : 0..(Window + 1)] \cup {None}]
    /\ listed # None =>
          listed \in [channel : Channels, enabled : BOOLEAN, rank : 0..2,
                     failures : Nat, off : Nat, recent : SUBSET Pairs, moved : BOOLEAN]

\* The badge of a Channel is the sum of its roll-up, though one query counts
\* Deliveries by their own Channel and the other by their Endpoint's, whatever
\* has been retried, pruned, deleted or has grown old.
BadgeIsRollup ==
    \A c \in Channels : FailureCount(c) = MapThenSumSet(LAMBDA e : Cardinality(Failures(e)), Rollup(c))

\* The directory's order and its lamps agree on what needs attention, though
\* one is ranked by SQL and the other drawn from counts read later: however
\* much time passes between the two reads, and whatever Channel is switched or
\* gets Endpoints or Broadcasts meanwhile, the counts are those the Channel was
\* ranked by, and it is among the first exactly if its lamp is cut. (Not if a
\* Delivery or an Endpoint of it is written between the reads.)
RankMatchesLamp ==
    listed # None /\ ~listed.moved =>
        LET c == listed.channel
            failures == HydratedFailures(c)
            off == AutoDisabledCount(c)
        IN
        /\ failures = listed.failures /\ off = listed.off
        /\ listed.rank = 0
              <=> ChannelHealthLamp(listed.enabled, failures, off, HasBroadcasts(c)) = "cut"

\* The lamp of an Endpoint that is on is cut exactly while the roll-up lists
\* it, though one is drawn from a rate and the other from two counts.
RowMatchesRollup ==
    \A e \in Endpoints :
        endpoint[e] # None /\ endpoint[e].enabled =>
            (EndpointHealthLamp(e) = "cut" <=> e \in Rollup(HomeOf[e]))

\* Going down the groups of a Channel, the glyphs get no worse: one is ordered
\* by SQL, the other drawn from the counts.
GlyphsFollowRank ==
    \A c \in Channels : \A e, f \in Rollup(c) :
        RanksBefore(e, f) /\ EndpointFailureLamp(f) = "stopped" => EndpointFailureLamp(e) = "stopped"

\* A Broadcast found under a failing Endpoint never wears a healthy lamp.
NoHealthyFailure ==
    \A e \in Endpoints : \A b \in FailureList(e) : BroadcastFanoutLamp(b) = "cut"

\* The columns of the fan-out add up to its total, and the detail of the
\* Broadcast has a row for each, whatever Endpoint has been deleted since.
FanoutAddsUp ==
    \A b \in Broadcasts :
        LET fanout == Fanout(b) IN
        /\ fanout.total = fanout.succeeded + fanout.failed + fanout.deadLettered + fanout.pending
        /\ fanout.total = Cardinality(Detail(b))
=============================================================================
