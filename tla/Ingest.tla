------------------------------- MODULE Ingest -------------------------------
(***************************************************************************)
(* POST /ingest/:slug and the replay of a Broadcast, one awaited call at a *)
(* time, against the operator who deletes Channels, gives their slugs to   *)
(* new ones, revokes tokens and changes Endpoints while requests are under *)
(* way.                                                                    *)
(*                                                                         *)
(* A request looks its Channel up by slug, checks its token, reads a body  *)
(* chunk by chunk up to a limit, and fans out: one transaction inserts the *)
(* Broadcast, reads the enabled Endpoints and inserts a Delivery for each; *)
(* the jobs are added after the commit, and the Broadcast is deleted again *)
(* when adding them fails. Any of these calls may be refused or its reply  *)
(* lost, and the process may die between two of them. Which Channel,       *)
(* token, body and Endpoints there are is what the properties are about;   *)
(* headers, status codes and metrics are left out.                         *)
(***************************************************************************)
EXTENDS Integers, FiniteSets

CONSTANTS
    Channels, Slugs, Tokens, Endpoints, Requests,
    OwnerOf,      \* the Channel an Endpoint belongs to
    MaxBody,      \* INGEST_MAX_BODY_BYTES
    MaxChunk,     \* bound on the size of a chunk
    MaxChanges,   \* bound on the operator's changes
    MaxFaults     \* bound on failures of the database, the queue and the process

None == "none"
Revoked == "revoked"

IngestAssumption ==
    /\ OwnerOf \in [Endpoints -> Channels]
    /\ {None, Revoked} \cap (Channels \cup Tokens) = {} /\ Channels \cap Tokens = {}
    /\ MaxBody \in Nat /\ MaxChunk \in Nat \ {0} /\ MaxChanges \in Nat /\ MaxFaults \in Nat

VARIABLES
    channel,    \* the channel rows: slug, enabled, open ingest, and whether live
    owner,      \* channel_token: the Channel of each token; None before it is minted
    endpoint,   \* whether each Endpoint is enabled, disabled or gone
    request,    \* an ingest or replay request, one per element of Requests
    broadcast,  \* the Broadcast a request has committed, with its Delivery rows
    queued,     \* the Deliveries handed to the queue
    changes, failures

vars == <<channel, owner, endpoint, request, broadcast, queued, changes, failures>>
adminVars == <<channel, owner, endpoint, changes>>

Stages == {None, "token", "length", "body", "guard", "begin", "insert", "enqueue", "rollback",
           "answered"}
Replies == {None, "accepted", "unauthorized", "not_found", "payload_too_large", "error", "lost"}

\* barred and clean are history: who was out when the request arrived, and
\* that no fault has hit it but calls refused before they did anything.
Waiting == [at |-> None, token |-> None, declared |-> 0, channel |-> None,
            read |-> 0, snapshot |-> {}, reply |-> None, barred |-> {}, clean |-> TRUE]
NoBroadcast == [present |-> FALSE, channel |-> None, deliveries |-> {}]

Live(c) == channel[c].live

\* The Channels not live and the tokens revoked by now.
Barred == {c \in Channels : ~Live(c)} \cup {t \in Tokens : owner[t] = Revoked}

Init ==
    /\ channel \in [Channels -> [slug : Slugs, live : BOOLEAN, enabled : {TRUE}, open : {FALSE}]]
    /\ \A c, d \in Channels : Live(c) /\ Live(d) /\ channel[c].slug = channel[d].slug => c = d
    /\ owner \in [Tokens -> Channels \cup {None}]
    /\ endpoint = [e \in Endpoints |-> "enabled"]
    /\ request = [r \in Requests |-> Waiting]
    /\ broadcast = [r \in Requests |-> NoBroadcast]
    /\ queued = [r \in Requests |-> {}]
    /\ changes = 0 /\ failures = 0

-----------------------------------------------------------------------------
(* The requests.                                                           *)

At(r, stage) == request[r].at = stage

Answer(r, reply) == request' = [request EXCEPT ![r].at = "answered", ![r].reply = reply]

\* Mutant: finds deleted Channels as well.
Holds_AnyRow(c, slug) == channel[c].slug = slug /\ channel[c].enabled

\* getActiveChannelBySlug's WHERE.
Holds(c, slug) == channel[c].slug = slug /\ channel[c].enabled /\ Live(c)

Lookup(r) ==
    /\ At(r, None)
    /\ \E slug \in Slugs, token \in Tokens \cup {None}, declared \in {0, MaxBody + 1} :
          LET arrived == [Waiting EXCEPT !.token = token, !.declared = declared,
                                         !.barred = Barred]
          IN
          \/ \E c \in Channels :
                /\ Holds(c, slug)
                /\ request' = [request EXCEPT ![r] =
                      [arrived EXCEPT !.channel = c,
                                      !.at = IF channel[c].open THEN "length" ELSE "token"]]
          \/ /\ \A c \in Channels : ~Holds(c, slug)
             /\ request' = [request EXCEPT ![r] =
                   [arrived EXCEPT !.at = "answered", !.reply = "unauthorized"]]
    /\ UNCHANGED <<broadcast, queued, failures>> /\ UNCHANGED adminVars

\* Mutant: looks the token up by its hash alone.
Entitles_AnyChannel(token, c) == token # None /\ owner[token] \in Channels

\* findChannelTokenByHash's WHERE.
Entitles(token, c) == token # None /\ owner[token] = c

CheckToken(r) ==
    /\ At(r, "token")
    /\ IF Entitles(request[r].token, request[r].channel)
       THEN request' = [request EXCEPT ![r].at = "length"]
       ELSE Answer(r, "unauthorized")
    /\ UNCHANGED <<broadcast, queued, failures>> /\ UNCHANGED adminVars

\* Content-Length, where the sender gave one (0: none).
CheckLength(r) ==
    /\ At(r, "length")
    /\ IF request[r].declared > MaxBody
       THEN Answer(r, "payload_too_large")
       ELSE request' = [request EXCEPT ![r].at = "body"]
    /\ UNCHANGED <<broadcast, queued, failures>> /\ UNCHANGED adminVars

\* Mutant: compares before the chunk is added.
TooLarge_Before(r, chunk) == request[r].read > MaxBody

TooLarge(r, chunk) == request[r].read + chunk > MaxBody

\* onData: the body is bounded by what arrives, whatever was declared.
Data(r) ==
    /\ At(r, "body")
    /\ \E chunk \in 1..MaxChunk :
          IF TooLarge(r, chunk)
          THEN request' = [request EXCEPT ![r].at = "answered", ![r].reply = "payload_too_large",
                                          ![r].read = @ + chunk]
          ELSE request' = [request EXCEPT ![r].read = @ + chunk]
    /\ UNCHANGED <<broadcast, queued, failures>> /\ UNCHANGED adminVars

\* onEnd, or onError when the sender breaks off.
BodyEnds(r) ==
    /\ At(r, "body")
    /\ request' = [request EXCEPT ![r].at = "begin"] \/ Answer(r, "error")
    /\ UNCHANGED <<broadcast, queued, failures>> /\ UNCHANGED adminVars

\* A replay: requireChannel, then getBroadcastById for a Broadcast still there.
Guard(r) ==
    /\ At(r, None)
    /\ \E c \in Channels :
          LET arrived == [Waiting EXCEPT !.channel = c, !.barred = Barred]
          IN request' = [request EXCEPT ![r] =
                IF Live(c) THEN [arrived EXCEPT !.at = "guard"]
                ELSE [arrived EXCEPT !.at = "answered", !.reply = "not_found"]]
    /\ UNCHANGED <<broadcast, queued, failures>> /\ UNCHANGED adminVars

ReadOriginal(r) ==
    /\ At(r, "guard")
    /\ \/ /\ \E s \in Requests : broadcast[s].present /\ broadcast[s].channel = request[r].channel
          /\ request' = [request EXCEPT ![r].at = "begin"]
       \/ Answer(r, "not_found")
    /\ UNCHANGED <<broadcast, queued, failures>> /\ UNCHANGED adminVars

\* listEnabledEndpointsByChannel, after the INSERT of the Broadcast nobody
\* else sees before the commit.
ReadEndpoints(r) ==
    /\ At(r, "begin")
    /\ request' = [request EXCEPT ![r].at = "insert",
          ![r].snapshot = {e \in Endpoints : OwnerOf[e] = request[r].channel /\ endpoint[e] = "enabled"}]
    /\ UNCHANGED <<broadcast, queued, failures>> /\ UNCHANGED adminVars

\* Mutant: the rows the foreign key refuses are left out, the others stay.
Insertable_Partial(r) == TRUE

\* The foreign keys of the Deliveries: every Endpoint read is still there.
Insertable(r) == \A e \in request[r].snapshot : endpoint[e] # "gone"

Fault == failures < MaxFaults /\ failures' = failures + 1

\* What the transaction writes.
Committed(r) ==
    broadcast' = [broadcast EXCEPT ![r] =
        [present |-> TRUE, channel |-> request[r].channel,
         deliveries |-> {e \in request[r].snapshot : endpoint[e] # "gone"}]]

\* createDeliveriesForBroadcast and the commit, or the whole rolled back.
Commit(r) ==
    /\ At(r, "insert")
    /\ IF Insertable(r)
       THEN /\ Committed(r)
            /\ IF request[r].snapshot = {} THEN Answer(r, "accepted")
               ELSE request' = [request EXCEPT ![r].at = "enqueue"]
       ELSE Answer(r, "error") /\ UNCHANGED broadcast
    /\ UNCHANGED <<queued, failures>> /\ UNCHANGED adminVars

\* The rows are there, but the transaction rejects: nothing rolls them back.
CommitReplyLost(r) ==
    /\ At(r, "insert") /\ Insertable(r) /\ Fault
    /\ Committed(r)
    /\ request' = [request EXCEPT ![r].at = "answered", ![r].reply = "error", ![r].clean = FALSE]
    /\ UNCHANGED queued /\ UNCHANGED adminVars

\* A call before the commit is refused, and the transaction with it.
Refused(r) ==
    /\ request[r].at \in {None, "token", "guard", "begin", "insert"} /\ Fault
    /\ Answer(r, "error")
    /\ UNCHANGED <<broadcast, queued>> /\ UNCHANGED adminVars

EnqueueBulk(r) ==
    /\ At(r, "enqueue")
    /\ queued' = [queued EXCEPT ![r] = request[r].snapshot]
    /\ Answer(r, "accepted")
    /\ UNCHANGED <<broadcast, failures>> /\ UNCHANGED adminVars

\* enqueueBulk rejects: the jobs were refused, or added and the reply lost.
EnqueueFails(r) ==
    /\ At(r, "enqueue") /\ Fault
    /\ \/ /\ request' = [request EXCEPT ![r].at = "rollback"]
          /\ UNCHANGED queued
       \/ /\ request' = [request EXCEPT ![r].at = "rollback", ![r].clean = FALSE]
          /\ queued' = [queued EXCEPT ![r] = request[r].snapshot]
    /\ UNCHANGED broadcast /\ UNCHANGED adminVars

\* Mutant: the error is passed on and the committed rows stay.
RolledBack_Kept(r) == broadcast[r]

\* deleteBroadcastById, its Deliveries with it.
RolledBack(r) == NoBroadcast

\* The catch: the rows go, or deleting them rejects as well and they stay. (The
\* failure of addBulk has been counted; this one may be of the same outage.)
RollBack(r) ==
    /\ At(r, "rollback")
    /\ \/ /\ broadcast' = [broadcast EXCEPT ![r] = RolledBack(r)]
          /\ Answer(r, "error")
       \/ /\ request' = [request EXCEPT ![r].at = "answered", ![r].reply = "error",
                                        ![r].clean = FALSE]
          /\ UNCHANGED broadcast
    /\ UNCHANGED <<queued, failures>> /\ UNCHANGED adminVars

UnderWay(r) == request[r].at \notin {None, "answered"}

\* The API process dies: every request under way is cut off where it is.
ApiDies ==
    /\ Fault
    /\ \E r \in Requests : UnderWay(r)
    /\ request' = [r \in Requests |->
          IF ~UnderWay(r) THEN request[r]
          ELSE [request[r] EXCEPT !.at = "answered", !.reply = "lost", !.clean = FALSE]]
    /\ UNCHANGED <<broadcast, queued>> /\ UNCHANGED adminVars

-----------------------------------------------------------------------------
(* The operator.                                                           *)

Change == changes < MaxChanges /\ changes' = changes + 1

DeleteChannel(c) ==
    /\ Live(c) /\ Change
    /\ channel' = [channel EXCEPT ![c].live = FALSE]
    /\ UNCHANGED <<owner, endpoint, request, broadcast, queued, failures>>

PatchChannel(c) ==
    /\ Live(c) /\ Change
    /\ \/ channel' = [channel EXCEPT ![c].enabled = ~@]
       \/ channel' = [channel EXCEPT ![c].open = ~@]
    /\ UNCHANGED <<owner, endpoint, request, broadcast, queued, failures>>

\* channel_slug_active_key is unique among the Channels that are live.
SlugFree(slug) == \A c \in Channels : ~(Live(c) /\ channel[c].slug = slug)

\* A Channel nothing refers to yet comes to life, under a slug that is free.
CreateChannel(c) ==
    /\ ~Live(c) /\ Change
    /\ \A t \in Tokens : owner[t] # c
    /\ \A r \in Requests : request[r].channel # c
    /\ \E slug \in Slugs :
          /\ SlugFree(slug)
          /\ channel' = [channel EXCEPT ![c] =
                [slug |-> slug, live |-> TRUE, enabled |-> TRUE, open |-> FALSE]]
    /\ UNCHANGED <<owner, endpoint, request, broadcast, queued, failures>>

\* requireChannel and the INSERT, taken as one.
MintToken(t) ==
    /\ owner[t] = None /\ Change
    /\ \E c \in Channels : Live(c) /\ owner' = [owner EXCEPT ![t] = c]
    /\ UNCHANGED <<channel, endpoint, request, broadcast, queued, failures>>

\* Revocation deletes the row; it asks nothing of the Channel.
RevokeToken(t) ==
    /\ owner[t] \in Channels /\ Change
    /\ owner' = [owner EXCEPT ![t] = Revoked]
    /\ UNCHANGED <<channel, endpoint, request, broadcast, queued, failures>>

SwitchEndpoint(e) ==
    /\ endpoint[e] # "gone" /\ Change
    /\ endpoint' = [endpoint EXCEPT ![e] = IF @ = "enabled" THEN "disabled" ELSE "enabled"]
    /\ UNCHANGED <<channel, owner, request, broadcast, queued, failures>>

\* Its Deliveries go with it.
DeleteEndpoint(e) ==
    /\ endpoint[e] # "gone" /\ Change
    /\ endpoint' = [endpoint EXCEPT ![e] = "gone"]
    /\ broadcast' = [r \in Requests |-> [broadcast[r] EXCEPT !.deliveries = @ \ {e}]]
    /\ UNCHANGED <<channel, owner, request, queued, failures>>

Operate ==
    \/ \E c \in Channels : DeleteChannel(c) \/ PatchChannel(c) \/ CreateChannel(c)
    \/ \E t \in Tokens : MintToken(t) \/ RevokeToken(t)
    \/ \E e \in Endpoints : SwitchEndpoint(e) \/ DeleteEndpoint(e)

Step(r) ==
    \/ Lookup(r) \/ CheckToken(r) \/ CheckLength(r) \/ Data(r) \/ BodyEnds(r)
    \/ Guard(r) \/ ReadOriginal(r)
    \/ ReadEndpoints(r) \/ Commit(r) \/ CommitReplyLost(r) \/ Refused(r)
    \/ EnqueueBulk(r) \/ EnqueueFails(r) \/ RollBack(r)

Next == Operate \/ ApiDies \/ \E r \in Requests : Step(r)

Spec == Init /\ [][Next]_vars
-----------------------------------------------------------------------------
(* Properties.                                                             *)

TypeOK ==
    /\ channel \in [Channels -> [slug : Slugs, live : BOOLEAN, enabled : BOOLEAN, open : BOOLEAN]]
    /\ owner \in [Tokens -> Channels \cup {None, Revoked}]
    /\ endpoint \in [Endpoints -> {"enabled", "disabled", "gone"}]
    /\ request \in [Requests -> [at : Stages, token : Tokens \cup {None}, declared : Nat,
                                 channel : Channels \cup {None}, read : Nat,
                                 snapshot : SUBSET Endpoints, reply : Replies,
                                 barred : SUBSET (Channels \cup Tokens),
                                 clean : BOOLEAN]]
    /\ broadcast \in [Requests -> [present : BOOLEAN, channel : Channels \cup {None},
                                   deliveries : SUBSET Endpoints]]
    /\ queued \in [Requests -> SUBSET Endpoints]
    /\ changes \in 0..MaxChanges /\ failures \in 0..MaxFaults

\* A request that arrives after its Channel was deleted never gets a Broadcast
\* into it, not even when the slug has a new Channel by then. (One that was
\* checked before the deletion and still reads its body does.)
DeletedTakesNothingNew ==
    \A r \in Requests : broadcast[r].present => broadcast[r].channel \notin request[r].barred

TokenScopedStep ==
    \A r \in Requests : At(r, "token") /\ At(r, "length")' =>
       /\ owner[request[r].token] = request[r].channel
       /\ request[r].token \notin request[r].barred

\* A token lets requests into the Channel it was minted for and no other,
\* whichever Channels have held the slug it was first used with; and never
\* when it was revoked before the request arrived.
TokenScoped == [][TokenScopedStep]_vars

\* What is read is within the limit, and only a request that declared or sent
\* more is refused for its size.
BodyBounded ==
    \A r \in Requests :
        /\ request[r].at \in {"begin", "insert", "enqueue", "rollback"} =>
              request[r].read <= MaxBody
        /\ request[r].reply = "payload_too_large" =>
              request[r].declared > MaxBody \/ request[r].read > MaxBody

\* Whatever fails, the rows of a request are all of its snapshot that still
\* exists, or none. An accepted request has them, and a job for every one. A
\* request answered otherwise has left neither rows nor jobs, as long as every
\* call that failed on its way had no effect and the rollback went through.
\* (Lost replies, a refused rollback and the death of the process do leave rows
\* without jobs, or jobs without rows, behind an answer that is not "accepted".)
AllOrNothing ==
    \A r \in Requests :
        /\ broadcast[r].present =>
              broadcast[r].deliveries = {e \in request[r].snapshot : endpoint[e] # "gone"}
        /\ At(r, "answered") =>
              IF request[r].reply = "accepted"
              THEN broadcast[r].present /\ queued[r] = request[r].snapshot
              ELSE request[r].clean => ~broadcast[r].present /\ queued[r] = {}

SnapshotWholeStep ==
    \A r \in Requests : ~broadcast[r].present /\ broadcast'[r].present =>
       /\ broadcast'[r].deliveries = request[r].snapshot
       /\ \A e \in request[r].snapshot : OwnerOf[e] = request[r].channel /\ endpoint[e] # "gone"

\* A Broadcast appears with a Delivery for every Endpoint of its Channel that
\* was enabled when the transaction looked, each of which still exists: an
\* Endpoint deleted in between costs the request, not one of its Deliveries.
SnapshotWhole == [][SnapshotWholeStep]_vars
=============================================================================
