---------------------------- MODULE EndpointAdmin ----------------------------
(***************************************************************************)
(* The admin routes of the Endpoints: create, update and delete, each a    *)
(* check of the Channel followed by a write that no transaction joins to   *)
(* it, under a list that is read page by page, and the worker that         *)
(* disables what keeps failing.                                            *)
(***************************************************************************)
EXTENDS Paging

CONSTANTS
    Channels,
    Endpoints,    \* every Endpoint that is ever created, by the order of its id
    Urls,         \* in their order
    Unsafe,       \* the URLs assertSafeEndpointUrl refuses
    Calls,        \* requests that may be under way at once
    First,        \* First[e]: the row e has at first, or None
    Limit,        \* Endpoints to a page
    MaxChanges,   \* bound on the requests made
    None

VARIABLES
    live,         \* the Channels without deletedAt
    row,          \* row[e]: None, or e's row
    minted,       \* the Endpoints created so far
    call,         \* call[k]: None, or a request that requireChannel has let through
    walk,         \* None, or a client reading the list of a Channel page by page
    changes

vars == <<live, row, minted, call, walk, changes>>

Endpoint == [channel : Channels, url : Urls, enabled : BOOLEAN, auto : BOOLEAN]

AdminAssumption ==
    /\ First \in [Endpoints -> Endpoint \cup {None}]
    /\ \A e \in Endpoints : First[e] # None => ~(First[e].enabled /\ First[e].auto)
    /\ Endpoints \subseteq Int /\ IsFiniteSet(Endpoints) /\ Urls \subseteq Int
    /\ Limit \in Nat \ {0} /\ MaxChanges \in Nat
    /\ None \notin Endpoints \cup Urls \cup Endpoint \cup (Urls \X Endpoints)

\* What a request may ask: a PATCH leaves out what it does not change.
Bodies ==
    [op : {"create"}, endpoint : {None}, url : Urls, enabled : BOOLEAN]
    \cup [op : {"patch"}, endpoint : Endpoints, url : Urls \cup {None}, enabled : BOOLEAN \cup {None}]
    \cup [op : {"delete"}, endpoint : Endpoints, url : {None}, enabled : {None}]

Init ==
    /\ live = Channels /\ row = First /\ minted = {e \in Endpoints : First[e] # None}
    /\ call = [k \in Calls |-> None] /\ walk = None /\ changes = 0

\* requireChannel, and the URL guard: what they refuse is answered 404 or 400.
Request(k, c, body) ==
    /\ call[k] = None /\ changes < MaxChanges /\ changes' = changes + 1
    /\ body.endpoint \in minted \cup {None}
    /\ c \in live /\ body.url \notin Unsafe
    /\ call' = [call EXCEPT ![k] = [channel |-> c, body |-> body]]
    /\ UNCHANGED <<live, row, minted, walk>>

Asks(k, op) == call[k] # None /\ call[k].body.op = op

Answer(k) == call' = [call EXCEPT ![k] = None]

\* endpoint_channel_id_url_key, for a row e that comes to hold url in c.
UrlFree(c, url, e) ==
    \A d \in Endpoints \ {e} : row[d] # None /\ row[d].channel = c => row[d].url # url

\* What the client of a walk may count on: the Endpoints that keep their url.
Stayers ==
    walk' = IF walk = None THEN None
            ELSE [walk EXCEPT !.stayers =
                     {e \in @ : row'[e] # None /\ row'[e].url = row[e].url}]

\* insertEndpoint: 201, or 409.
Create(k) ==
    /\ Asks(k, "create") /\ Answer(k)
    /\ LET c == call[k].channel  body == call[k].body IN
       \/ \E e \in Endpoints \ minted :
             /\ UrlFree(c, body.url, e)
             /\ minted' = minted \cup {e}
             /\ row' = [row EXCEPT ![e] =
                   [channel |-> c, url |-> body.url, enabled |-> body.enabled, auto |-> FALSE]]
       \/ /\ \E e \in Endpoints : ~UrlFree(c, body.url, e)
          /\ UNCHANGED <<row, minted>>
    /\ Stayers /\ UNCHANGED <<live, changes>>

\* Mutant: a row is found by its id alone.
Addressed_ById(c, e) == row[e] # None

\* The rows updateEndpoint and deleteEndpoint select.
Addressed(c, e) == row[e] # None /\ row[e].channel = c

\* Mutant: switching on leaves the mark of the auto-disable.
Patched_KeepsMark(r, body) ==
    [r EXCEPT !.url = IF body.url = None THEN @ ELSE body.url,
              !.enabled = IF body.enabled = None THEN @ ELSE body.enabled]

\* The fields a PATCH sets; switching on clears autoDisabledAt.
Patched(r, body) ==
    [r EXCEPT !.url = IF body.url = None THEN @ ELSE body.url,
              !.enabled = IF body.enabled = None THEN @ ELSE body.enabled,
              !.auto = @ /\ body.enabled # TRUE]

\* updateEndpoint: 200, 404 or 409.
Patch(k) ==
    /\ Asks(k, "patch") /\ Answer(k)
    /\ LET c == call[k].channel  body == call[k].body  e == body.endpoint IN
       row' = IF Addressed(c, e) /\ (body.url # None => UrlFree(row[e].channel, body.url, e))
              THEN [row EXCEPT ![e] = Patched(@, body)]
              ELSE row
    /\ Stayers /\ UNCHANGED <<live, minted, changes>>

\* deleteEndpoint: 204 or 404.
Delete(k) ==
    /\ Asks(k, "delete") /\ Answer(k)
    /\ LET c == call[k].channel  e == call[k].body.endpoint IN
       row' = IF Addressed(c, e) THEN [row EXCEPT ![e] = None] ELSE row
    /\ Stayers /\ UNCHANGED <<live, minted, changes>>

\* softDeleteChannel leaves the Endpoints where they are.
DeleteChannel(c) ==
    /\ c \in live /\ changes < MaxChanges /\ changes' = changes + 1
    /\ live' = live \ {c}
    /\ UNCHANGED <<row, minted, call, walk>>

\* The last UPDATE of maybeAutoDisableEndpoint.
AutoDisable(e) ==
    /\ row[e] # None /\ ~row[e].auto
    /\ changes < MaxChanges /\ changes' = changes + 1
    /\ row' = [row EXCEPT ![e].enabled = FALSE, ![e].auto = TRUE]
    /\ UNCHANGED <<live, minted, call, walk>>

\* listEnabledEndpointsByChannel
Targets(c) ==
    {e \in Endpoints : row[e] # None /\ row[e].channel = c /\ row[e].enabled /\ ~row[e].auto}

-----------------------------------------------------------------------------
(* The list, in the order of (url, id).                                    *)

Key(e) == <<row[e].url, e>>
KeyBefore(k, l) == k[1] < l[1] \/ (k[1] = l[1] /\ k[2] < l[2])

After(c, cursor) ==
    {e \in Endpoints :
        /\ row[e] # None /\ row[e].channel = c
        /\ cursor # None => KeyBefore(cursor, Key(e))}

Rows(c, cursor) == InOrder(After(c, cursor), LAMBDA d, e : KeyBefore(Key(d), Key(e)))

\* Mutant: the cursor is the row looked at to tell whether there is more.
NextCursor_LookAhead(rows) == IF Len(rows) > Limit THEN Key(rows[Limit + 1]) ELSE None

\* The last row of the page, if there is a row after it.
NextCursor(rows) == IF Len(rows) > Limit THEN Key(rows[Limit]) ELSE None

Begin(c) ==
    /\ walk = None /\ c \in live
    /\ walk' = [channel |-> c, cursor |-> None, listed |-> <<>>, done |-> FALSE,
                stayers |-> After(c, None)]
    /\ UNCHANGED <<live, row, minted, call, changes>>

\* GET /channels/:channelId/endpoints; a Channel deleted meanwhile is a 404.
Page ==
    /\ walk # None /\ ~walk.done /\ walk.channel \in live
    /\ LET rows == Rows(walk.channel, walk.cursor)
       IN walk' = [walk EXCEPT !.listed = @ \o PageOf(rows, Limit),
                               !.cursor = NextCursor(rows), !.done = NextCursor(rows) = None]
    /\ UNCHANGED <<live, row, minted, call, changes>>

Close ==
    /\ walk # None /\ (walk.done \/ walk.channel \notin live)
    /\ walk' = None
    /\ UNCHANGED <<live, row, minted, call, changes>>

Next ==
    \/ \E k \in Calls :
          \/ \E c \in Channels, body \in Bodies : Request(k, c, body)
          \/ Create(k) \/ Patch(k) \/ Delete(k)
    \/ \E c \in Channels : DeleteChannel(c) \/ Begin(c)
    \/ \E e \in Endpoints : AutoDisable(e)
    \/ Page \/ Close

Spec == Init /\ [][Next]_vars
-----------------------------------------------------------------------------
(* Properties.                                                             *)

TypeOK ==
    /\ live \subseteq Channels /\ minted \subseteq Endpoints
    /\ row \in [Endpoints -> Endpoint \cup {None}]
    /\ call \in [Calls -> [channel : Channels, body : Bodies] \cup {None}]
    /\ walk # None => walk.stayers \subseteq Endpoints /\ walk.listed \in Seq(Endpoints)
    /\ changes \in 0..MaxChanges

Times(e) == Cardinality({i \in DOMAIN walk.listed : walk.listed[i] = e})

\* An Endpoint that keeps its url while a client reads the list is on exactly
\* one page, whatever is created, renamed, deleted and created again between
\* two pages.
KeptListedOnce ==
    walk # None => \A e \in walk.stayers : Times(e) <= 1 /\ (walk.done => Times(e) = 1)

OwnChannelOnlyStep ==
    \A e \in Endpoints :
       row[e] # None /\ row'[e] # row[e] =>
           \/ \E k \in Calls : call[k] # None /\ call'[k] = None /\ call[k].channel = row[e].channel
           \/ row'[e] # None /\ row'[e].auto /\ ~row[e].auto

\* A request reaches only the Endpoints of the Channel in its path, the one
\* whose existence was checked, whatever id it names and whatever was deleted
\* since the check.
OwnChannelOnly == [][OwnChannelOnlyStep]_vars

\* The switch an operator sees says whether an Endpoint is fanned out to: the
\* second condition of the fan-out's query, the mark of the auto-disable, never
\* excludes one that is switched on, in whatever order the worker's UPDATE and
\* the operators' PATCHes come.
SwitchDecides ==
    \A e \in Endpoints : row[e] # None => (row[e].enabled <=> e \in Targets(row[e].channel))
=============================================================================
