----------------------------- MODULE ActivityFeed -----------------------------
(***************************************************************************)
(* A list of Broadcasts on a Channel's Activity tab: the flat log, or the  *)
(* failing Broadcasts of one Endpoint, which work alike. The first page is *)
(* polled; older pages are loaded on demand behind a keyset cursor and     *)
(* kept beside the query cache; meanwhile Broadcasts arrive, leave, join   *)
(* and leave the failing ones, and answers land late.                      *)
(*                                                                         *)
(* A Broadcast is its place in the order of (receivedAt, id); two that     *)
(* follow each other may share receivedAt. A request is read by the API    *)
(* when it is sent.                                                        *)
(***************************************************************************)
EXTENDS Paging

CONSTANTS
    Broadcasts,  \* 1..n
    Initially,   \* those listed at first
    Limit,       \* the page size
    NoCursor,    \* the null cursor, or an empty cache
    MaxChanges,  \* bound on the changes of the list
    MaxLoads     \* bound on "Load more"

FeedAssumption ==
    /\ Broadcasts \subseteq Nat /\ IsFiniteSet(Broadcasts) /\ Initially \subseteq Broadcasts
    /\ NoCursor \notin Broadcasts /\ NoCursor \notin Seq(Broadcasts)
    /\ Limit \in Nat \ {0} /\ MaxChanges \in Nat /\ MaxLoads \in Nat

VARIABLES
    listed,   \* the stored Broadcasts that belong to the list
    page,     \* the query's data: the first page and its nextCursor
    poll,     \* the first page on its way
    extra,    \* extraItems
    cursor,   \* nextCursor
    loads,    \* the older pages on their way, each with the cursor it was asked for
    failed,   \* loadMoreError
    known,    \* history: listed since the pages on screen were read
    crossed,  \* history: an older page landed on a cursor it was not asked for
    changes, pressed

vars == <<listed, page, poll, extra, cursor, loads, failed, known, crossed, changes, pressed>>

Empty == [items |-> <<>>, next |-> NoCursor]
NoData == [items |-> NoCursor, next |-> NoCursor]

Init ==
    /\ listed = Initially
    /\ page = NoData /\ poll = NoCursor
    /\ extra = <<>> /\ cursor = NoCursor
    /\ loads = {} /\ failed = FALSE
    /\ known = {} /\ crossed = FALSE
    /\ changes = 0 /\ pressed = 0

-----------------------------------------------------------------------------
(* listBroadcastsByChannel, listBroadcastsForEndpointFailures.             *)

ReceivedAt(b) == (b + 1) \div 2

Before(b, c) ==
    \/ ReceivedAt(b) < ReceivedAt(c)
    \/ ReceivedAt(b) = ReceivedAt(c) /\ b < c

Rows(c) ==
    LET after == {b \in listed : c # NoCursor => Before(b, c)}
    IN InOrder(after, LAMBDA a, b : Before(b, a))

\* Mutant: the look-ahead row becomes the cursor.
NextCursor_LookAhead(rows) == IF Len(rows) > Limit THEN rows[Limit + 1] ELSE NoCursor

NextCursor(rows) == IF Len(rows) > Limit THEN rows[Limit] ELSE NoCursor

Page(c) ==
    LET rows == Rows(c)
    IN [items |-> PageOf(rows, Limit), next |-> NextCursor(rows)]

\* The flat log gains a Broadcast when it is ingested or replayed, possibly
\* after one received later, and loses the oldest to retention; a group's
\* list also gains and loses Broadcasts in its middle.
Change ==
    /\ changes < MaxChanges /\ changes' = changes + 1
    /\ \/ \E b \in Broadcasts \ listed : listed' = listed \cup {b} /\ UNCHANGED known
       \/ \E b \in listed : listed' = listed \ {b} /\ known' = known \ {b}
    /\ UNCHANGED <<page, poll, extra, cursor, loads, failed, crossed, pressed>>

-----------------------------------------------------------------------------
(* ChannelActivityTab, EndpointFailureChildren.                            *)

Poll ==
    /\ poll = NoCursor
    /\ poll' = [page |-> Page(NoCursor), listed |-> listed]
    /\ UNCHANGED <<listed, page, extra, cursor, loads, failed, known, crossed, changes, pressed>>

\* Mutant: the older pages outlive the first page they were loaded under.
ExtraAfter_Kept(changed) == extra

\* The effect on [data].
ExtraAfter(changed) == IF changed THEN <<>> ELSE extra

\* A poll that lands, with the effects on [data] and [dataUpdatedAt]. The data
\* is another object when its rows differ, or only their fan-out summaries.
PollLands ==
    /\ poll # NoCursor
    /\ \E changed \in {TRUE, poll.page # page} :
          /\ extra' = ExtraAfter(changed)
          /\ cursor' = IF changed THEN poll.page.next ELSE cursor
          /\ known' = IF changed THEN poll.listed \cap listed ELSE known
          /\ crossed' = (crossed /\ ~changed)
    /\ page' = poll.page
    /\ failed' = FALSE
    /\ poll' = NoCursor
    /\ UNCHANGED <<listed, loads, changes, pressed>>

PollFails ==
    /\ poll # NoCursor /\ poll' = NoCursor
    /\ UNCHANGED <<listed, page, extra, cursor, loads, failed, known, crossed, changes, pressed>>

\* handleLoadMore, from "Load more", which is disabled while it loads, or from
\* the error's Retry, which is not.
LoadMore ==
    /\ cursor # NoCursor /\ pressed < MaxLoads
    /\ loads = {} \/ failed
    /\ pressed' = pressed + 1
    /\ loads' = loads \cup {[press |-> pressed, asked |-> cursor,
                          page |-> Page(cursor), listed |-> listed]}
    /\ UNCHANGED <<listed, page, poll, extra, cursor, failed, known, crossed, changes>>

LoadLands(r) ==
    /\ extra' = extra \o r.page.items
    /\ cursor' = r.page.next
    /\ failed' = FALSE
    /\ crossed' = (crossed \/ r.asked # cursor)
    /\ known' = known \cap r.listed
    /\ loads' = loads \ {r}
    /\ UNCHANGED <<listed, page, poll, changes, pressed>>

LoadFails(r) ==
    /\ failed' = TRUE
    /\ loads' = loads \ {r}
    /\ UNCHANGED <<listed, page, poll, extra, cursor, known, crossed, changes, pressed>>

Next ==
    \/ Change \/ Poll \/ PollLands \/ PollFails \/ LoadMore
    \/ \E r \in loads : LoadLands(r) \/ LoadFails(r)

Spec == Init /\ [][Next]_vars
-----------------------------------------------------------------------------
(* Properties.                                                             *)

Items == IF page = NoData THEN <<>> ELSE page.items \o extra

TypeOK ==
    /\ listed \subseteq Broadcasts /\ known \subseteq listed
    /\ page = NoData \/ page.items \in Seq(Broadcasts)
    /\ extra \in Seq(Broadcasts)
    /\ cursor \in Broadcasts \cup {NoCursor}
    /\ failed \in BOOLEAN /\ crossed \in BOOLEAN
    /\ changes \in 0..MaxChanges /\ pressed \in 0..MaxLoads

\* The list is newest first and shows no Broadcast twice, whatever was polled
\* between its pages, as long as every older page landed on the cursor it was
\* asked for. (The code does not ensure that: a poll may land while a page is
\* loading, and Retry may be pressed while one is.)
NewestFirst ==
    ~crossed => \A i, j \in 1..Len(Items) : i < j => Items[j] < Items[i]

\* Down to its last row, or to its end when there is nothing more to load, the
\* list shows every Broadcast that was in it when its pages were read.
NothingSkipped ==
    (~crossed /\ page # NoData) =>
        \A b \in known :
            \/ \E i \in DOMAIN Items : Items[i] = b
            \/ cursor # NoCursor /\ Items # <<>> /\ b < Items[Len(Items)]
=============================================================================
