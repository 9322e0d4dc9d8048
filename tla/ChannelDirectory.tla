-------------------------- MODULE ChannelDirectory --------------------------
(***************************************************************************)
(* The Channel rows under the admin API: POST, PATCH and DELETE of         *)
(* /channels with the two constraints of the table, and a client that      *)
(* walks GET /channels page by page while the counts it is sorted by       *)
(* change under it.                                                        *)
(*                                                                         *)
(* The sort key is read from other tables (failed Deliveries, auto-        *)
(* disabled Endpoints) that the worker and the operators write between two *)
(* pages. A slug is a number, its order that of the names; the ones below  *)
(* ShortSlugs are too short for a Channel without a token.                 *)
(***************************************************************************)
EXTENDS Paging

CONSTANTS
    Channels,     \* ids, as numbers: the last leg of the order
    Slugs,        \* a set of numbers
    ShortSlugs,   \* slugs below this are shorter than MIN_OPEN_INGEST_SLUG_LENGTH
    Limit,        \* the page size a client asks for
    MaxFailures,  \* bound on the failed Deliveries of a Channel
    MaxOff,       \* bound on its auto-disabled Endpoints
    MaxChanges    \* bound on the changes of the rows

DirectoryAssumption ==
    /\ Channels \subseteq Int /\ IsFiniteSet(Channels) /\ Slugs \subseteq Int
    /\ \A c \in Channels : \E s \in Slugs : s % Cardinality(Channels) = c % Cardinality(Channels)
    /\ Limit \in Nat \ {0} /\ MaxFailures \in Nat /\ MaxOff \in Nat
    /\ MaxChanges \in Nat

VARIABLES
    row,      \* channel: slug, enabled, open ingest, and whether it is live
    failed,   \* failed or dead-lettered Deliveries in the recent window
    off,      \* Endpoints with autoDisabledAt set
    walk,     \* the client's walk: cursor, what it was shown, whether it ended
    moved,    \* history: Channels whose place in the order changed since the walk began
    changes

vars == <<row, failed, off, walk, moved, changes>>

Start == [under |-> FALSE, after |-> <<>>, shown |-> <<>>]

Init ==
    /\ row = [c \in Channels |-> [slug |-> CHOOSE s \in Slugs : s % Cardinality(Channels) = c % Cardinality(Channels),
                                  live |-> TRUE, enabled |-> TRUE, open |-> FALSE]]
    /\ failed = [c \in Channels |-> 0]
    /\ off = [c \in Channels |-> 0]
    /\ walk = Start
    /\ moved = {}
    /\ changes = 0

-----------------------------------------------------------------------------
(* The order of the directory.                                             *)

\* 0 needs attention, 1 healthy or quiet, 2 disabled whatever its failures.
HealthRank(c) ==
    IF ~row[c].enabled THEN 2
    ELSE IF off[c] > 0 \/ failed[c] > 0 THEN 0 ELSE 1

\* Larger counts first within a rank.
Key(c) == <<HealthRank(c), -failed[c], -off[c], row[c].slug, c>>

\* The keyset WHERE: a row strictly after the cursor, leg by leg.
After(key, cursor) ==
    \E i \in 1..5 : key[i] > cursor[i] /\ \A j \in 1..(i - 1) : key[j] = cursor[j]

\* The live rows after the cursor, in order.
Candidates(cursor) ==
    LET here == {c \in Channels : row[c].live /\ (cursor = <<>> \/ After(Key(c), cursor))}
    IN  InOrder(here, LAMBDA c, d : After(Key(d), Key(c)))

\* Mutant: the cursor is the look-ahead row, which the next page then skips.
CursorRow_LookAhead(rows) == rows[Limit + 1]

\* The last row of the page is the cursor's.
CursorRow(rows) == rows[Limit]

-----------------------------------------------------------------------------
(* The client.                                                             *)

Begin ==
    /\ ~walk.under /\ walk.shown = <<>>
    /\ walk' = [walk EXCEPT !.under = TRUE]
    /\ moved' = {c \in Channels : ~row[c].live}
    /\ UNCHANGED <<row, failed, off, changes>>

\* listChannels: LIMIT + 1 rows tell whether there is more. One statement, so
\* that ranks, counts and order are of one moment.
Page ==
    /\ walk.under
    /\ LET rows == Candidates(walk.after)
       IN  walk' = [under |-> Len(rows) > Limit,
                    after |-> IF Len(rows) > Limit THEN Key(CursorRow(rows)) ELSE <<>>,
                    shown |-> walk.shown \o PageOf(rows, Limit)]
    /\ UNCHANGED <<row, failed, off, moved, changes>>

-----------------------------------------------------------------------------
(* The rows.                                                               *)

Change == changes < MaxChanges /\ changes' = changes + 1

\* A statement that changes the key of c in the middle of a walk.
Moves(c) == moved' = IF walk.under THEN moved \cup {c} ELSE moved

\* channel_slug_active_key: unique among the rows not deleted.
SlugFree(slug, c) == \A d \in Channels \ {c} : row[d].live => row[d].slug # slug

\* Mutant: the length is checked only where a request names slug and flag
\* both, as the contract's schema does.
OpenAllowed_Named(slug, open, named) == (open /\ named = {"slug", "open"}) => slug >= ShortSlugs

\* channel_open_ingest_slug_length_chk, on the row that results.
OpenAllowed(slug, open, named) == open => slug >= ShortSlugs

\* Refused with 409 or 400 otherwise: nothing changes.
CreateChannel(c) ==
    /\ ~row[c].live /\ Change
    /\ \E slug \in Slugs, open \in BOOLEAN :
          /\ SlugFree(slug, c) /\ OpenAllowed(slug, open, {"slug", "open"})
          /\ row' = [row EXCEPT ![c] = [slug |-> slug, live |-> TRUE, enabled |-> TRUE, open |-> open]]
    /\ failed' = [failed EXCEPT ![c] = 0] /\ off' = [off EXCEPT ![c] = 0]
    /\ Moves(c) /\ UNCHANGED walk

\* PATCH sets the fields the body names; a deleted row is not found.
PatchChannel(c) ==
    /\ row[c].live /\ Change
    /\ \E named \in (SUBSET {"slug", "open", "enabled"}) \ {{}} :
       \E new \in [slug : Slugs, live : {TRUE}, enabled : BOOLEAN, open : BOOLEAN] :
          /\ "slug" \notin named => new.slug = row[c].slug
          /\ "open" \notin named => new.open = row[c].open
          /\ "enabled" \notin named => new.enabled = row[c].enabled
          /\ SlugFree(new.slug, c) /\ OpenAllowed(new.slug, new.open, named)
          /\ row' = [row EXCEPT ![c] = new]
    /\ Moves(c) /\ UNCHANGED <<failed, off, walk>>

\* softDeleteChannel: the row stays, its slug is free again.
DeleteChannel(c) ==
    /\ row[c].live /\ Change
    /\ row' = [row EXCEPT ![c].live = FALSE]
    /\ Moves(c) /\ UNCHANGED <<failed, off, walk>>

\* A Delivery fails, or a failed one is retried or leaves the window; an
\* Endpoint is auto-disabled or switched on again.
CountsChange(c) ==
    /\ row[c].live /\ Change
    /\ \/ /\ failed' \in {[failed EXCEPT ![c] = n] : n \in (0..MaxFailures) \cap {failed[c] - 1, failed[c] + 1}}
          /\ UNCHANGED off
       \/ /\ off' \in {[off EXCEPT ![c] = n] : n \in (0..MaxOff) \cap {off[c] - 1, off[c] + 1}}
          /\ UNCHANGED failed
    /\ Moves(c) /\ UNCHANGED <<row, walk>>

Next ==
    \/ Begin \/ Page
    \/ \E c \in Channels : CreateChannel(c) \/ PatchChannel(c) \/ DeleteChannel(c) \/ CountsChange(c)

Spec == Init /\ [][Next]_vars
-----------------------------------------------------------------------------
(* Properties.                                                             *)

TypeOK ==
    /\ row \in [Channels -> [slug : Slugs, live : BOOLEAN, enabled : BOOLEAN, open : BOOLEAN]]
    /\ failed \in [Channels -> 0..MaxFailures] /\ off \in [Channels -> 0..MaxOff]
    /\ moved \subseteq Channels /\ changes \in 0..MaxChanges
    /\ walk.under \in BOOLEAN /\ walk.shown \in Seq(Channels)

\* Whatever sequence of requests named the slug and the flag, apart or
\* together, no live Channel takes Broadcasts without a token under a short slug.
OpenIsLong == \A c \in Channels : row[c].live /\ row[c].open => row[c].slug >= ShortSlugs

Times(c) == Cardinality({i \in DOMAIN walk.shown : walk.shown[i] = c})

\* A Channel that stays where it was is listed exactly once by a whole walk,
\* and never twice, whatever the others do between two pages.
StayersListedOnce ==
    \A c \in Channels \ moved :
        /\ Times(c) <= 1
        /\ (~walk.under /\ walk.shown # <<>> /\ row[c].live) => Times(c) = 1
=============================================================================
