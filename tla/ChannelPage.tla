---------------------------- MODULE ChannelPage ----------------------------
(***************************************************************************)
(* A Channel's page in one browser tab, on its Settings tab: the slug or   *)
(* id in the address bar, the slug lookup and the polled Channel in the    *)
(* query cache, the settings form, the rename that moves the page along,   *)
(* and the two-step delete, while other operators rename, change and       *)
(* delete the same Channels and slugs pass from one Channel to another.    *)
(*                                                                         *)
(* A fetch is read by the API when it is sent and lands at any time later. *)
(* `enabled` stands for every field of a Channel but its slug. A landing   *)
(* includes the render and the effects that follow it.                     *)
(***************************************************************************)
EXTENDS Integers, FiniteSets

CONSTANTS
    None, Missing, \* model values
    Channels, Slugs,
    Malformed,    \* what the slug's field may hold and the contract refuses
    First,        \* the initial rows' slugs, and the Channel the tab is opened on
    Home,
    MaxChanges,   \* bound on what other operators change
    MaxSaves,     \* bound on the saves of this tab
    MaxEdits      \* bound on its keystrokes

VARIABLES
    row,       \* the API's rows
    route,     \* the address bar: a Channel's id, a slug, or the directory
    lookup,    \* cache ["channel-slug-lookup", slug]
    cache,     \* cache ["channel", id]: the data and whether the last fetch said 404
    fetch,     \* fetches on their way back, one per cache entry
    form,      \* ChannelSettingsForm: the fields, and which were edited since the reset
    save,      \* the PATCH under way
    danger,    \* ChannelDangerZonePanel: region open, and for which Channel
    delete,    \* the Channel a DELETE is under way for
    changes, saves, edits

vars == <<row, route, lookup, cache, fetch, form, save, danger, delete, changes, saves, edits>>

Fields == [slug : Slugs, enabled : BOOLEAN]

\* What the address bar may hold; what a fetch may bring; a PATCH and a DELETE.
Routes == [form : {"id"}, at : Channels] \cup [form : {"slug"}, at : Slugs]
             \cup [form : {"directory"}, at : {None}]
Fetched == [id : Channels, data : Fields] \cup [id : {Missing}, data : {None}]
Saving == [of : Channels, fields : Fields, was : Slugs, route : Routes,
           reply : {None, "ok", "refused"}]
Deleting == [id : Channels, confirmed : Channels]

\* A Channel's id and a slug are told apart, and null is none of what is kept.
PageAssumption ==
    /\ First \in [Channels -> Slugs] /\ Home \in Channels
    /\ Channels \cap Slugs = {} /\ Malformed \cap Slugs = {}
    /\ {None, Missing} \cap Channels = {} /\ None # Missing /\ None # "ok"
    /\ None \notin Fields \cup Fetched \cup Saving \cup Deleting
    /\ MaxChanges \in Nat /\ MaxSaves \in Nat /\ MaxEdits \in Nat

NoData == [data |-> None, gone |-> FALSE]
Blank == [fields |-> None, edited |-> {}]
Shut == [open |-> FALSE, of |-> None]

Init ==
    /\ row = [c \in Channels |-> [slug |-> First[c], enabled |-> TRUE, live |-> TRUE]]
    /\ route \in {[form |-> "id", at |-> Home], [form |-> "slug", at |-> First[Home]]}
    /\ lookup = [s \in Slugs |-> None]
    /\ cache = [c \in Channels |-> NoData]
    /\ fetch = [k \in Slugs \cup Channels |-> None]
    /\ form = Blank
    /\ save = None
    /\ danger = Shut
    /\ delete = None
    /\ changes = 0 /\ saves = 0 /\ edits = 0

-----------------------------------------------------------------------------
(* What the page derives from address and cache.                           *)

\* useChannelRouteId: the id of an id-form route, else what the lookup found.
ChannelId == CASE route.form = "id" -> route.at
               [] route.form = "slug" /\ lookup[route.at] # Missing -> lookup[route.at]
               [] OTHER -> None

NotFound ==
    \/ route.form = "slug" /\ lookup[route.at] = Missing
    \/ ChannelId # None /\ cache[ChannelId].gone

Shown == IF NotFound \/ ChannelId = None THEN None ELSE cache[ChannelId].data

ShownId == IF Shown = None THEN None ELSE ChannelId

\* Mutant: the form is filled again only for another Channel.
Refill_ById == ShownId' # ShownId

\* The form's effect on [channel]: the object changes when its contents do.
Refill == Shown' # Shown \/ ShownId' # ShownId

\* Mutant: the region stays open whatever Channel the page has come to show.
Closes_Never == FALSE

\* The panel's effect on [channel.id], or the panel's unmounting.
Closes == ShownId' # ShownId

\* The render and effects after a change of route or cache.
Rendered ==
    /\ form' = IF Shown' = None THEN Blank
               ELSE IF Refill THEN [fields |-> Shown', edited |-> {}] ELSE form
    /\ danger' = IF Closes THEN Shut ELSE danger

-----------------------------------------------------------------------------
(* Fetches.                                                                *)

Holder(s) == {c \in Channels : row[c].live /\ row[c].slug = s}
FieldsOf(c) == [slug |-> row[c].slug, enabled |-> row[c].enabled]

\* On mount, and when the window gets the focus again.
FetchLookup ==
    /\ route.form = "slug" /\ fetch[route.at] = None
    /\ fetch' = [fetch EXCEPT ![route.at] =
          IF Holder(route.at) = {} THEN [id |-> Missing, data |-> None]
          ELSE LET c == CHOOSE c \in Holder(route.at) : TRUE IN [id |-> c, data |-> FieldsOf(c)]]
    /\ UNCHANGED <<row, route, lookup, cache, form, save, danger, delete, changes, saves, edits>>

\* The Channel found seeds the entry the page polls.
LandLookup(s) ==
    /\ fetch[s] # None
    /\ lookup' = [lookup EXCEPT ![s] = fetch[s].id]
    /\ cache' = IF fetch[s].id = Missing THEN cache
                ELSE [cache EXCEPT ![fetch[s].id] = [data |-> fetch[s].data, gone |-> FALSE]]
    /\ fetch' = [fetch EXCEPT ![s] = None]
    /\ route' = route
    /\ Rendered
    /\ UNCHANGED <<row, save, delete, changes, saves, edits>>

\* Mutant: a Channel is loaded once and then left to the form's own saves.
Polls_Once == ChannelId # None /\ cache[ChannelId] = NoData

\* refetchInterval: until a 404, which is final.
Polls == ChannelId # None /\ ~cache[ChannelId].gone

FetchChannel ==
    /\ Polls /\ fetch[ChannelId] = None
    /\ fetch' = [fetch EXCEPT ![ChannelId] =
          IF row[ChannelId].live THEN [id |-> ChannelId, data |-> FieldsOf(ChannelId)]
          ELSE [id |-> Missing, data |-> None]]
    /\ UNCHANGED <<row, route, lookup, cache, form, save, danger, delete, changes, saves, edits>>

LandChannel(c) ==
    /\ fetch[c] # None
    /\ cache' = [cache EXCEPT ![c] = IF fetch[c].id = Missing THEN [@ EXCEPT !.gone = TRUE]
                                     ELSE [data |-> fetch[c].data, gone |-> FALSE]]
    /\ fetch' = [fetch EXCEPT ![c] = None]
    /\ UNCHANGED <<route, lookup>>
    /\ Rendered
    /\ UNCHANGED <<row, save, delete, changes, saves, edits>>

-----------------------------------------------------------------------------
(* The settings form.                                                      *)

Edit ==
    /\ Shown # None /\ edits < MaxEdits
    /\ \/ \E s \in (Slugs \cup Malformed) \ {form.fields.slug} :
             form' = [fields |-> [form.fields EXCEPT !.slug = s], edited |-> form.edited \cup {"slug"}]
       \/ form' = [fields |-> [form.fields EXCEPT !.enabled = ~@], edited |-> form.edited \cup {"enabled"}]
    /\ edits' = edits + 1
    /\ UNCHANGED <<row, route, lookup, cache, fetch, save, danger, delete, changes, saves>>

\* makeValidateSlug and validateIngestSuccessStatus
Accepted(fields) == fields.slug \notin Malformed

\* handleSubmit sends every field, edited or not, unless one is malformed. What it does with the
\* answer was bound when it was pressed: `was` is the slug then shown.
Save ==
    /\ Shown # None /\ save = None /\ saves < MaxSaves /\ Accepted(form.fields)
    /\ save' = [of |-> ChannelId, fields |-> form.fields, was |-> Shown.slug,
                route |-> route, reply |-> None]
    /\ saves' = saves + 1
    /\ UNCHANGED <<row, route, lookup, cache, fetch, form, danger, delete, changes, edits>>

Free(s, c) == Holder(s) \subseteq {c}

Commit ==
    /\ save # None /\ save.reply = None
    /\ IF row[save.of].live /\ Free(save.fields.slug, save.of)
       THEN /\ row' = [row EXCEPT ![save.of] = [slug |-> save.fields.slug,
                                                enabled |-> save.fields.enabled, live |-> TRUE]]
            /\ save' = [save EXCEPT !.reply = "ok"]
       ELSE save' = [save EXCEPT !.reply = "refused"] /\ UNCHANGED row
    /\ UNCHANGED <<route, lookup, cache, fetch, form, danger, delete, changes, saves, edits>>

\* Mutant: leaves the address bar on the slug renamed away.
Follows_Never == FALSE

\* followSlugRename's condition: this page is addressed by the slug it retired.
Follows ==
    save.route.form = "slug" /\ save.route.at = save.was /\ save.fields.slug # save.was

SaveAnswered ==
    /\ save # None /\ save.reply # None
    /\ IF save.reply = "ok"
       THEN /\ cache' = [cache EXCEPT ![save.of] = [data |-> save.fields, gone |-> FALSE]]
            /\ IF Follows /\ route.form # "directory"
               THEN /\ lookup' = [lookup EXCEPT ![save.fields.slug] = save.of]
                    /\ route' = [form |-> "slug", at |-> save.fields.slug]
               ELSE UNCHANGED <<lookup, route>>
       ELSE UNCHANGED <<cache, lookup, route>>
    /\ save' = None
    /\ Rendered
    /\ UNCHANGED <<row, fetch, delete, changes, saves, edits>>

-----------------------------------------------------------------------------
(* The danger zone.                                                        *)

OpenConfirm ==
    /\ Shown # None /\ ~danger.open
    /\ danger' = [open |-> TRUE, of |-> ChannelId]
    /\ UNCHANGED <<row, route, lookup, cache, fetch, form, save, delete, changes, saves, edits>>

\* Cancel or Escape; Escape works while the request is under way too.
CancelDelete ==
    /\ danger.open
    /\ danger' = Shut
    /\ UNCHANGED <<row, route, lookup, cache, fetch, form, save, delete, changes, saves, edits>>

\* `of` goes with the request only as history: handleDelete reads the prop.
ConfirmDelete ==
    /\ danger.open /\ delete = None
    /\ delete' = [id |-> ChannelId, confirmed |-> danger.of]
    /\ UNCHANGED <<row, route, lookup, cache, fetch, form, save, danger, changes, saves, edits>>

\* 204, or a 404 that leaves the page where it is.
DeleteAnswered ==
    /\ delete # None
    /\ IF row[delete.id].live
       THEN /\ row' = [row EXCEPT ![delete.id].live = FALSE]
            /\ route' = [form |-> "directory", at |-> None]
       ELSE UNCHANGED <<row, route>>
    /\ delete' = None
    /\ UNCHANGED <<lookup, cache>>
    /\ Rendered
    /\ UNCHANGED <<fetch, save, changes, saves, edits>>

-----------------------------------------------------------------------------
(* The other operators.                                                    *)

OthersChange(c) ==
    /\ row[c].live /\ changes < MaxChanges
    /\ changes' = changes + 1
    /\ \/ row' = [row EXCEPT ![c].enabled = ~@]
       \/ row' = [row EXCEPT ![c].live = FALSE]
       \/ \E s \in Slugs : Holder(s) = {} /\ row' = [row EXCEPT ![c].slug = s]
    /\ UNCHANGED <<route, lookup, cache, fetch, form, save, danger, delete, saves, edits>>

Land == \/ \E s \in Slugs : LandLookup(s)
        \/ \E c \in Channels : LandChannel(c)

Next ==
    \/ FetchLookup \/ FetchChannel \/ Land
    \/ Edit \/ Save \/ Commit \/ SaveAnswered
    \/ OpenConfirm \/ CancelDelete \/ ConfirmDelete \/ DeleteAnswered
    \/ \E c \in Channels : OthersChange(c)

Spec == Init /\ [][Next]_vars

\* The poll runs and requests are answered; operators owe nothing, and no
\* window has to be focused.
Fairness ==
    /\ WF_vars(FetchLookup /\ lookup[route.at] = None) /\ WF_vars(FetchChannel)
    /\ \A s \in Slugs : WF_vars(LandLookup(s))
    /\ \A c \in Channels : WF_vars(LandChannel(c))
    /\ WF_vars(Commit) /\ WF_vars(SaveAnswered) /\ WF_vars(DeleteAnswered)

FairSpec == Spec /\ Fairness
-----------------------------------------------------------------------------
(* Properties.                                                             *)

TypeOK ==
    /\ row \in [Channels -> [slug : Slugs, enabled : BOOLEAN, live : BOOLEAN]]
    /\ route.form \in {"id", "slug", "directory"}
    /\ lookup \in [Slugs -> Channels \cup {None, Missing}]
    /\ \A c \in Channels : cache[c].data \in Fields \cup {None} /\ cache[c].gone \in BOOLEAN
    /\ (form = Blank) = (Shown = None)
    /\ danger.open => danger.of \in Channels
    /\ changes \in 0..MaxChanges /\ saves \in 0..MaxSaves /\ edits \in 0..MaxEdits

\* An operator who renames the Channel does not lose the page to the rename:
\* unless others changed something, a "Channel not found" in between is over
\* with the answer to the save. (A second rename, back to the first slug, may
\* meet a lookup still on its way since before.)
OwnRenameKeepsPage == (changes = 0 /\ saves = 1 /\ save = None) => ~NotFound

\* A save carries another operator's change back only as long as this page
\* had not shown it: every field that was not edited since is as shown.
SaveRevertsNothingShown ==
    Shown # None => \A f \in {"slug", "enabled"} \ form.edited : form.fields[f] = Shown[f]

\* The Channel deleted is the one the operator asked to delete, even when the
\* slug in the address bar has passed to another Channel in between.
DeletesWhatWasConfirmed == delete # None => delete.id = delete.confirmed

\* A page addressed by id ends up showing the Channel as it is, whatever
\* answers landed late over a save, or that it is gone.
PageCatchesUp ==
    <>[](route.form = "id" =>
            IF row[route.at].live THEN Shown = FieldsOf(route.at) ELSE NotFound)
=============================================================================
